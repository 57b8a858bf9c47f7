------------------------------ MODULE RateLimit ------------------------------
(***************************************************************************)
(* Request admission: AdmitRequest runs admitRequestQuery once for every   *)
(* authenticated request, on any server.  The query is one autocommitted   *)
(* statement of the database.  Its window is the minute in which the       *)
(* statement arrived (statement_timestamp), but it acts on the principal's *)
(* single row only when it gets the row's lock, which may be later and in  *)
(* another order.                                                          *)
(*                                                                         *)
(* Rows of different principals never meet, so one row is modelled.  Time  *)
(* is counted in ticks, several to the second, because the query rounds to *)
(* seconds.                                                                *)
(***************************************************************************)
EXTENDS Integers, FiniteSets

CONSTANTS
    Requests,          \* authenticated requests of one principal
    Limit,             \* RequestsPerMinute
    TicksPerSecond,
    SecondsPerMinute,
    LastMinute         \* bound: the run ends with this minute

ASSUME RateLimitAssumption ==
    /\ Limit \in Nat \ {0}
    /\ TicksPerSecond \in Nat \ {0}
    /\ SecondsPerMinute \in Nat \ {0}
    /\ LastMinute \in Nat

TicksPerMinute == TicksPerSecond * SecondsPerMinute
Minutes == 0 .. LastMinute

VARIABLES
    minute,    \* the minute of the database clock
    tick,      \* the ticks elapsed in it
    row,       \* principal_rate_limits: its window and count
    pc,        \* "idle", "sent", then the outcome
    stamp,     \* statement_timestamp of the request's statement
    wait,      \* the seconds of RetryAfter for a refused request
    counted,   \* history: statements that counted, by the minute of their stamp
    overtaken  \* history: a statement acted after the row had left its minute

vars == <<minute, tick, row, pc, stamp, wait, counted, overtaken>>

NoRow == [window |-> -1, count |-> 0]

TypeOK ==
    /\ minute \in Minutes
    /\ tick \in 0 .. TicksPerMinute - 1
    /\ row \in [window : Minutes \cup {-1}, count : 0 .. Limit]
    /\ pc \in [Requests -> {"idle", "sent", "admitted", "refused", "unavailable"}]
    /\ stamp \in [Requests -> [minute : Minutes, tick : 0 .. TicksPerMinute - 1]]
    /\ wait \in [Requests -> 0 .. SecondsPerMinute]
    /\ counted \in [Minutes -> Nat]
    /\ overtaken \in BOOLEAN

Init ==
    /\ minute = 0 /\ tick = 0
    /\ row = NoRow
    /\ pc = [r \in Requests |-> "idle"]
    /\ stamp = [r \in Requests |-> [minute |-> 0, tick |-> 0]]
    /\ wait = [r \in Requests |-> 0]
    /\ counted = [m \in Minutes |-> 0]
    /\ overtaken = FALSE

-----------------------------------------------------------------------------
Tick ==
    /\ \/ tick + 1 < TicksPerMinute /\ tick' = tick + 1 /\ UNCHANGED minute
       \/ /\ tick + 1 = TicksPerMinute /\ minute < LastMinute
          /\ tick' = 0 /\ minute' = minute + 1
    /\ UNCHANGED <<row, pc, stamp, wait, counted, overtaken>>

\* The statement reaches the database and is stamped.
Send(r) ==
    /\ pc[r] = "idle"
    /\ pc' = [pc EXCEPT ![r] = "sent"]
    /\ stamp' = [stamp EXCEPT ![r] = [minute |-> minute, tick |-> tick]]
    /\ UNCHANGED <<minute, tick, row, wait, counted, overtaken>>

\* Mutant of MayAdmit: the limit is off by one.
MayAdmitOneMore(window) == row.window # window \/ row.count <= Limit

\* The conflict clause: another window than the row's, or room in it.  The
\* insertion of the first row is the case of another window.
MayAdmit(window) == row.window # window \/ row.count < Limit

\* Mutant of CountAfter: a new window inherits the count of the old one.
CountNotReset(window) == IF row.count < Limit THEN row.count + 1 ELSE row.count

CountAfter(window) == IF row.window = window THEN row.count + 1 ELSE 1

\* The statement holds the row: insert or update it and admit the request.
Admit(r) ==
    LET window == stamp[r].minute
    IN  /\ pc[r] = "sent"
        /\ MayAdmit(window)
        /\ row' = [window |-> window, count |-> CountAfter(window)]
        /\ pc' = [pc EXCEPT ![r] = "admitted"]
        /\ counted' = [counted EXCEPT ![window] = @ + 1]
        /\ overtaken' = (overtaken \/ window < row.window)
        /\ UNCHANGED <<minute, tick, stamp, wait>>

\* Mutant of RetrySeconds: rounded down.
RetrySecondsFloor(t) == (TicksPerMinute - t) \div TicksPerSecond

\* GREATEST(1, CEIL(end of the window - stamp)) in seconds.
RetrySeconds(t) ==
    LET seconds == (TicksPerMinute - t + TicksPerSecond - 1) \div TicksPerSecond
    IN  IF seconds < 1 THEN 1 ELSE seconds

\* No row was updated: the request is refused and told when to retry.
Refuse(r) ==
    /\ pc[r] = "sent"
    /\ ~ MayAdmit(stamp[r].minute)
    /\ pc' = [pc EXCEPT ![r] = "refused"]
    /\ wait' = [wait EXCEPT ![r] = RetrySeconds(stamp[r].tick)]
    /\ UNCHANGED <<minute, tick, row, stamp, counted, overtaken>>

\* The query fails before it acts, or acts and its answer is lost: the request
\* is refused as unavailable either way, but may have been counted.
Fail(r) ==
    LET window == stamp[r].minute
    IN  /\ pc[r] = "sent"
        /\ pc' = [pc EXCEPT ![r] = "unavailable"]
        /\ \/ UNCHANGED <<row, counted, overtaken>>
           \/ /\ MayAdmit(window)
              /\ row' = [window |-> window, count |-> CountAfter(window)]
              /\ counted' = [counted EXCEPT ![window] = @ + 1]
              /\ overtaken' = (overtaken \/ window < row.window)
        /\ UNCHANGED <<minute, tick, stamp, wait>>

Next ==
    \/ Tick
    \/ \E r \in Requests : Send(r) \/ Admit(r) \/ Refuse(r) \/ Fail(r)

Spec == Init /\ [][Next]_vars

-----------------------------------------------------------------------------
(* Properties.                                                              *)

\* As long as no statement acts after the row has moved on to a later minute,
\* no minute counts more than the limit, whatever the servers, the delays
\* within a minute and the lost answers.
LimitHoldsInOrder ==
    ~ overtaken => \A m \in Minutes : counted[m] <= Limit

\* A request is refused only once statements have used up the limit of its own
\* minute: a late statement of another minute takes none of it, and one whose
\* answer is lost takes one, as if it had been answered.
RefusedOnlyAtLimit ==
    \A r \in Requests :
        pc[r] = "refused" => counted[stamp[r].minute] >= Limit

\* A client that waits for RetryAfter after its statement was stamped comes
\* back in a later window, and never waits longer than a window.
RetryAfterReachesNextWindow ==
    \A r \in Requests : pc[r] = "refused" =>
        /\ stamp[r].tick + wait[r] * TicksPerSecond >= TicksPerMinute
        /\ (wait[r] - 1) * TicksPerSecond < TicksPerMinute

\* G-011: an authenticated principal is admitted at most the limit per minute
\* of the database clock, across every server instance.
AtMostLimitPerMinute ==
    \A m \in Minutes :
        Cardinality({r \in Requests : pc[r] = "admitted" /\ stamp[r].minute = m}) <= Limit

\* The inductive invariant behind the theorems: the row's count is part of
\* what its minute counted and, while no statement has been overtaken, all
\* of it, and no later minute has counted anything.
CountsAreKept ==
    /\ row.window = -1 => row.count = 0
    /\ row.window \in Minutes => counted[row.window] >= row.count
    /\ ~ overtaken =>
         \A m \in Minutes :
            /\ counted[m] <= Limit
            /\ m = row.window => counted[m] = row.count
            /\ m > row.window => counted[m] = 0

=============================================================================

---------------------------- MODULE EventDelivery ----------------------------
(***************************************************************************)
(* Delivery of integration events.  Once a mutation has committed, the     *)
(* server that answers it makes one attempt to publish its event to every  *)
(* destination (Dispatcher.Publish), and so does the server that replays   *)
(* it; an operator may sweep what is pending (Dispatcher.PublishPending).  *)
(* These workers run on different servers and meet only in the rows of     *)
(* integration_event_deliveries, through leases.                           *)
(*                                                                         *)
(* Time is what it can do: a live lease may lapse at any moment, also while*)
(* its holder is still publishing, and a delayed event may come due at any *)
(* moment.  A statement of the database may fail, before or after it took  *)
(* effect, and a server may stop anywhere.  attempt_count and the length   *)
(* of retryDelay only decide when, so they are left out.                   *)
(***************************************************************************)
EXTENDS Integers, FiniteSets, FiniteSetsExt

CONSTANTS
    Events,        \* the keys of integration_events, in the order of the scan
    Destinations,  \* the configured destinations, in their sorted order
    Workers,       \* attempts to publish and sweeps
    BatchSize,     \* pendingBatchSize
    Nobody

\* A worker attempts the events of one mutation, or, having none of its own,
\* sweeps one destination or all of them.
ASSUME DeliveryAssumption ==
    /\ Events \subseteq Nat \ {0}
    /\ Destinations \subseteq Nat
    /\ IsFiniteSet(Events)
    /\ IsFiniteSet(Destinations)
    /\ BatchSize \in Nat \ {0}
    /\ \A w \in Workers :
          /\ w.events \subseteq Events
          /\ w.destinations \subseteq Destinations
    /\ Nobody \notin Workers

VARIABLES
    committed,  \* the event references that exist
    delivery,   \* integration_event_deliveries
    pc,         \* where each worker stands
    todo,       \* the destinations a worker has left
    batch,      \* the references it has left of its last scan
    full,       \* that scan filled the batch
    after,      \* the last reference it visited
    claimedAny, \* it claimed something of that scan
    tally,      \* the Summary of a sweep
    accepted,   \* history: a destination accepted an event never, once or more
    disturbed,  \* history: a lease lapsed or an acceptance was reported failed
    owed        \* history: what was free since the sweep began and not visited

work == <<pc, todo, batch, full, after, claimedAny, tally>>
vars == <<committed, delivery, work, accepted, disturbed, owed>>

Keys == Destinations \X Events
Sweeps(w) == w.events = {}

\* A counter of a Summary stays below this bound, or a sweep repeats itself.
TallyBound == Cardinality(Keys) + 1
Counted(n, bound) == IF n < bound THEN n + 1 ELSE n

\* A row that was never inserted reads like one that is free and due.
Free == [lease |-> Nobody, live |-> FALSE, due |-> TRUE, by |-> Nobody]
Rows ==
    [lease : Workers \cup {Nobody},  \* lease_nonce: every claim has its own
     live : BOOLEAN,                 \* lease_until has not passed
     due : BOOLEAN,                  \* next_attempt_at has passed
     by : Workers \cup {Nobody}]     \* who set delivered_at

Phases ==
    {"idle", "next", "scan", "visit", "publishing", "published", "failed",
     "count", "returned", "stopped"}

TypeOK ==
    /\ committed \subseteq Events
    /\ delivery \in [Keys -> Rows]
    /\ pc \in [Workers -> Phases]
    /\ todo \in [Workers -> SUBSET Destinations]
    /\ batch \in [Workers -> SUBSET Events]
    /\ full \in [Workers -> BOOLEAN]
    /\ after \in [Workers -> Events \cup {0}]
    /\ claimedAny \in [Workers -> BOOLEAN]
    /\ tally \in [Workers ->
                   [delivered : 0 .. TallyBound, failed : 0 .. TallyBound]]
    /\ accepted \in [Keys -> 0 .. 2]
    /\ \A k \in Keys :
          delivery[k].lease # Nobody => delivery[k].by = Nobody
    /\ disturbed \in SUBSET Keys
    /\ owed \in [Workers -> SUBSET Keys]

Init ==
    /\ committed = {}
    /\ delivery = [k \in Keys |-> Free]
    /\ pc = [w \in Workers |-> "idle"]
    /\ todo = [w \in Workers |-> w.destinations]
    /\ batch = [w \in Workers |-> {}]
    /\ full = [w \in Workers |-> FALSE]
    /\ after = [w \in Workers |-> 0]
    /\ claimedAny = [w \in Workers |-> FALSE]
    /\ tally = [w \in Workers |-> [delivered |-> 0, failed |-> 0]]
    /\ accepted = [k \in Keys |-> 0]
    /\ disturbed = {}
    /\ owed = [w \in Workers |-> {}]

-----------------------------------------------------------------------------
\* What worker w is at: its destination and its reference.
Destination(w) == Min(todo[w])
Current(w) == <<Destination(w), Min(batch[w])>>

Leased(row) == row.lease # Nobody /\ row.live
Pending(k) ==
    k[2] \in committed /\ delivery[k].by = Nobody /\ ~ Leased(delivery[k])

\* Mutant of Claimable: a sweep repeats what is delivered.
ClaimableWhenDelivered(k, force) ==
    /\ ~ Leased(delivery[k])
    /\ force \/ delivery[k].due

\* Mutant of Claimable: the lease of another worker is not respected.
ClaimableWhenLeased(k, force) ==
    /\ delivery[k].by = Nobody
    /\ force \/ delivery[k].due

\* The conflict clause of ClaimEvent.
Claimable(k, force) ==
    /\ delivery[k].by = Nobody
    /\ ~ Leased(delivery[k])
    /\ force \/ delivery[k].due

Goto(w, phase) == pc' = [pc EXCEPT ![w] = phase]

\* Mutant of Advance: after is not moved past the reference.
AdvanceInPlace(w, claimed) ==
    LET left == batch[w] \ {Min(batch[w])}
        any == claimedAny[w] \/ claimed
    IN  /\ batch' = [batch EXCEPT ![w] = left]
        /\ claimedAny' = [claimedAny EXCEPT ![w] = any]
        /\ Goto(w, CASE left # {} -> "visit"
                     [] left = {} /\ any /\ full[w] -> "scan"
                     [] OTHER -> "count")
        /\ UNCHANGED <<todo, full, after>>

\* Done with a reference: the next one of the batch, another scan if this one
\* was full and something of it was claimed, or the end of the destination.
Advance(w, claimed) ==
    LET e == Min(batch[w])
        left == batch[w] \ {e}
        any == claimedAny[w] \/ claimed
    IN  /\ batch' = [batch EXCEPT ![w] = left]
        /\ after' = [after EXCEPT ![w] = e]
        /\ claimedAny' = [claimedAny EXCEPT ![w] = any]
        /\ Goto(w, CASE left # {} -> "visit"
                     [] left = {} /\ any /\ full[w] -> "scan"
                     [] OTHER -> "count")
        /\ UNCHANGED <<todo, full>>

-----------------------------------------------------------------------------
(* Steps of a worker.                                                       *)

\* The mutation of an immediate attempt has committed; an operator calls.
Start(w) ==
    /\ pc[w] = "idle"
    /\ w.events \subseteq committed
    /\ Goto(w, "next")
    /\ UNCHANGED <<committed, delivery, todo, batch, full, after, claimedAny,
                   tally, accepted, disturbed>>

NextDestination(w) ==
    /\ pc[w] = "next"
    /\ \/ /\ todo[w] = {}
          /\ Goto(w, "returned")
          /\ UNCHANGED batch
       \/ /\ todo[w] # {}
          /\ Goto(w, IF Sweeps(w) THEN "scan" ELSE "visit")
          /\ batch' = [batch EXCEPT ![w] = w.events]
    /\ after' = [after EXCEPT ![w] = 0]
    /\ full' = [full EXCEPT ![w] = FALSE]
    /\ UNCHANGED <<committed, delivery, todo, claimedAny, tally, accepted,
                   disturbed>>

\* PendingEvents: the first references after the last one visited that are
\* neither delivered nor leased.
PendingEvents(w) ==
    LET refs == {e \in committed : e > after[w] /\ Pending(<<Destination(w), e>>)}
    IN  {e \in refs : Cardinality({x \in refs : x < e}) < BatchSize}

Scan(w) ==
    /\ pc[w] = "scan"
    /\ \/ /\ Goto(w, IF PendingEvents(w) = {} THEN "count" ELSE "visit")
          /\ batch' = [batch EXCEPT ![w] = PendingEvents(w)]
          /\ full' = [full EXCEPT ![w] =
                        Cardinality(PendingEvents(w)) = BatchSize]
          /\ claimedAny' = [claimedAny EXCEPT ![w] = FALSE]
       \/ Goto(w, "stopped") /\ UNCHANGED <<batch, full, claimedAny>>
    /\ UNCHANGED <<committed, delivery, todo, after, tally, accepted, disturbed>>

\* ClaimEvent: a lease of this worker's own, nothing to claim, or an error
\* that ends a sweep and skips the destination of an immediate attempt.
ClaimEvent(w) ==
    LET k == Current(w)
        claimed == [delivery EXCEPT ![k].lease = w, ![k].live = TRUE]
    IN  /\ pc[w] = "visit"
        /\ \/ /\ Claimable(k, Sweeps(w))
              /\ delivery' = claimed
              /\ Goto(w, "publishing")
              /\ UNCHANGED <<todo, batch, full, after, claimedAny>>
           \/ /\ ~ Claimable(k, Sweeps(w))
              /\ UNCHANGED delivery
              /\ Advance(w, FALSE)
           \/ /\ \/ UNCHANGED delivery
                 \/ Claimable(k, Sweeps(w)) /\ delivery' = claimed
              /\ Goto(w, IF Sweeps(w) THEN "stopped" ELSE "count")
              /\ UNCHANGED <<todo, batch, full, after, claimedAny>>
        /\ UNCHANGED <<committed, tally, accepted, disturbed>>

\* Mutant of Publish: the error of a recovered panic is lost.
PublishErrorLost(w) ==
    LET k == Current(w)
    IN  /\ pc[w] = "publishing"
        /\ Goto(w, "published")
        /\ \/ accepted' = [accepted EXCEPT ![k] = Counted(@, 2)]
           \/ UNCHANGED accepted
        /\ UNCHANGED <<committed, delivery, todo, batch, full, after, claimedAny,
                       tally, disturbed>>

\* LoadEvent and safelyPublish: accepted, or an error, a panic or a timeout,
\* which the destination may have accepted all the same.
Publish(w) ==
    LET k == Current(w)
    IN  /\ pc[w] = "publishing"
        /\ \/ /\ Goto(w, "published")
              /\ accepted' = [accepted EXCEPT ![k] = Counted(@, 2)]
              /\ UNCHANGED disturbed
           \/ /\ Goto(w, "failed")
              /\ UNCHANGED <<accepted, disturbed>>
           \/ /\ Goto(w, "failed")
              /\ accepted' = [accepted EXCEPT ![k] = Counted(@, 2)]
              /\ disturbed' = disturbed \cup {k}
        /\ UNCHANGED <<committed, delivery, todo, batch, full, after, claimedAny,
                       tally>>

\* Mutant of Holds: the nonce of the lease is not compared.
HoldsAnyLease(w, k) == delivery[k].by = Nobody

\* Mutant of Holds: nothing is compared.
HoldsAlways(w, k) == TRUE

\* The rows MarkEventDelivered and MarkEventFailed update.
Holds(w, k) == delivery[k].lease = w /\ delivery[k].by = Nobody

Delivered(w) == tally' = [tally EXCEPT ![w].delivered = Counted(@, TallyBound)]
Failed(w) == tally' = [tally EXCEPT ![w].failed = Counted(@, TallyBound)]

\* One row is updated, none because the lease was lost, or the statement
\* fails: only in the first case does the worker count a delivery.
MarkEventDelivered(w) ==
    LET k == Current(w)
        delivered ==
            /\ Holds(w, k)
            /\ delivery' = [delivery EXCEPT ![k].by = w, ![k].lease = Nobody,
                                            ![k].live = FALSE]
    IN  /\ pc[w] = "published"
        /\ \/ delivered /\ Delivered(w)
           \/ delivered /\ Failed(w)
           \/ UNCHANGED delivery /\ Failed(w)
        /\ Advance(w, TRUE)
        /\ UNCHANGED <<committed, accepted, disturbed>>

MarkEventFailed(w) ==
    LET k == Current(w)
    IN  /\ pc[w] = "failed"
        /\ \/ /\ Holds(w, k)
              /\ delivery' = [delivery EXCEPT ![k].lease = Nobody,
                                              ![k].live = FALSE, ![k].due = FALSE]
           \/ UNCHANGED delivery
        /\ Failed(w)
        /\ Advance(w, TRUE)
        /\ UNCHANGED <<committed, accepted, disturbed>>

\* CountPendingEvents only adds to the summary; an error ends the sweep.
FinishDestination(w) ==
    /\ pc[w] = "count"
    /\ \/ /\ Goto(w, "next")
          /\ todo' = [todo EXCEPT ![w] = @ \ {Destination(w)}]
          /\ batch' = [batch EXCEPT ![w] = {}]
       \/ /\ Sweeps(w)
          /\ Goto(w, "stopped")
          /\ UNCHANGED <<todo, batch>>
    /\ UNCHANGED <<committed, delivery, full, after, claimedAny, tally,
                   accepted, disturbed>>

Work(w) ==
    \/ NextDestination(w) \/ Scan(w) \/ ClaimEvent(w) \/ Publish(w)
    \/ MarkEventDelivered(w) \/ MarkEventFailed(w) \/ FinishDestination(w)

Crash(w) ==
    /\ pc[w] \notin {"idle", "returned", "stopped"}
    /\ Goto(w, "stopped")
    /\ UNCHANGED <<committed, delivery, todo, batch, full, after, claimedAny,
                   tally, accepted, disturbed>>

-----------------------------------------------------------------------------
(* The environment: mutations and time.                                     *)

CommitEvent(e) ==
    /\ e \notin committed
    /\ committed' = committed \cup {e}
    /\ UNCHANGED <<delivery, work, accepted, disturbed>>

LapseLease(k) ==
    /\ Leased(delivery[k])
    /\ delivery' = [delivery EXCEPT ![k].live = FALSE]
    /\ disturbed' = disturbed \cup {k}
    /\ UNCHANGED <<committed, work, accepted>>

ComeDue(k) ==
    /\ ~ delivery[k].due
    /\ delivery' = [delivery EXCEPT ![k].due = TRUE]
    /\ UNCHANGED <<committed, work, accepted, disturbed>>

Step ==
    \/ \E w \in Workers : Start(w) \/ Work(w) \/ Crash(w)
    \/ \E e \in Events : CommitEvent(e)
    \/ \E k \in Keys : LapseLease(k) \/ ComeDue(k)

\* History: the references of its destinations that are pending when a sweep
\* starts, until somebody leases or delivers them.
Watch ==
    owed' = [w \in Workers |->
               {k \in (IF pc[w] = "idle" /\ pc'[w] = "next" /\ Sweeps(w)
                       THEN w.destinations \X committed ELSE owed[w]) :
                  delivery'[k].by = Nobody /\ ~ Leased(delivery'[k])}]

Next == Step /\ Watch

Spec == Init /\ [][Next]_vars

\* A server that does not stop goes on with the loop it is in: loading and
\* publishing are bounded by a timeout, and PostgreSQL is assumed to answer the
\* scan, the claim and the marks, which have none.
FairSpec == Spec /\ \A w \in Workers : WF_vars(Work(w) /\ Watch)

-----------------------------------------------------------------------------
(* Properties.                                                              *)

\* A row says delivered only if the destination accepted the event: the
\* acknowledgement is never recorded for a failed, timed out or crashed
\* attempt.
DeliveredWasAccepted ==
    \A k \in Keys : delivery[k].by # Nobody => accepted[k] > 0

\* delivered_at is final: no late worker, whose lease lapsed or who failed,
\* reopens, delays or claims a delivered event.
DeliveredRowsAreFinal ==
    [][\A k \in Keys :
          delivery[k].by # Nobody =>
              /\ delivery'[k].by = delivery[k].by
              /\ delivery'[k].lease = Nobody
              /\ delivery[k].due => delivery'[k].due]_vars

\* A live lease ends only when it lapses or when its holder records an outcome:
\* a worker that lost its lease and reports late never frees, delays or ends
\* the delivery of the worker that took over (lease_nonce is compared).
LiveLeasesAreRespected ==
    [][\A k \in Keys, x \in Workers :
          /\ Leased(delivery[k]) /\ delivery[k].lease = x
          /\ delivery'[k].lease # x
          => pc[x] \in {"published", "failed"} /\ pc'[x] # pc[x]]_vars

\* A destination is sent an event twice only after a lease lapsed or an
\* accepted attempt was reported as failed: overlapping immediate attempts,
\* replays and sweeps alone never duplicate.
DuplicatesNeedAFault ==
    \A k \in Keys : accepted[k] > 1 => k \in disturbed

\* The Summary of a sweep counts as delivered only rows that this sweep
\* recorded as delivered, also when it lost its lease to another worker.
SummaryCountsOwnDeliveries ==
    \A w \in Workers :
        tally[w].delivered <= Cardinality({k \in Keys : delivery[k].by = w})

\* A sweep sends each event at most once, although a failed one is pending
\* again at once and a sweep does not wait for the event to come due.
SweepAttemptsOnce ==
    \A w \in Workers :
        tally[w].delivered + tally[w].failed
            <= Cardinality(w.destinations \X committed)

\* Immediate attempts and sweeps end, whatever fails: the loop of
\* PublishPending moves past every reference it visits.
WorkersEnd ==
    \A w \in Workers : pc[w] # "idle" ~> pc[w] \in {"returned", "stopped"}

\* A sweep that returns without an error has attempted every event that was
\* pending when it began and that nobody else leased or delivered meanwhile.
SweepAttemptsEverythingVisible ==
    \A w \in Workers : Sweeps(w) /\ pc[w] = "returned" => owed[w] = {}

=============================================================================

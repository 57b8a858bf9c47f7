---------------------------- MODULE ServerProcess ----------------------------
(***************************************************************************)
(* One server process: its start, the calls it serves over gRPC and REST   *)
(* with one pool of PostgreSQL connections, and its shutdown.              *)
(*                                                                         *)
(* A call is a goroutine that runs the steps of its operation.  A step is  *)
(* one visit to the pool: a statement or short transaction that gives the  *)
(* connection back before anything else happens, or one of the two that    *)
(* hold it for longer, a mutation and the stream of active offers, which   *)
(* waits for its client with the transaction open.  What a mutation, an    *)
(* admission, a rate lookup or a publication does inside its step is in    *)
(* MutationStore, RateLimit, RateService and EventDelivery; here a step    *)
(* succeeds or fails, and the questions are who waits for whom, what the   *)
(* client and the telemetry are told, and what shutdown cuts short.        *)
(***************************************************************************)
EXTENDS Assertions, FiniteSets

CONSTANTS
    Calls,          \* client calls
    Mixes,          \* for each behaviour, what each call is
    PoolSize,       \* MaxPoolConnections
    Offers,         \* sale offers that may be active in a run
    InitialOffers,  \* the ones active at first
    SellerOf, BondOf,
    Presented,      \* the assertions the clients may present
    Times,          \* what the server's clock may say
    MaxMoments      \* bound: changes of the market and of permissions

VARIABLES
    phase,   \* how far run() has come
    open,    \* what it has opened and not yet closed
    late,    \* has ShutdownTimeout passed?
    kind,    \* what each call is
    call,    \* how far each call has come
    held,    \* the calls that hold a connection
    moments  \* history: the active offers and the granted operations so far

vars == <<phase, open, late, kind, call, held, moments>>

Operations == {"create", "quote", "list", "series", "health", "sweep"}
Transports == {"REST", "gRPC"}

ASSUME ServerAssumption ==
    /\ PoolSize \in Nat \ {0}
    /\ MaxMoments \in Nat \ {0}
    /\ InitialOffers \subseteq Offers
    /\ Mixes \subseteq [Calls -> [transport : Transports, op : Operations, caller : STRING,
                                  bond : STRING, keys : Seq(STRING)]]

\* Buy runs the steps of CreateSaleOffer.
Mutations == {"create", "quote", "sweep"}

\* The visits of an operation to the pool, in order.  A mutation may go to
\* "replay" instead of on, and a quote that is found ends at its "lookup".
Steps(op) ==
    <<"resolve", "admit">> \o
    CASE op = "create" -> <<"mutate", "publish">>
      [] op = "quote"  -> <<"lookup", "rates", "mutate", "readback">>
      [] op = "list"   -> <<"stream">>
      [] op = "series" -> <<"series">>
      [] op = "health" -> <<"authorize", "ping">>
      [] op = "sweep"  -> <<"authorize", "sweep">>

StepNames ==
    {"resolve", "admit", "mutate", "publish", "lookup", "rates", "readback", "stream",
     "series", "authorize", "ping", "sweep", "replay"}

\* The steps whose transaction starts with the query of authorize.
Authorizing == {"lookup", "mutate", "stream", "series", "authorize"}
Places == {"idle", "visit", "mutating", "streaming", "completing", "answering",
           "returning", "ended", "cut"}
Outcomes == {"succeeded", "rejected", "failed"}

TypeOK ==
    /\ phase \in {"starting", "serving", "drainREST", "drainGRPC", "closing",
                  "flushing", "exited"}
    /\ open \subseteq {"telemetry", "pool", "REST", "gRPC"}
    /\ late \in BOOLEAN
    /\ kind \in Mixes
    /\ call \in [Calls -> [pc : Places, visits : Seq(StepNames), answer : {"none"} \cup Outcomes,
                           log : Seq(Outcomes), rows : SUBSET Offers, sent : SUBSET Offers,
                           since : 0..MaxMoments, complete : BOOLEAN, cancelled : BOOLEAN]]
    /\ held \subseteq Calls
    /\ Cardinality(held) <= PoolSize
    /\ Len(moments) \in 1..MaxMoments

Idle == [pc |-> "idle", visits |-> <<>>, answer |-> "none", log |-> <<>>, rows |-> {},
         sent |-> {}, since |-> 0, complete |-> FALSE, cancelled |-> FALSE]

Init ==
    /\ phase = "starting"
    /\ open = {}
    /\ late = FALSE
    /\ kind \in Mixes
    /\ call = [c \in Calls |-> Idle]
    /\ held = {}
    /\ moments = <<[offers |-> InitialOffers, permitted |-> TRUE]>>

Now == moments[Len(moments)]
Active(c) == call[c].pc \notin {"idle", "ended", "cut"}
ActiveOver(transport) == {c \in Calls : Active(c) /\ kind[c].transport = transport}
Becomes(c, rec) == call' = [call EXCEPT ![c] = rec]
Process == <<phase, open, late, kind, moments>>

-----------------------------------------------------------------------------
(* run: telemetry, pool, ping, listeners; then the deferred calls.          *)

\* What is opened next, in the order of run and Listen.
NextToOpen ==
    CASE open = {} -> "telemetry"
      [] open = {"telemetry"} -> "pool"
      [] open = {"telemetry", "pool"} -> "REST"
      [] OTHER -> "gRPC"

Start ==
    /\ phase = "starting"
    /\ open' = open \cup {NextToOpen}
    /\ phase' = IF NextToOpen = "gRPC" THEN "serving" ELSE "starting"
    /\ UNCHANGED <<late, kind, call, held, moments>>

\* Something cannot be opened, or the pool cannot be pinged: Listen releases
\* what it bound and the deferred calls close the rest.
StartFails ==
    /\ phase = "starting"
    /\ phase' = "closing"
    /\ open' = open \ {"REST"}
    /\ UNCHANGED <<late, kind, call, held, moments>>

\* A signal arrives or one of the two Serve calls returns: http.Server.Shutdown
\* closes the REST listener and waits.
Shutdown ==
    /\ phase = "serving"
    /\ phase' = "drainREST"
    /\ open' = open \ {"REST"}
    /\ UNCHANGED <<late, kind, call, held, moments>>

\* ShutdownTimeout passes while some call is still running.
DeadlinePasses ==
    /\ phase \in {"drainREST", "drainGRPC"}
    /\ ~late
    /\ \E c \in Calls : Active(c)
    /\ late' = TRUE
    /\ UNCHANGED <<phase, open, kind, call, held, moments>>

\* Shutdown returned, every REST call having ended or the deadline having
\* passed; GracefulStop closes the gRPC listener and waits.
RESTDrained ==
    /\ phase = "drainREST"
    /\ ActiveOver("REST") = {} \/ late
    /\ phase' = "drainGRPC"
    /\ open' = open \ {"gRPC"}
    /\ UNCHANGED <<late, kind, call, held, moments>>

\* Mutant of Stop: the drain is not waited for.
StopAtOnce ==
    /\ phase = "drainGRPC"
    /\ \E c \in ActiveOver("gRPC") : ~call[c].cancelled
    /\ call' = [c \in Calls |-> [call[c] EXCEPT
                   !.cancelled = @ \/ c \in ActiveOver("gRPC")]]
    /\ UNCHANGED <<phase, open, late, kind, held, moments>>

\* The deadline comes before GracefulStop is done: the contexts of the gRPC
\* calls are cancelled.
Stop ==
    /\ phase = "drainGRPC"
    /\ late
    /\ \E c \in ActiveOver("gRPC") : ~call[c].cancelled
    /\ call' = [c \in Calls |-> [call[c] EXCEPT
                   !.cancelled = @ \/ c \in ActiveOver("gRPC")]]
    /\ UNCHANGED <<phase, open, late, kind, held, moments>>

\* GracefulStop returns once every gRPC handler has; ShutdownServers waits for
\* it after Stop too.  pool.Close refuses new connections from here on.
GRPCStopped ==
    /\ phase = "drainGRPC"
    /\ ActiveOver("gRPC") = {}
    /\ phase' = "closing"
    /\ UNCHANGED <<open, late, kind, call, held, moments>>

\* pool.Close waits for every connection to come back.
PoolClosed ==
    /\ phase = "closing"
    /\ held = {}
    /\ phase' = "flushing"
    /\ open' = open \ {"pool"}
    /\ UNCHANGED <<late, kind, call, held, moments>>

\* Telemetry is flushed, run returns and the process is gone, with the REST
\* calls that Shutdown gave up on.
Exit ==
    /\ phase = "flushing"
    /\ phase' = "exited"
    /\ open' = open \ {"telemetry"}
    /\ call' = [c \in Calls |-> IF Active(c) THEN [call[c] EXCEPT !.pc = "cut"] ELSE call[c]]
    /\ UNCHANGED <<late, kind, held, moments>>

ShutdownStep == RESTDrained \/ Stop \/ GRPCStopped \/ PoolClosed \/ Exit

-----------------------------------------------------------------------------
(* A call: from the door to the pool.                                       *)

\* REST refuses new calls once Shutdown has begun, gRPC once GracefulStop has.
Listening(transport) == phase \in {"serving", "drainREST"} /\ transport \in open

Nonce(c) == IF kind[c].op \in Mutations THEN kind[c].keys[1] ELSE NoNonce

\* The part of authenticate that needs no connection.
Authenticated(c, a, now) ==
    /\ KeyAllowed(kind[c].op \in Mutations, kind[c].keys, {"k1"})
    /\ Accepts(a, kind[c].op, c, Nonce(c), now)

\* A REST call is answered before its operation begins.
Refused(c) ==
    /\ call[c].pc = "idle"
    /\ kind[c].transport = "REST"
    /\ Listening("REST")
    /\ Becomes(c, [Idle EXCEPT !.pc = "ended", !.answer = "rejected"])
    /\ UNCHANGED <<Process, held>>

\* requireSingleJSONDocument: the body of a mutation is of another media type,
\* too long, not one JSON object, or has a key twice.
RefuseBody(c) == kind[c].op \in Mutations /\ Refused(c)

\* serveActiveOffersStream: another method, a body, or not one bond.
RefuseQuery(c) == kind[c].op = "list" /\ Refused(c)

\* The handler begins its operation and checks the assertion.
Begin(c) ==
    /\ call[c].pc = "idle"
    /\ Listening(kind[c].transport)
    /\ \E a \in Presented, now \in Times :
          LET begun == [Idle EXCEPT !.since = Len(moments)]
          IN  Becomes(c, IF Authenticated(c, a, now)
                         THEN [begun EXCEPT !.pc = "visit", !.visits = Steps(kind[c].op)]
                         ELSE [begun EXCEPT !.pc = "answering", !.answer = "rejected"])
    /\ UNCHANGED <<Process, held>>

\* Mutant of Available: the pool grows past its ceiling.
AvailableBeyond == phase \in {"serving", "drainREST", "drainGRPC"} /\ Cardinality(held) <= PoolSize

\* A connection can be had: pool.Close has not begun and one is free.
Available == phase \in {"serving", "drainREST", "drainGRPC"} /\ Cardinality(held) < PoolSize

\* The call's next visit is to one of steps.
Visits(c, steps) == call[c].pc = "visit" /\ Head(call[c].visits) \in steps
Allowed(c) == Head(call[c].visits) \in Authorizing => Now.permitted

Answered(c, answer) ==
    [call[c] EXCEPT !.pc = "answering", !.answer = answer, !.visits = <<>>, !.rows = {}]

\* On to the next visit, or to the answer.
Advanced(c) ==
    IF Len(call[c].visits) = 1 THEN Answered(c, "succeeded")
    ELSE [call[c] EXCEPT !.pc = "visit", !.visits = Tail(@)]

\* A step that keeps its connection no longer than it takes.  A quote that is
\* found again answers at once; the others go on.
Statement(c) ==
    /\ Visits(c, {"resolve", "admit", "lookup", "rates", "publish", "readback", "replay",
                  "series", "authorize", "ping", "sweep"})
    /\ Available
    /\ \/ ~Allowed(c) /\ Becomes(c, Answered(c, "rejected"))
       \/ Allowed(c) /\ Becomes(c, Advanced(c))
       \/ Allowed(c) /\ Visits(c, {"lookup"}) /\ Becomes(c, Answered(c, "succeeded"))
    /\ UNCHANGED <<Process, held>>

\* The last attempt of a mutation: begin and authorize, in one transaction.
OpenMutation(c) ==
    /\ Visits(c, {"mutate"})
    /\ Available
    /\ \/ ~Allowed(c) /\ Becomes(c, Answered(c, "rejected")) /\ UNCHANGED held
       \/ /\ Allowed(c)
          /\ Becomes(c, [call[c] EXCEPT !.pc = "mutating"])
          /\ held' = held \cup {c}
    /\ UNCHANGED Process

\* A committed transaction gives its connection back, whether it recorded a
\* success or a rejection.
CommitMutation(c) ==
    /\ call[c].pc = "mutating"
    /\ Becomes(c, Advanced(c)) \/ Becomes(c, Answered(c, "rejected"))
    /\ held' = held \ {c}
    /\ UNCHANGED Process

\* Mutant of ReplayMutation: the transaction stays open during the replay.
ReplayInTransaction(c) ==
    /\ call[c].pc = "mutating"
    /\ Becomes(c, [call[c] EXCEPT !.pc = "visit", !.visits = <<"replay">> \o Tail(@)])
    /\ UNCHANGED <<Process, held>>

\* The nonce is claimed already: roll back, then replay on a new connection.
ReplayMutation(c) ==
    /\ call[c].pc = "mutating"
    /\ Becomes(c, [call[c] EXCEPT !.pc = "visit", !.visits = <<"replay">> \o Tail(@)])
    /\ held' = held \ {c}
    /\ UNCHANGED Process

-----------------------------------------------------------------------------
(* The stream of active offers.                                             *)

\* activeOffersQuery: unsold offers of the bond, without the caller's own.
Visible(offers, c) ==
    {o \in offers : BondOf[o] = kind[c].bond /\ SellerOf[o] # kind[c].caller}

\* One repeatable-read transaction: authorize fixes the snapshot the query
\* runs in.
OpenStream(c) ==
    /\ Visits(c, {"stream"})
    /\ Available
    /\ \/ ~Allowed(c) /\ Becomes(c, Answered(c, "rejected")) /\ UNCHANGED held
       \/ /\ Allowed(c)
          /\ Becomes(c, [call[c] EXCEPT !.pc = "streaming", !.visits = <<>>,
                                        !.rows = Visible(Now.offers, c)])
          /\ held' = held \cup {c}
    /\ UNCHANGED Process

\* Mutant of Remaining: the rows are read in pages, each in its own snapshot.
RemainingNow(c) == Visible(Now.offers, c) \ call[c].sent

Remaining(c) == call[c].rows \ call[c].sent

\* One record reaches the client, which may take its time.
SendOffer(c) ==
    /\ call[c].pc = "streaming"
    /\ \E o \in Remaining(c) :
          Becomes(c, [call[c] EXCEPT !.sent = @ \cup {o}])
    /\ UNCHANGED <<Process, held>>

EndStream(c) ==
    /\ call[c].pc = "streaming"
    /\ Remaining(c) = {}
    /\ Becomes(c, [call[c] EXCEPT !.pc = "completing", !.rows = {}])
    /\ held' = held \ {c}
    /\ UNCHANGED Process

\* The terminal record, after the commit.
SendComplete(c) ==
    /\ call[c].pc = "completing"
    /\ Becomes(c, [Answered(c, "succeeded") EXCEPT !.complete = TRUE])
    /\ UNCHANGED <<Process, held>>

-----------------------------------------------------------------------------
(* How a call ends.                                                         *)

\* Mutant of CompleteOperation: completed is not compared and swapped.
CompleteOperationAgain(log, outcome) == Append(log, outcome)

\* Only the first completion of an operation is recorded.
CompleteOperation(log, outcome) == IF log = <<>> THEN <<outcome>> ELSE log

\* logSecurityOperation.
Record(c) ==
    /\ call[c].pc = "answering"
    /\ Becomes(c, [call[c] EXCEPT !.pc = "returning",
                                  !.log = CompleteOperation(@, call[c].answer)])
    /\ UNCHANGED <<Process, held>>

\* What is left of a call: what its client and the telemetry were told.
Ended(answer, log) ==
    [Idle EXCEPT !.pc = "ended", !.since = 1, !.answer = answer, !.log = log]

Return(c) ==
    /\ call[c].pc = "returning"
    /\ Becomes(c, Ended(call[c].answer, call[c].log))
    /\ UNCHANGED <<Process, held>>

\* A storage error, a client that is gone or too slow for the write deadline,
\* a closed pool or a cancelled context.  The deferred Rollback gives the
\* connection back; a failed publication is not the caller's concern.
Fail(c) ==
    /\ call[c].pc \in {"visit", "mutating", "streaming", "completing"}
    /\ Becomes(c, Answered(c, IF Visits(c, {"publish"}) THEN "succeeded" ELSE "rejected"))
    /\ held' = held \ {c}
    /\ UNCHANGED Process

\* The handler panics: deferred calls roll back and complete the operation, and
\* recoverPanics, recoverUnaryPanic or recoverStreamPanic answers.
Panic(c) ==
    /\ Active(c)
    /\ Becomes(c, Ended("failed", CompleteOperation(call[c].log, "failed")))
    /\ held' = held \ {c}
    /\ UNCHANGED Process

-----------------------------------------------------------------------------
(* The market and the administrator, as far as a call can notice.           *)

Moment(offers, permitted) ==
    /\ Len(moments) < MaxMoments
    /\ moments' = Append(moments, [offers |-> offers, permitted |-> permitted])
    /\ UNCHANGED <<phase, open, late, kind, call, held>>

Listed(o) == \E i \in DOMAIN moments : o \in moments[i].offers

\* An offer that a stream shows or may show is bought or created.
MarketMoves ==
    \E c \in Calls :
        /\ kind[c].op = "list" /\ call[c].pc \in {"visit", "streaming"}
        /\ \E o \in Visible(Offers, c) :
              \/ o \in Now.offers /\ Moment(Now.offers \ {o}, Now.permitted)
              \/ ~Listed(o) /\ Moment(Now.offers \cup {o}, Now.permitted)

PermissionRevoked ==
    /\ Now.permitted
    /\ \E c \in Calls : \E i \in DOMAIN call[c].visits : call[c].visits[i] \in Authorizing
    /\ Moment(Now.offers, FALSE)

-----------------------------------------------------------------------------

Work(c) ==
    \/ Statement(c) \/ OpenMutation(c) \/ CommitMutation(c) \/ ReplayMutation(c)
    \/ OpenStream(c) \/ EndStream(c) \/ Record(c) \/ Return(c)

Send(c) == SendOffer(c) \/ SendComplete(c)

\* A call whose context is cancelled, or that finds the pool closed.
Doomed(c) == call[c].cancelled \/ phase \in {"closing", "flushing"}

Next ==
    \/ Start \/ StartFails \/ Shutdown \/ DeadlinePasses \/ ShutdownStep
    \/ \E c \in Calls : RefuseBody(c) \/ RefuseQuery(c) \/ Begin(c) \/ Work(c) \/ Send(c) \/ Fail(c) \/ Panic(c)
    \/ MarketMoves \/ PermissionRevoked

Spec == Init /\ [][Next]_vars

\* A unary REST answer has no write deadline: one that is too long for the
\* buffers, which only the list of series can be, waits for its client to read.
Unread(c) ==
    kind[c].transport = "REST" /\ kind[c].op = "series" /\ call[c].pc = "returning"

\* PostgreSQL answers, the write of a REST record succeeds or meets its deadline,
\* a cancelled call notices, and time passes.  Nothing obliges the client of a
\* gRPC stream or of a long unary REST answer to read, nobody has to call, and
\* nobody has to stop the server.
FairSpec ==
    /\ Spec
    /\ WF_vars(Start \/ StartFails)
    /\ WF_vars(ShutdownStep)
    /\ WF_vars(DeadlinePasses)
    /\ \A c \in Calls :
          WF_vars(\/ Work(c) /\ ~Unread(c)
                  \/ kind[c].transport = "REST" /\ Send(c)
                  \/ Doomed(c) /\ Fail(c))

-----------------------------------------------------------------------------
(* Properties.                                                              *)

\* A stream that says Complete showed the whole list of active offers as it was
\* at one moment of the call, and the caller was permitted to see it then,
\* however long the client took and whatever was bought, listed or revoked
\* meanwhile (StreamActiveOffers holds one repeatable-read snapshot).
ListsShowOneMoment ==
    \A c \in Calls : call[c].complete =>
        \E i \in call[c].since..Len(moments) :
            moments[i].permitted /\ call[c].sent = Visible(moments[i].offers, c)

\* Every operation that began and ended is counted exactly once by telemetry,
\* also when it panics after its outcome was recorded, and what is counted is
\* what the client was told (CompleteOperation, CompleteOperationOnPanic).
OutcomesRecordedOnce ==
    \A c \in Calls :
        /\ Len(call[c].log) <= 1
        /\ call[c].pc = "ended" /\ call[c].since > 0 =>
              /\ Len(call[c].log) = 1
              /\ call[c].answer # "failed" => call[c].log = <<call[c].answer>>

\* Shutdown disturbs no call before its deadline, never cuts one that has a
\* transaction open (pool.Close waits for it), cuts only REST calls (Stop makes
\* gRPC calls end by themselves), and an exited process, also one that failed to
\* start, keeps nothing open.
ShutdownIsOrderly ==
    /\ \A c \in Calls : call[c].cancelled \/ call[c].pc = "cut" => late
    /\ \A c \in Calls : call[c].pc = "cut" => kind[c].transport = "REST"
    /\ phase \in {"flushing", "exited"} => held = {}
    /\ phase = "exited" => open = {}

\* A gRPC stream waits for a client that does not read.
SomeClientStalls ==
    \E c \in Calls : kind[c].transport = "gRPC" /\ call[c].pc \in {"streaming", "completing"}

\* Calls do not wait for each other for ever, even with a single connection:
\* every call ends unless the client of some gRPC stream stops reading for good,
\* or its own client leaves a long unary REST answer unread (FRICTIONS F-006 and
\* F-027), which holds no connection and so keeps nobody else.  A server told to
\* stop exits even then.
NothingHangs ==
    /\ \A c \in Calls :
          <>[]SomeClientStalls \/ <>[]Unread(c) \/ [](Active(c) => <>~Active(c))
    /\ (phase = "drainREST") ~> (phase = "exited")

==============================================================================

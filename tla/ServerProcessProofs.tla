------------------------ MODULE ServerProcessProofs ------------------------
(***************************************************************************)
(* Theorems about ServerProcess, for every number of calls, size of the    *)
(* pool, set of offers and mix of operations.                              *)
(***************************************************************************)
EXTENDS ServerProcess, FiniteSetTheorems, TLAPS

CallRecords ==
    [pc : Places, visits : Seq(StepNames), answer : {"none"} \cup Outcomes,
     log : Seq(Outcomes), rows : SUBSET Offers, sent : SUBSET Offers,
     since : 0..MaxMoments, complete : BOOLEAN, cancelled : BOOLEAN]

Moments == [offers : SUBSET Offers, permitted : BOOLEAN]

\* What run() has open follows from how far it has come, and a call that is
\* still active when nobody waits for it any more has outlived the deadline.
ProcessOK ==
    /\ phase = "starting" =>
         /\ open \in {{}, {"telemetry"}, {"telemetry", "pool"}, {"telemetry", "pool", "REST"}}
         /\ \A c \in Calls : call[c].pc = "idle"
    /\ phase \notin {"starting", "serving"} => "REST" \notin open
    /\ phase \in {"drainGRPC", "closing"} => open \subseteq {"telemetry", "pool"}
    /\ phase = "flushing" => open \subseteq {"telemetry"}
    /\ phase \in {"drainGRPC", "closing", "flushing"} => ActiveOver("REST") = {} \/ late
    /\ phase \in {"closing", "flushing"} => ActiveOver("gRPC") = {}
    /\ IsFiniteSet(held)

\* v stands for the record of call c.
VisitsOK(v) ==
    /\ v.pc \in {"visit", "mutating"} => v.visits # <<>>
    /\ v.pc \in {"answering", "returning"} => v.answer \in Outcomes

\* Nothing is recorded before the handler answers, and then what it answers.
LogOK(v) ==
    /\ v.pc \notin {"returning", "ended", "cut"} => v.log = <<>>
    /\ v.pc = "returning" => v.log = <<v.answer>>
    /\ Len(v.log) <= 1
    /\ v.pc = "ended" /\ v.since > 0 =>
         /\ Len(v.log) = 1
         /\ v.answer # "failed" => v.log = <<v.answer>>

\* Set offers is what c may see at a moment of the call at which it is permitted.
OfOneMoment(offers, v, c) ==
    \E i \in v.since..Len(moments) :
        moments[i].permitted /\ offers = Visible(moments[i].offers, c)

\* A stream holds the list of one moment until its end, and nothing was sent
\* before it.
ListOK(v, c) ==
    /\ v.pc \notin {"idle", "ended"} => v.since \in 1..Len(moments)
    /\ v.pc \in {"idle", "visit", "mutating", "ended"} => v.sent = {}
    /\ v.complete => v.pc \in {"answering", "returning", "cut"}
    /\ v.pc = "streaming" => v.sent \subseteq v.rows /\ OfOneMoment(v.rows, v, c)
    /\ v.pc = "completing" \/ v.complete => OfOneMoment(v.sent, v, c)

CallOK(v, c) == VisitsOK(v) /\ LogOK(v) /\ ListOK(v, c)

ServerInvariant ==
    /\ TypeOK
    /\ moments \in Seq(Moments)
    /\ ProcessOK
    /\ ShutdownIsOrderly
    /\ \A c \in Calls : CallOK(call[c], c)

-----------------------------------------------------------------------------
(* The records a call goes through.                                         *)

LEMMA KindType ==
    ASSUME ServerInvariant, NEW c \in Calls
    PROVE  kind[c].transport \in Transports /\ kind[c].op \in Operations
  <1>1. kind \in [Calls -> [transport : Transports, op : Operations, caller : STRING,
                            bond : STRING, keys : Seq(STRING)]]
    BY ServerAssumption DEF ServerInvariant, TypeOK
  <1> QED BY <1>1

LEMMA CallType ==
    ASSUME ServerInvariant
    PROVE  call \in [Calls -> CallRecords] /\ \A c \in Calls : call[c] \in CallRecords
  BY DEF ServerInvariant, TypeOK, CallRecords

LEMMA IdleType == Idle \in CallRecords
  <1>1. <<>> \in Seq(StepNames) /\ <<>> \in Seq(Outcomes)
    OBVIOUS
  <1>2. 0 \in 0..MaxMoments
    BY ServerAssumption
  <1> QED BY <1>1, <1>2 DEF Idle, CallRecords, Places

\* The visits of an operation, at least one.
LEMMA StepsType ==
    ASSUME NEW op \in Operations
    PROVE  Steps(op) \in Seq(StepNames) /\ Steps(op) # <<>>
  <1>0. PICK rest : rest =
        CASE op = "create" -> <<"mutate", "publish">>
          [] op = "quote"  -> <<"lookup", "rates", "mutate", "readback">>
          [] op = "list"   -> <<"stream">>
          [] op = "series" -> <<"series">>
          [] op = "health" -> <<"authorize", "ping">>
          [] op = "sweep"  -> <<"authorize", "sweep">>
    OBVIOUS
  <1>1. rest \in Seq(StepNames)
    <2>1. CASE op = "create"
      <3>1. rest = <<"mutate", "publish">>
        BY <1>0, <2>1
      <3> QED BY <3>1 DEF StepNames
    <2>2. CASE op = "quote"
      <3>1. rest = <<"lookup", "rates", "mutate", "readback">>
        BY <1>0, <2>2
      <3> QED BY <3>1 DEF StepNames
    <2>3. CASE op = "list"
      <3>1. rest = <<"stream">>
        BY <1>0, <2>3
      <3> QED BY <3>1 DEF StepNames
    <2>4. CASE op = "series"
      <3>1. rest = <<"series">>
        BY <1>0, <2>4
      <3> QED BY <3>1 DEF StepNames
    <2>5. CASE op = "health"
      <3>1. rest = <<"authorize", "ping">>
        BY <1>0, <2>5
      <3> QED BY <3>1 DEF StepNames
    <2>6. CASE op = "sweep"
      <3>1. rest = <<"authorize", "sweep">>
        BY <1>0, <2>6
      <3> QED BY <3>1 DEF StepNames
    <2> QED BY <2>1, <2>2, <2>3, <2>4, <2>5, <2>6 DEF Operations
  <1>2. <<"resolve", "admit">> \in Seq(StepNames) /\ Len(<<"resolve", "admit">>) = 2
    BY DEF StepNames
  <1>3. Steps(op) = <<"resolve", "admit">> \o rest
    BY <1>0 DEF Steps
  <1>4. Len(Steps(op)) = 2 + Len(rest) /\ Steps(op) \in Seq(StepNames)
    BY <1>1, <1>2, <1>3
  <1>5. Len(rest) \in Nat
    BY <1>1
  <1> QED BY <1>4, <1>5

LEMMA AnsweredType ==
    ASSUME ServerInvariant, NEW c \in Calls, NEW a \in Outcomes,
           NEW v, v = Answered(c, a)
    PROVE  /\ v \in CallRecords
           /\ v.pc = "answering" /\ v.answer = a /\ v.log = call[c].log
           /\ v.sent = call[c].sent /\ v.since = call[c].since
           /\ v.complete = call[c].complete /\ v.cancelled = call[c].cancelled
  <1>1. call[c] \in CallRecords
    BY CallType
  <1>2. <<>> \in Seq(StepNames)
    OBVIOUS
  <1> QED BY <1>1, <1>2 DEF Answered, CallRecords, Places

LEMMA TailType ==
    ASSUME NEW s \in Seq(StepNames), s # <<>>
    PROVE  /\ Tail(s) \in Seq(StepNames) /\ Len(s) \in Nat \ {0}
           /\ Len(s) # 1 => Tail(s) # <<>>
           /\ <<"replay">> \o Tail(s) \in Seq(StepNames) /\ <<"replay">> \o Tail(s) # <<>>
  <1>1. Len(s) \in Nat \ {0}
    OBVIOUS
  <1>2. Tail(s) \in Seq(StepNames) /\ Len(Tail(s)) = Len(s) - 1
    BY <1>1
  <1>3. <<"replay">> \in Seq(StepNames) /\ Len(<<"replay">>) = 1
    BY DEF StepNames
  <1>4. /\ <<"replay">> \o Tail(s) \in Seq(StepNames)
        /\ Len(<<"replay">> \o Tail(s)) = 1 + Len(Tail(s))
    BY <1>2, <1>3
  <1>5. /\ <<"replay">> \o Tail(s) # <<>>
        /\ Len(s) # 1 => Tail(s) # <<>>
    BY <1>1, <1>2, <1>4
  <1> QED BY <1>1, <1>2, <1>4, <1>5

-----------------------------------------------------------------------------
(* A step of one call keeps the invariant if the call's new record is in    *)
(* order and the connections are as the pool allows.                        *)

LEMMA HeldStep ==
    ASSUME ServerInvariant, NEW c \in Calls,
           \/ held' = held
           \/ held' = held \ {c}
           \/ held' = held \cup {c} /\ Available
    PROVE  /\ held' \subseteq Calls
           /\ IsFiniteSet(held')
           /\ Cardinality(held') <= PoolSize
           /\ phase \in {"flushing", "exited"} => held' = {}
  <1>1. /\ held \subseteq Calls /\ IsFiniteSet(held) /\ Cardinality(held) <= PoolSize
        /\ phase \in {"flushing", "exited"} => held = {}
    BY DEF ServerInvariant, TypeOK, ProcessOK, ShutdownIsOrderly
  <1>2. Cardinality(held) \in Nat /\ PoolSize \in Nat
    BY <1>1, FS_CardinalityType, ServerAssumption
  <1>3. CASE held' = held
    BY <1>1, <1>3
  <1>4. CASE held' = held \ {c}
    <2>1. /\ IsFiniteSet(held')
          /\ Cardinality(held') = IF c \in held THEN Cardinality(held) - 1 ELSE Cardinality(held)
      BY <1>1, <1>4, FS_RemoveElement
    <2> QED BY <1>1, <1>2, <1>4, <2>1
  <1>5. CASE held' = held \cup {c} /\ Available
    <2>1. /\ IsFiniteSet(held')
          /\ Cardinality(held') = IF c \in held THEN Cardinality(held) ELSE Cardinality(held) + 1
      BY <1>1, <1>5, FS_AddElement
    <2>2. Cardinality(held) < PoolSize /\ phase \notin {"flushing", "exited"}
      BY <1>5 DEF Available
    <2> QED BY <1>1, <1>2, <1>5, <2>1, <2>2
  <1> QED BY <1>3, <1>4, <1>5

LEMMA CallStep ==
    ASSUME ServerInvariant, NEW c \in Calls, NEW v \in CallRecords,
           Becomes(c, v), UNCHANGED Process, CallOK(v, c),
           v.pc \notin {"idle", "cut"},
           v.cancelled => call[c].cancelled,
           Active(c) \/ Listening(kind[c].transport),
           \/ held' = held
           \/ held' = held \ {c}
           \/ held' = held \cup {c} /\ Available
    PROVE  ServerInvariant'
  <1> USE DEF Becomes
  <1>1. /\ call \in [Calls -> CallRecords]
        /\ call' \in [Calls -> CallRecords]
        /\ call'[c] = v
        /\ \A d \in Calls \ {c} : call'[d] = call[d]
    BY CallType
  <1>2. phase' = phase /\ open' = open /\ late' = late /\ kind' = kind /\ moments' = moments
    BY DEF Process
  <1>3. /\ held' \subseteq Calls /\ IsFiniteSet(held') /\ Cardinality(held') <= PoolSize
        /\ phase \in {"flushing", "exited"} => held' = {}
    BY HeldStep
  <1>4. TypeOK'
    BY <1>1, <1>2, <1>3 DEF ServerInvariant, TypeOK, CallRecords
  <1>5. ProcessOK'
    <2>1. phase # "starting"
      BY DEF ServerInvariant, ProcessOK, Active, Listening
    <2>2. ASSUME NEW t \in Transports, ActiveOver(t) = {}, t # kind[c].transport \/ Active(c)
          PROVE  ActiveOver(t)' = {}
      BY <1>1, <1>2, <2>2 DEF ActiveOver, Active
    <2>3. Active(c) \/ phase \in {"serving", "drainREST"}
      BY DEF Listening
    <2>4. "REST" \in Transports /\ "gRPC" \in Transports
      BY DEF Transports
    <2>5. phase \in {"drainGRPC", "closing", "flushing"} => ActiveOver("REST")' = {} \/ late
      BY <2>2, <2>3, <2>4 DEF ServerInvariant, ProcessOK
    <2>6. phase \in {"closing", "flushing"} => ActiveOver("gRPC")' = {}
      BY <2>2, <2>3, <2>4 DEF ServerInvariant, ProcessOK
    <2> QED BY <1>2, <1>3, <2>1, <2>5, <2>6 DEF ServerInvariant, ProcessOK
  <1>6. ShutdownIsOrderly'
    BY <1>1, <1>2, <1>3 DEF ServerInvariant, ShutdownIsOrderly
  <1>7. ASSUME NEW d \in Calls
        PROVE  CallOK(call[d], d)'
    <2>1. CallOK(call'[d], d)
      BY <1>1 DEF ServerInvariant
    <2> QED
      BY <1>2, <2>1 DEF CallOK, VisitsOK, LogOK, ListOK, OfOneMoment, Visible
  <1> QED BY <1>2, <1>4, <1>5, <1>6, <1>7 DEF ServerInvariant

-----------------------------------------------------------------------------
(* The steps of a call, one lemma for each record it may go to.             *)

\* The record of an active call, part by part.
LEMMA ActiveCall ==
    ASSUME ServerInvariant, NEW c \in Calls
    PROVE  /\ call[c] \in CallRecords /\ CallOK(call[c], c)
           /\ Len(moments) \in Nat \ {0} /\ Len(moments) <= MaxMoments
           /\ MaxMoments \in Nat
  BY CallType, ServerAssumption DEF ServerInvariant, TypeOK

\* An operation that is neither recorded nor complete is answered.
LEMMA AnswerStep ==
    ASSUME ServerInvariant, NEW c \in Calls, NEW a \in Outcomes,
           call[c].pc \in {"visit", "mutating", "streaming", "completing"},
           Becomes(c, Answered(c, a)), UNCHANGED Process,
           held' = held \/ held' = held \ {c}
    PROVE  ServerInvariant'
  <1>1. PICK v : v = Answered(c, a)
    OBVIOUS
  <1>2. /\ v \in CallRecords
        /\ v.pc = "answering" /\ v.answer = a /\ v.log = call[c].log
        /\ v.sent = call[c].sent /\ v.since = call[c].since
        /\ v.complete = call[c].complete /\ v.cancelled = call[c].cancelled
    BY <1>1, AnsweredType
  <1>3. CallOK(v, c)
    BY <1>2, ActiveCall DEF CallOK, VisitsOK, LogOK, ListOK
  <1>4. Active(c)
    BY DEF Active
  <1>5. Becomes(c, v)
    BY <1>1
  <1> QED BY <1>2, <1>3, <1>4, <1>5, CallStep

LEMMA AdvanceStep ==
    ASSUME ServerInvariant, NEW c \in Calls, call[c].pc \in {"visit", "mutating"},
           Becomes(c, Advanced(c)), UNCHANGED Process,
           held' = held \/ held' = held \ {c}
    PROVE  ServerInvariant'
  <1>1. CASE Len(call[c].visits) = 1
    <2>1. Becomes(c, Answered(c, "succeeded"))
      BY <1>1 DEF Advanced
    <2>2. "succeeded" \in Outcomes
      BY DEF Outcomes
    <2> QED BY <2>1, <2>2, AnswerStep
  <1>2. CASE Len(call[c].visits) # 1
    <2>1. PICK v : v = [call[c] EXCEPT !.pc = "visit", !.visits = Tail(@)]
      OBVIOUS
    <2>2. call[c] \in CallRecords /\ CallOK(call[c], c)
      BY ActiveCall
    <2>3. call[c].visits \in Seq(StepNames) /\ call[c].visits # <<>>
      BY <2>2 DEF CallRecords, CallOK, VisitsOK
    <2>4. Tail(call[c].visits) \in Seq(StepNames) /\ Tail(call[c].visits) # <<>>
      BY <1>2, <2>3, TailType
    <2>5. /\ v \in CallRecords
          /\ v.pc = "visit" /\ v.visits = Tail(call[c].visits) /\ v.log = call[c].log
          /\ v.sent = call[c].sent /\ v.since = call[c].since
          /\ v.complete = call[c].complete /\ v.cancelled = call[c].cancelled
      BY <2>1, <2>2, <2>4 DEF CallRecords, Places
    <2>6. CallOK(v, c)
      BY <2>2, <2>4, <2>5, ActiveCall DEF CallOK, VisitsOK, LogOK, ListOK
    <2>7. Active(c) /\ Becomes(c, v)
      BY <1>2, <2>1 DEF Active, Advanced
    <2> QED BY <2>5, <2>6, <2>7, CallStep
  <1> QED BY <1>1, <1>2

LEMMA RefusedStep ==
    ASSUME ServerInvariant, NEW c \in Calls, Refused(c)
    PROVE  ServerInvariant'
  <1>1. PICK v : v = [Idle EXCEPT !.pc = "ended", !.answer = "rejected"]
    OBVIOUS
  <1>2. /\ v \in CallRecords
        /\ v.pc = "ended" /\ v.log = <<>> /\ v.sent = {} /\ v.since = 0
        /\ v.complete = FALSE /\ v.cancelled = FALSE
    <2>1. /\ v.pc = "ended" /\ v.log = <<>> /\ v.sent = {} /\ v.since = 0
          /\ v.complete = FALSE /\ v.cancelled = FALSE
      BY <1>1 DEF Idle
    <2>2. v \in CallRecords
      BY <1>1, IdleType DEF CallRecords, Places, Outcomes
    <2> QED BY <2>1, <2>2
  <1>3. CallOK(v, c)
    BY <1>2 DEF CallOK, VisitsOK, LogOK, ListOK
  <1>4. Becomes(c, v) /\ UNCHANGED Process /\ held' = held /\ Listening(kind[c].transport)
    BY <1>1 DEF Refused, Process
  <1> QED BY <1>2, <1>3, <1>4, CallStep

LEMMA BeginStep ==
    ASSUME ServerInvariant, NEW c \in Calls, Begin(c)
    PROVE  ServerInvariant'
  <1>1. PICK begun : begun = [Idle EXCEPT !.since = Len(moments)]
    OBVIOUS
  <1>2. PICK a \in Presented, now \in Times :
          Becomes(c, IF Authenticated(c, a, now)
                     THEN [begun EXCEPT !.pc = "visit", !.visits = Steps(kind[c].op)]
                     ELSE [begun EXCEPT !.pc = "answering", !.answer = "rejected"])
    BY <1>1 DEF Begin
  <1>3. UNCHANGED Process /\ held' = held /\ Listening(kind[c].transport)
    BY DEF Begin, Process
  <1>4. Len(moments) \in 0..MaxMoments /\ Len(moments) \in 1..Len(moments)
    BY ActiveCall
  <1>5. /\ begun \in CallRecords /\ begun.since = Len(moments)
        /\ begun.log = <<>> /\ begun.sent = {} /\ begun.complete = FALSE
        /\ begun.cancelled = FALSE
    <2>1. /\ begun.since = Len(moments)
          /\ begun.log = <<>> /\ begun.sent = {} /\ begun.complete = FALSE
          /\ begun.cancelled = FALSE
      BY <1>1 DEF Idle
    <2>2. begun \in CallRecords
      BY <1>1, <1>4, IdleType DEF CallRecords
    <2> QED BY <2>1, <2>2
  <1>6. CASE Authenticated(c, a, now)
    <2>1. PICK v : v = [begun EXCEPT !.pc = "visit", !.visits = Steps(kind[c].op)]
      OBVIOUS
    <2>2. PICK s \in Seq(StepNames) : s = Steps(kind[c].op) /\ s # <<>>
      BY StepsType, KindType
    <2>3. /\ v \in CallRecords /\ v.pc = "visit" /\ v.visits = s /\ v.since = Len(moments)
          /\ v.log = <<>> /\ v.sent = {} /\ v.complete = FALSE /\ v.cancelled = FALSE
      BY <1>5, <2>1, <2>2 DEF CallRecords, Places
    <2>4. CallOK(v, c)
      BY <1>4, <2>2, <2>3 DEF CallOK, VisitsOK, LogOK, ListOK
    <2>5. Becomes(c, v)
      BY <1>2, <1>6, <2>1
    <2> QED BY <1>3, <2>3, <2>4, <2>5, CallStep
  <1>7. CASE ~Authenticated(c, a, now)
    <2>1. PICK v : v = [begun EXCEPT !.pc = "answering", !.answer = "rejected"]
      OBVIOUS
    <2>2. /\ v \in CallRecords /\ v.pc = "answering" /\ v.answer = "rejected"
          /\ v.since = Len(moments)
          /\ v.log = <<>> /\ v.sent = {} /\ v.complete = FALSE /\ v.cancelled = FALSE
      BY <1>5, <2>1 DEF CallRecords, Places, Outcomes
    <2>3. CallOK(v, c)
      BY <1>4, <2>2 DEF CallOK, VisitsOK, LogOK, ListOK, Outcomes
    <2>4. Becomes(c, v)
      BY <1>2, <1>7, <2>1
    <2> QED BY <1>3, <2>2, <2>3, <2>4, CallStep
  <1> QED BY <1>6, <1>7

LEMMA StatementStep ==
    ASSUME ServerInvariant, NEW c \in Calls, Statement(c)
    PROVE  ServerInvariant'
  <1>1. call[c].pc = "visit" /\ UNCHANGED Process /\ held' = held
    BY DEF Statement, Visits, Process
  <1>2. \/ Becomes(c, Answered(c, "rejected")) \/ Becomes(c, Advanced(c))
        \/ Becomes(c, Answered(c, "succeeded"))
    BY DEF Statement
  <1>3. "rejected" \in Outcomes /\ "succeeded" \in Outcomes
    BY DEF Outcomes
  <1> QED BY <1>1, <1>2, <1>3, AnswerStep, AdvanceStep

LEMMA MutationStep ==
    ASSUME ServerInvariant, NEW c \in Calls,
           OpenMutation(c) \/ CommitMutation(c) \/ ReplayMutation(c)
    PROVE  ServerInvariant'
  <1>1. "rejected" \in Outcomes
    BY DEF Outcomes
  <1>2. call[c] \in CallRecords /\ CallOK(call[c], c)
    BY ActiveCall
  <1>3. CASE OpenMutation(c) /\ Becomes(c, Answered(c, "rejected")) /\ UNCHANGED held
    BY <1>1, <1>3, AnswerStep DEF OpenMutation, Visits
  <1>4. CASE /\ OpenMutation(c) /\ Becomes(c, [call[c] EXCEPT !.pc = "mutating"])
             /\ held' = held \cup {c}
    <2>1. PICK v : v = [call[c] EXCEPT !.pc = "mutating"]
      OBVIOUS
    <2>2. call[c].pc = "visit" /\ UNCHANGED Process /\ Available
      BY <1>4 DEF OpenMutation, Visits
    <2>3. /\ v \in CallRecords
          /\ v.pc = "mutating" /\ v.visits = call[c].visits /\ v.log = call[c].log
          /\ v.sent = call[c].sent /\ v.since = call[c].since
          /\ v.complete = call[c].complete /\ v.cancelled = call[c].cancelled
      BY <1>2, <2>1 DEF CallRecords, Places
    <2>4. CallOK(v, c)
      BY <1>2, <2>2, <2>3 DEF CallOK, VisitsOK, LogOK, ListOK
    <2>5. Active(c) /\ Becomes(c, v)
      BY <1>4, <2>1, <2>2 DEF Active
    <2> QED BY <1>4, <2>2, <2>3, <2>4, <2>5, CallStep
  <1>5. CASE CommitMutation(c)
    BY <1>1, <1>5, AnswerStep, AdvanceStep DEF CommitMutation
  <1>6. CASE ReplayMutation(c)
    <2>1. PICK v : v = [call[c] EXCEPT !.pc = "visit", !.visits = <<"replay">> \o Tail(@)]
      OBVIOUS
    <2>2. call[c].pc = "mutating" /\ UNCHANGED Process /\ held' = held \ {c} /\ Becomes(c, v)
      BY <1>6, <2>1 DEF ReplayMutation
    <2>3. call[c].visits \in Seq(StepNames) /\ call[c].visits # <<>>
      BY <1>2, <2>2 DEF CallRecords, CallOK, VisitsOK
    <2>4. PICK s \in Seq(StepNames) : s = <<"replay">> \o Tail(call[c].visits) /\ s # <<>>
      BY <2>3, TailType
    <2>5. /\ v \in CallRecords
          /\ v.pc = "visit" /\ v.visits = s /\ v.log = call[c].log
          /\ v.sent = call[c].sent /\ v.since = call[c].since
          /\ v.complete = call[c].complete /\ v.cancelled = call[c].cancelled
      BY <1>2, <2>1, <2>4 DEF CallRecords, Places
    <2>6. CallOK(v, c)
      BY <1>2, <2>2, <2>4, <2>5 DEF CallOK, VisitsOK, LogOK, ListOK
    <2>7. Active(c)
      BY <2>2 DEF Active
    <2> QED BY <2>2, <2>5, <2>6, <2>7, CallStep
  <1> QED BY <1>3, <1>4, <1>5, <1>6 DEF OpenMutation

-----------------------------------------------------------------------------
(* The stream of active offers.                                             *)

LEMMA NowType ==
    ASSUME ServerInvariant
    PROVE  Now \in Moments
  BY DEF ServerInvariant, TypeOK, Now

LEMMA OpenStreamStep ==
    ASSUME ServerInvariant, NEW c \in Calls, OpenStream(c)
    PROVE  ServerInvariant'
  <1>1. CASE Becomes(c, Answered(c, "rejected")) /\ UNCHANGED held
    BY <1>1, AnswerStep DEF OpenStream, Visits, Outcomes
  <1>2. CASE /\ Allowed(c)
             /\ Becomes(c, [call[c] EXCEPT !.pc = "streaming", !.visits = <<>>,
                                           !.rows = Visible(Now.offers, c)])
             /\ held' = held \cup {c}
    <2>1. PICK list : list = Visible(Now.offers, c)
      OBVIOUS
    <2>2. list \subseteq Offers
      BY <2>1, NowType DEF Visible, Moments
    <2>3. PICK v : v = [call[c] EXCEPT !.pc = "streaming", !.visits = <<>>, !.rows = list]
      OBVIOUS
    <2>4. /\ call[c].pc = "visit" /\ Head(call[c].visits) = "stream"
          /\ UNCHANGED Process /\ Available /\ Becomes(c, v)
      BY <1>2, <2>1, <2>3 DEF OpenStream, Visits
    <2>5. call[c] \in CallRecords /\ CallOK(call[c], c)
      BY ActiveCall
    <2>6. <<>> \in Seq(StepNames)
      OBVIOUS
    <2>7. /\ v \in CallRecords
          /\ v.pc = "streaming" /\ v.rows = list /\ v.log = call[c].log
          /\ v.sent = call[c].sent /\ v.since = call[c].since
          /\ v.complete = call[c].complete /\ v.cancelled = call[c].cancelled
      BY <2>2, <2>3, <2>5, <2>6 DEF CallRecords, Places
    <2>8. call[c].since \in 1..Len(moments) /\ Len(moments) \in Nat
      BY <2>4, <2>5, ActiveCall DEF CallOK, ListOK
    <2>9. OfOneMoment(list, v, c)
      <3>1. Len(moments) \in v.since..Len(moments)
        BY <2>7, <2>8
      <3>2. moments[Len(moments)].permitted
        BY <1>2, <2>4 DEF Allowed, Authorizing, Now
      <3> QED BY <2>1, <3>1, <3>2 DEF OfOneMoment, Now
    <2>10. CallOK(v, c)
      BY <2>4, <2>5, <2>7, <2>8, <2>9 DEF CallOK, VisitsOK, LogOK, ListOK
    <2>11. Active(c)
      BY <2>4 DEF Active
    <2> QED BY <1>2, <2>4, <2>7, <2>10, <2>11, CallStep
  <1> QED BY <1>1, <1>2 DEF OpenStream

LEMMA StreamStep ==
    ASSUME ServerInvariant, NEW c \in Calls, SendOffer(c) \/ EndStream(c)
    PROVE  ServerInvariant'
  <1>1. call[c] \in CallRecords /\ CallOK(call[c], c) /\ call[c].pc = "streaming" /\ Active(c)
    BY ActiveCall DEF SendOffer, EndStream, Active
  <1>2. UNCHANGED Process
    BY DEF SendOffer, EndStream, Process
  <1>3. CASE SendOffer(c)
    <2>1. PICK o \in Remaining(c) : Becomes(c, [call[c] EXCEPT !.sent = @ \cup {o}])
      BY <1>3 DEF SendOffer
    <2>2. PICK v : v = [call[c] EXCEPT !.sent = @ \cup {o}]
      OBVIOUS
    <2>3. o \in call[c].rows /\ o \in Offers
      BY <1>1, <2>1 DEF Remaining, CallRecords
    <2>4. /\ v \in CallRecords
          /\ v.pc = "streaming" /\ v.rows = call[c].rows /\ v.log = call[c].log
          /\ v.sent = call[c].sent \cup {o} /\ v.since = call[c].since
          /\ v.complete = call[c].complete /\ v.cancelled = call[c].cancelled
      BY <1>1, <2>2, <2>3 DEF CallRecords
    <2>5. v.sent \subseteq v.rows /\ OfOneMoment(v.rows, v, c)
      BY <1>1, <2>3, <2>4 DEF CallOK, ListOK, OfOneMoment
    <2>6. CallOK(v, c)
      BY <1>1, <2>4, <2>5 DEF CallOK, VisitsOK, LogOK, ListOK
    <2>7. Becomes(c, v) /\ held' = held
      BY <1>3, <2>1, <2>2 DEF SendOffer
    <2> QED BY <1>1, <1>2, <2>4, <2>6, <2>7, CallStep
  <1>4. CASE EndStream(c)
    <2>1. PICK v : v = [call[c] EXCEPT !.pc = "completing", !.rows = {}]
      OBVIOUS
    <2>2. call[c].sent = call[c].rows
      BY <1>1, <1>4 DEF EndStream, Remaining, CallOK, ListOK
    <2>3. /\ v \in CallRecords
          /\ v.pc = "completing" /\ v.log = call[c].log
          /\ v.sent = call[c].rows /\ v.since = call[c].since
          /\ v.complete = call[c].complete /\ v.cancelled = call[c].cancelled
      BY <1>1, <2>1, <2>2 DEF CallRecords, Places
    <2>4. OfOneMoment(v.sent, v, c)
      BY <1>1, <2>3 DEF CallOK, ListOK, OfOneMoment
    <2>5. CallOK(v, c)
      BY <1>1, <2>3, <2>4 DEF CallOK, VisitsOK, LogOK, ListOK
    <2>6. Becomes(c, v) /\ held' = held \ {c}
      BY <1>4, <2>1 DEF EndStream
    <2> QED BY <1>1, <1>2, <2>3, <2>5, <2>6, CallStep
  <1> QED BY <1>3, <1>4

LEMMA SendCompleteStep ==
    ASSUME ServerInvariant, NEW c \in Calls, SendComplete(c)
    PROVE  ServerInvariant'
  <1>1. PICK u : u = Answered(c, "succeeded")
    OBVIOUS
  <1>2. PICK v : v = [u EXCEPT !.complete = TRUE]
    OBVIOUS
  <1>3. "succeeded" \in Outcomes
    BY DEF Outcomes
  <1>4. /\ u \in CallRecords
        /\ u.pc = "answering" /\ u.answer = "succeeded" /\ u.log = call[c].log
        /\ u.sent = call[c].sent /\ u.since = call[c].since /\ u.cancelled = call[c].cancelled
    BY <1>1, <1>3, AnsweredType
  <1>5. /\ v \in CallRecords
        /\ v.pc = "answering" /\ v.answer = "succeeded" /\ v.log = call[c].log
        /\ v.sent = call[c].sent /\ v.since = call[c].since /\ v.cancelled = call[c].cancelled
        /\ v.complete = TRUE
    BY <1>2, <1>4 DEF CallRecords
  <1>6. CallOK(call[c], c) /\ call[c].pc = "completing"
    BY ActiveCall DEF SendComplete
  <1>7. OfOneMoment(v.sent, v, c)
    BY <1>5, <1>6 DEF CallOK, ListOK, OfOneMoment
  <1>8. CallOK(v, c)
    BY <1>3, <1>5, <1>6, <1>7 DEF CallOK, VisitsOK, LogOK, ListOK
  <1>9. Becomes(c, v) /\ UNCHANGED Process /\ held' = held /\ Active(c)
    BY <1>1, <1>2, <1>6 DEF SendComplete, Process, Active
  <1> QED BY <1>5, <1>8, <1>9, CallStep

-----------------------------------------------------------------------------
(* How a call ends.                                                         *)

LEMMA RecordStep ==
    ASSUME ServerInvariant, NEW c \in Calls, Record(c)
    PROVE  ServerInvariant'
  <1>1. call[c] \in CallRecords /\ CallOK(call[c], c) /\ call[c].pc = "answering" /\ Active(c)
    BY ActiveCall DEF Record, Active
  <1>2. call[c].log = <<>> /\ call[c].answer \in Outcomes
    BY <1>1 DEF CallOK, LogOK, VisitsOK
  <1>3. PICK v : v = [call[c] EXCEPT !.pc = "returning", !.log = <<call[c].answer>>]
    OBVIOUS
  <1>4. Becomes(c, v) /\ UNCHANGED Process /\ held' = held
    BY <1>2, <1>3 DEF Record, CompleteOperation, Process
  <1>5. <<call[c].answer>> \in Seq(Outcomes) /\ Len(<<call[c].answer>>) = 1
    BY <1>2
  <1>6. /\ v \in CallRecords
        /\ v.pc = "returning" /\ v.answer = call[c].answer /\ v.log = <<call[c].answer>>
        /\ v.sent = call[c].sent /\ v.since = call[c].since
        /\ v.complete = call[c].complete /\ v.cancelled = call[c].cancelled
    BY <1>1, <1>3, <1>5 DEF CallRecords, Places
  <1>7. v.complete => OfOneMoment(v.sent, v, c)
    BY <1>1, <1>6 DEF CallOK, ListOK, OfOneMoment
  <1>8. CallOK(v, c)
    BY <1>1, <1>2, <1>5, <1>6, <1>7 DEF CallOK, VisitsOK, LogOK, ListOK
  <1> QED BY <1>1, <1>4, <1>6, <1>8, CallStep

\* What is left of a call whose one outcome was recorded.
LEMMA EndedStep ==
    ASSUME ServerInvariant, NEW c \in Calls, Active(c),
           NEW answer \in Outcomes, NEW log \in Seq(Outcomes),
           Len(log) = 1, answer # "failed" => log = <<answer>>,
           Becomes(c, Ended(answer, log)), UNCHANGED Process,
           held' = held \/ held' = held \ {c}
    PROVE  ServerInvariant'
  <1>1. PICK v : v = Ended(answer, log)
    OBVIOUS
  <1>2. 1 \in 0..MaxMoments
    BY ServerAssumption
  <1>3. /\ v.pc = "ended" /\ v.answer = answer /\ v.log = log /\ v.sent = {}
        /\ v.complete = FALSE /\ v.cancelled = FALSE
    BY <1>1 DEF Ended, Idle
  <1>4. v \in CallRecords
    BY <1>1, <1>2, IdleType DEF Ended, CallRecords, Places
  <1>5. CallOK(v, c)
    <2>1. VisitsOK(v) /\ ListOK(v, c)
      BY <1>3 DEF VisitsOK, ListOK
    <2>2. v.answer # "failed" => v.log = <<v.answer>>
      BY <1>3
    <2>3. Len(v.log) = 1
      BY <1>3
    <2>4. Len(v.log) <= 1
      BY <2>3
    <2>5. v.pc = "ended"
      BY <1>3
    <2>6. LogOK(v)
      BY <2>2, <2>3, <2>4, <2>5, Zenon DEF LogOK
    <2> QED BY <2>1, <2>6 DEF CallOK
  <1>6. Becomes(c, v)
    BY <1>1
  <1> QED BY <1>3, <1>4, <1>5, <1>6, CallStep

LEMMA ReturnStep ==
    ASSUME ServerInvariant, NEW c \in Calls, Return(c)
    PROVE  ServerInvariant'
  <1>1. call[c] \in CallRecords /\ CallOK(call[c], c) /\ call[c].pc = "returning" /\ Active(c)
    BY ActiveCall DEF Return, Active
  <1>2. call[c].answer \in Outcomes /\ call[c].log = <<call[c].answer>>
    BY <1>1 DEF CallOK, LogOK, VisitsOK
  <1>3. call[c].log \in Seq(Outcomes) /\ Len(call[c].log) = 1
    <2>1. \A a \in Outcomes : <<a>> \in Seq(Outcomes) /\ Len(<<a>>) = 1
      OBVIOUS
    <2> QED BY <1>2, <2>1
  <1>4. Becomes(c, Ended(call[c].answer, call[c].log)) /\ UNCHANGED Process /\ held' = held
    BY DEF Return, Process
  <1> QED BY <1>1, <1>2, <1>3, <1>4, EndedStep

LEMMA FailStep ==
    ASSUME ServerInvariant, NEW c \in Calls, Fail(c)
    PROVE  ServerInvariant'
  <1>1. PICK a \in Outcomes : Becomes(c, Answered(c, a))
    <2>1. "succeeded" \in Outcomes /\ "rejected" \in Outcomes
      BY DEF Outcomes
    <2> QED BY <2>1 DEF Fail
  <1>2. /\ call[c].pc \in {"visit", "mutating", "streaming", "completing"}
        /\ held' = held \ {c} /\ UNCHANGED Process
    BY DEF Fail
  <1> QED BY <1>1, <1>2, AnswerStep

LEMMA PanicStep ==
    ASSUME ServerInvariant, NEW c \in Calls, Panic(c)
    PROVE  ServerInvariant'
  <1>1. call[c] \in CallRecords /\ CallOK(call[c], c) /\ Active(c)
    BY ActiveCall DEF Panic
  <1>2. call[c].log \in Seq(Outcomes) /\ Len(call[c].log) <= 1 /\ Len(call[c].log) \in Nat
    BY <1>1 DEF CallRecords, CallOK, LogOK
  <1>3. "failed" \in Outcomes
    BY DEF Outcomes
  <1>4. <<"failed">> \in Seq(Outcomes) /\ Len(<<"failed">>) = 1
    BY <1>3
  <1>5. call[c].log # <<>> => Len(call[c].log) = 1
    <2>1. PICK s \in Seq(Outcomes) : s = call[c].log
      BY <1>2
    <2>2. s # <<>> => Len(s) # 0
      OBVIOUS
    <2>3. Len(s) \in Nat /\ Len(s) <= 1
      BY <1>2, <2>1
    <2>4. Len(s) = 0 \/ Len(s) = 1
      <3>1. \A n \in Nat : n <= 1 => n = 0 \/ n = 1
        OBVIOUS
      <3> QED BY <2>3, <3>1, Zenon
    <2> QED BY <2>1, <2>2, <2>4, Zenon
  <1>6. PICK log : log = CompleteOperation(call[c].log, "failed")
    OBVIOUS
  <1>7. log \in Seq(Outcomes) /\ Len(log) = 1
    BY <1>2, <1>4, <1>5, <1>6 DEF CompleteOperation
  <1>8. Becomes(c, Ended("failed", log)) /\ held' = held \ {c} /\ UNCHANGED Process
    BY <1>6 DEF Panic
  <1> QED BY <1>1, <1>3, <1>7, <1>8, EndedStep

-----------------------------------------------------------------------------
(* The market, the administrator and the process.                           *)

\* What was shown at one moment stays so when the history grows.
LEMMA MomentStep ==
    ASSUME ServerInvariant, NEW m \in Moments, Len(moments) < MaxMoments,
           moments' = Append(moments, m),
           UNCHANGED <<phase, open, late, kind, call, held>>
    PROVE  ServerInvariant'
  <1>1. /\ moments \in Seq(Moments) /\ Len(moments) \in Nat \ {0} /\ MaxMoments \in Nat
        /\ Len(moments) \in 1..MaxMoments
    BY ServerAssumption DEF ServerInvariant, TypeOK
  <1>2. /\ moments' \in Seq(Moments) /\ Len(moments') = Len(moments) + 1
        /\ \A i \in 1..Len(moments) : moments'[i] = moments[i]
    BY <1>1
  <1>3. TypeOK'
    BY <1>1, <1>2 DEF ServerInvariant, TypeOK
  <1>4. ProcessOK' /\ ShutdownIsOrderly'
    BY DEF ServerInvariant, ProcessOK, ShutdownIsOrderly, ActiveOver, Active
  <1>5. ASSUME NEW c \in Calls
        PROVE  CallOK(call[c], c)'
    <2>1. CallOK(call[c], c) /\ call'[c] = call[c] /\ kind' = kind
      BY DEF ServerInvariant
    <2>2. ASSUME NEW offers, OfOneMoment(offers, call[c], c), call[c].since \in 1..Len(moments)
          PROVE  OfOneMoment(offers, call[c], c)'
      <3>1. PICK i \in call[c].since..Len(moments) :
              moments[i].permitted /\ offers = Visible(moments[i].offers, c)
        BY <2>2 DEF OfOneMoment
      <3>2. i \in 1..Len(moments) /\ i \in call'[c].since..Len(moments')
        BY <1>1, <1>2, <2>1, <2>2, <3>1
      <3>3. moments'[i] = moments[i]
        BY <1>2, <3>2
      <3>4. moments'[i].permitted /\ offers = {o \in moments'[i].offers :
                BondOf[o] = kind'[c].bond /\ SellerOf[o] # kind'[c].caller}
        BY <2>1, <3>1, <3>3 DEF Visible
      <3> QED BY <3>2, <3>4 DEF OfOneMoment, Visible
    <2>3. VisitsOK(call[c])' /\ LogOK(call[c])'
      BY <2>1 DEF CallOK, VisitsOK, LogOK
    <2>4. ListOK(call[c], c)'
      <3>1. call[c].pc \notin {"idle", "ended"} => call[c].since \in 1..Len(moments)
        BY <2>1 DEF CallOK, ListOK
      <3>2. call'[c].pc \notin {"idle", "ended"} => call'[c].since \in 1..Len(moments')
        BY <1>1, <1>2, <2>1, <3>1
      <3>3. /\ call'[c].pc \in {"idle", "visit", "mutating", "ended"} => call'[c].sent = {}
            /\ call'[c].complete => call'[c].pc \in {"answering", "returning", "cut"}
        BY <2>1 DEF CallOK, ListOK
      <3>4. call'[c].pc = "streaming" =>
              call'[c].sent \subseteq call'[c].rows /\ OfOneMoment(call[c].rows, call[c], c)'
        <4>1. CASE call[c].pc = "streaming"
          <5>1. /\ call[c].sent \subseteq call[c].rows /\ OfOneMoment(call[c].rows, call[c], c)
                /\ call[c].since \in 1..Len(moments)
            BY <2>1, <4>1 DEF CallOK, ListOK
          <5>2. PICK offers : offers = call[c].rows
            OBVIOUS
          <5>3. OfOneMoment(offers, call[c], c)'
            BY <2>2, <5>1, <5>2
          <5> QED BY <2>1, <5>1, <5>2, <5>3
        <4> QED BY <2>1, <4>1
      <3>5. call'[c].pc = "completing" \/ call'[c].complete =>
              OfOneMoment(call[c].sent, call[c], c)'
        <4>1. CASE call[c].pc = "completing" \/ call[c].complete
          <5>1. /\ OfOneMoment(call[c].sent, call[c], c)
                /\ call[c].since \in 1..Len(moments)
            BY <2>1, <4>1 DEF CallOK, ListOK
          <5>2. PICK offers : offers = call[c].sent
            OBVIOUS
          <5>3. OfOneMoment(offers, call[c], c)'
            BY <2>2, <5>1, <5>2
          <5> QED BY <2>1, <5>2, <5>3
        <4> QED BY <2>1, <4>1
      <3> QED BY <3>2, <3>3, <3>4, <3>5 DEF ListOK
    <2> QED BY <2>3, <2>4 DEF CallOK
  <1> QED BY <1>2, <1>3, <1>4, <1>5 DEF ServerInvariant

LEMMA WorldStep ==
    ASSUME ServerInvariant, MarketMoves \/ PermissionRevoked
    PROVE  ServerInvariant'
  <1>1. Now.offers \subseteq Offers /\ Now.permitted \in BOOLEAN
    BY NowType DEF Moments
  <1>2. PICK offers \in SUBSET Offers, permitted \in BOOLEAN : Moment(offers, permitted)
    <2>1. CASE MarketMoves
      <3>1. PICK o \in Offers : \/ Moment(Now.offers \ {o}, Now.permitted)
                                \/ Moment(Now.offers \cup {o}, Now.permitted)
        BY <2>1 DEF MarketMoves, Visible
      <3>2. Now.offers \ {o} \subseteq Offers /\ Now.offers \cup {o} \subseteq Offers
        BY <1>1
      <3> QED BY <1>1, <3>1, <3>2
    <2>2. CASE PermissionRevoked
      BY <1>1, <2>2 DEF PermissionRevoked
    <2> QED BY <2>1, <2>2
  <1>3. PICK m : m = [offers |-> offers, permitted |-> permitted]
    OBVIOUS
  <1>4. m \in Moments
    BY <1>3 DEF Moments
  <1> QED BY <1>2, <1>3, <1>4, MomentStep DEF Moment

\* A step of run() that leaves the calls and the pool alone.
LEMMA RunStep ==
    ASSUME ServerInvariant, UNCHANGED <<kind, call, held, moments>>,
           phase' \in {"starting", "serving", "drainREST", "drainGRPC", "closing",
                       "flushing", "exited"},
           open' \subseteq {"telemetry", "pool", "REST", "gRPC"}, late' \in BOOLEAN,
           late => late', ProcessOK',
           phase' \in {"flushing", "exited"} => held = {}, phase' # "exited"
    PROVE  ServerInvariant'
  <1>1. TypeOK' /\ moments' \in Seq(Moments)
    BY DEF ServerInvariant, TypeOK
  <1>2. ShutdownIsOrderly'
    BY DEF ServerInvariant, ShutdownIsOrderly
  <1>3. ASSUME NEW c \in Calls
        PROVE  CallOK(call[c], c)'
    BY DEF ServerInvariant, CallOK, VisitsOK, LogOK, ListOK, OfOneMoment, Visible
  <1> QED BY <1>1, <1>2, <1>3 DEF ServerInvariant

\* An unstarted process has no active call, and a drained transport none of its.
LEMMA ProcessStep ==
    ASSUME ServerInvariant,
           \/ Start \/ StartFails \/ Shutdown \/ DeadlinePasses
           \/ RESTDrained \/ GRPCStopped \/ PoolClosed
    PROVE  ServerInvariant'
  <1>1. UNCHANGED <<kind, call, held, moments>>
    BY DEF Start, StartFails, Shutdown, DeadlinePasses, RESTDrained, GRPCStopped, PoolClosed
  <1>2. \A t : ActiveOver(t)' = ActiveOver(t)
    BY <1>1 DEF ActiveOver, Active
  <1>3. phase = "starting" => \A t : ActiveOver(t) = {}
    BY DEF ServerInvariant, ProcessOK, ActiveOver, Active
  <1>4. /\ open \subseteq {"telemetry", "pool", "REST", "gRPC"} /\ late \in BOOLEAN
        /\ ProcessOK /\ ShutdownIsOrderly
    BY DEF ServerInvariant, TypeOK
  <1>5. CASE Start
    <2>1. /\ phase = "starting" /\ late' = late /\ open' = open \cup {NextToOpen}
          /\ phase' = IF NextToOpen = "gRPC" THEN "serving" ELSE "starting"
      BY <1>5 DEF Start
    <2>2. \/ open = {} /\ NextToOpen = "telemetry"
          \/ open = {"telemetry"} /\ NextToOpen = "pool"
          \/ open = {"telemetry", "pool"} /\ NextToOpen = "REST"
          \/ open = {"telemetry", "pool", "REST"} /\ NextToOpen = "gRPC"
      BY <1>4, <2>1 DEF ProcessOK, NextToOpen
    <2>3. \/ phase' = "starting" /\ open' = {"telemetry"}
          \/ phase' = "starting" /\ open' = {"telemetry", "pool"}
          \/ phase' = "starting" /\ open' = {"telemetry", "pool", "REST"}
          \/ phase' = "serving" /\ open' \subseteq {"telemetry", "pool", "REST", "gRPC"}
      BY <2>1, <2>2
    <2>4. ProcessOK'
      BY <1>1, <1>4, <2>1, <2>3 DEF ProcessOK
    <2> QED BY <1>1, <1>4, <2>1, <2>3, <2>4, RunStep
  <1>6. CASE StartFails
    <2>1. /\ phase = "starting" /\ late' = late /\ open' = open \ {"REST"}
          /\ phase' = "closing"
      BY <1>6 DEF StartFails
    <2>2. ProcessOK'
      BY <1>1, <1>2, <1>3, <1>4, <2>1 DEF ProcessOK
    <2> QED BY <1>1, <1>4, <2>1, <2>2, RunStep
  <1>7. CASE Shutdown
    <2>1. /\ phase = "serving" /\ late' = late /\ open' = open \ {"REST"}
          /\ phase' = "drainREST"
      BY <1>7 DEF Shutdown
    <2>2. ProcessOK'
      BY <1>1, <1>4, <2>1 DEF ProcessOK
    <2> QED BY <1>1, <1>4, <2>1, <2>2, RunStep
  <1>8. CASE DeadlinePasses
    <2>1. phase' = phase /\ open' = open /\ late' = TRUE /\ phase \in {"drainREST", "drainGRPC"}
      BY <1>8 DEF DeadlinePasses
    <2>2. ProcessOK'
      BY <1>1, <1>2, <1>4, <2>1 DEF ProcessOK
    <2> QED BY <1>1, <1>4, <2>1, <2>2, RunStep
  <1>9. CASE RESTDrained
    <2>1. /\ phase = "drainREST" /\ phase' = "drainGRPC" /\ late' = late
          /\ open' = open \ {"gRPC"}
          /\ ActiveOver("REST") = {} \/ late
      BY <1>9 DEF RESTDrained
    <2>2. ProcessOK'
      BY <1>1, <1>2, <1>4, <2>1 DEF ProcessOK
    <2> QED BY <1>1, <1>4, <2>1, <2>2, RunStep
  <1>10. CASE GRPCStopped
    <2>1. /\ phase = "drainGRPC" /\ phase' = "closing" /\ late' = late
          /\ open' = open /\ ActiveOver("gRPC") = {}
      BY <1>10 DEF GRPCStopped
    <2>2. ProcessOK'
      BY <1>1, <1>2, <1>4, <2>1 DEF ProcessOK
    <2> QED BY <1>1, <1>4, <2>1, <2>2, RunStep
  <1>11. CASE PoolClosed
    <2>1. /\ phase = "closing" /\ phase' = "flushing" /\ late' = late
          /\ open' = open \ {"pool"} /\ held = {}
      BY <1>11 DEF PoolClosed
    <2>2. ProcessOK'
      BY <1>1, <1>2, <1>4, <2>1 DEF ProcessOK
    <2> QED BY <1>1, <1>4, <2>1, <2>2, RunStep
  <1> QED BY <1>5, <1>6, <1>7, <1>8, <1>9, <1>10, <1>11

\* grpcServer.Stop comes after the deadline and only cancels.
LEMMA StopStep ==
    ASSUME ServerInvariant, Stop
    PROVE  ServerInvariant'
  <1>1. /\ phase = "drainGRPC" /\ late
        /\ phase' = phase /\ open' = open /\ late' = late /\ kind' = kind
        /\ held' = held /\ moments' = moments
    BY DEF Stop
  <1>2. /\ call' \in [Calls -> CallRecords]
        /\ \A c \in Calls : \E b \in BOOLEAN : call'[c] = [call[c] EXCEPT !.cancelled = b]
    <2>1. \A c \in Calls : call'[c] = [call[c] EXCEPT
              !.cancelled = call[c].cancelled \/ c \in ActiveOver("gRPC")]
      BY Zenon DEF Stop
    <2>2. \A c \in Calls : (call[c].cancelled \/ c \in ActiveOver("gRPC")) \in BOOLEAN
      OBVIOUS
    <2>3. \A c \in Calls : \E b \in BOOLEAN : call'[c] = [call[c] EXCEPT !.cancelled = b]
      BY <2>1, <2>2, Zenon
    <2>4. \A c \in Calls : call'[c] \in CallRecords
      BY <2>3, CallType DEF CallRecords
    <2>5. DOMAIN call' = Calls /\ call' = [c \in Calls |-> call'[c]]
      BY Zenon DEF Stop
    <2> QED BY <2>3, <2>4, <2>5
  <1>3. \A c \in Calls :
          /\ call'[c].pc = call[c].pc /\ call'[c].visits = call[c].visits
          /\ call'[c].answer = call[c].answer /\ call'[c].log = call[c].log
          /\ call'[c].rows = call[c].rows /\ call'[c].sent = call[c].sent
          /\ call'[c].since = call[c].since /\ call'[c].complete = call[c].complete
    BY <1>2, CallType DEF CallRecords
  <1>4. TypeOK'
    BY <1>1, <1>2 DEF ServerInvariant, TypeOK, CallRecords
  <1>5. ProcessOK'
    BY <1>1, <1>3 DEF ServerInvariant, ProcessOK
  <1>6. ShutdownIsOrderly'
    BY <1>1, <1>3 DEF ServerInvariant, ShutdownIsOrderly
  <1>7. ASSUME NEW c \in Calls
        PROVE  CallOK(call[c], c)'
    <2>1. CallOK(call[c], c)
      BY DEF ServerInvariant
    <2>2. VisitsOK(call[c])' /\ LogOK(call[c])'
      BY <1>3, <2>1 DEF CallOK, VisitsOK, LogOK
    <2>3. ListOK(call[c], c)'
      BY <1>1, <1>3, <2>1 DEF CallOK, ListOK, OfOneMoment, Visible
    <2> QED BY <2>2, <2>3 DEF CallOK
  <1> QED BY <1>1, <1>4, <1>5, <1>6, <1>7 DEF ServerInvariant

\* The process takes the calls with it that Shutdown gave up on: REST calls,
\* after the deadline, that hold no connection.
LEMMA ExitStep ==
    ASSUME ServerInvariant, Exit
    PROVE  ServerInvariant'
  <1>1. /\ phase = "flushing" /\ phase' = "exited" /\ open' = open \ {"telemetry"}
        /\ late' = late /\ kind' = kind /\ held' = held /\ moments' = moments
        /\ call' = [c \in Calls |-> IF Active(c) THEN [call[c] EXCEPT !.pc = "cut"]
                                                 ELSE call[c]]
    BY DEF Exit
  <1>2. \A c \in Calls : Active(c) => late /\ kind[c].transport = "REST"
    BY <1>1, KindType DEF ServerInvariant, ProcessOK, ActiveOver, Transports
  <1>3. \A c \in Calls : call[c] \in CallRecords
    BY CallType
  <1>4. \A c \in Calls :
          /\ call'[c] \in CallRecords
          /\ call'[c].pc = IF Active(c) THEN "cut" ELSE call[c].pc
          /\ call'[c].visits = call[c].visits
          /\ call'[c].answer = call[c].answer /\ call'[c].log = call[c].log
          /\ call'[c].rows = call[c].rows /\ call'[c].sent = call[c].sent
          /\ call'[c].since = call[c].since /\ call'[c].complete = call[c].complete
          /\ call'[c].cancelled = call[c].cancelled
    BY <1>1, <1>3 DEF CallRecords, Places
  <1>5. TypeOK'
    <2>1. call' \in [Calls -> CallRecords]
      BY <1>1, <1>4
    <2> QED BY <1>1, <2>1 DEF ServerInvariant, TypeOK, CallRecords
  <1>6. open' = {}
    BY <1>1 DEF ServerInvariant, ProcessOK
  <1>7. ProcessOK'
    BY <1>1, <1>6 DEF ServerInvariant, ProcessOK
  <1>8. ShutdownIsOrderly'
    BY <1>1, <1>2, <1>4, <1>6 DEF ServerInvariant, ShutdownIsOrderly
  <1>9. ASSUME NEW c \in Calls
        PROVE  CallOK(call[c], c)'
    <2>1. CallOK(call[c], c)
      BY DEF ServerInvariant
    <2>2. VisitsOK(call[c])' /\ LogOK(call[c])'
      BY <1>4, <2>1 DEF CallOK, VisitsOK, LogOK, Active
    <2>3. ListOK(call[c], c)'
      BY <1>1, <1>4, <2>1 DEF CallOK, ListOK, OfOneMoment, Visible, Active
    <2> QED BY <2>2, <2>3 DEF CallOK
  <1> QED BY <1>1, <1>5, <1>7, <1>8, <1>9 DEF ServerInvariant

-----------------------------------------------------------------------------
(* The theorems.                                                            *)

LEMMA InitInvariant == Init => ServerInvariant
  <1> SUFFICES ASSUME Init
               PROVE  ServerInvariant
    OBVIOUS
  <1>1. PICK m : m = [offers |-> InitialOffers, permitted |-> TRUE]
    OBVIOUS
  <1>2. m \in Moments /\ moments = <<m>>
    BY <1>1, ServerAssumption DEF Init, Moments
  <1>3. moments \in Seq(Moments) /\ Len(moments) = 1
    BY <1>2
  <1>4. call \in [Calls -> CallRecords] /\ \A c \in Calls : call[c] = Idle
    BY IdleType DEF Init
  <1>5. IsFiniteSet(held) /\ Cardinality(held) = 0 /\ held = {}
    BY FS_EmptySet DEF Init
  <1>6. TypeOK
    <2>1. Cardinality(held) <= PoolSize /\ 1 \in 1..MaxMoments
      BY <1>5, ServerAssumption
    <2>2. /\ phase = "starting" /\ open = {} /\ late = FALSE /\ kind \in Mixes
      BY DEF Init
    <2> QED BY <1>3, <1>4, <1>5, <2>1, <2>2 DEF TypeOK, CallRecords
  <1>7. ProcessOK /\ ShutdownIsOrderly
    BY <1>4, <1>5 DEF Init, ProcessOK, ShutdownIsOrderly, Idle
  <1>8. ASSUME NEW c \in Calls
        PROVE  CallOK(call[c], c)
    <2>1. /\ call[c].pc = "idle" /\ call[c].log = <<>> /\ call[c].sent = {}
          /\ call[c].complete = FALSE
      BY <1>4 DEF Idle
    <2> QED BY <2>1 DEF CallOK, VisitsOK, LogOK, ListOK
  <1> QED BY <1>3, <1>6, <1>7, <1>8 DEF ServerInvariant

LEMMA NextInvariant == ServerInvariant /\ [Next]_vars => ServerInvariant'
  <1> SUFFICES ASSUME ServerInvariant, [Next]_vars
               PROVE  ServerInvariant'
    OBVIOUS
  <1>1. CASE Start \/ StartFails \/ Shutdown \/ DeadlinePasses
    BY <1>1, ProcessStep
  <1>2. CASE ShutdownStep
    BY <1>2, ProcessStep, StopStep, ExitStep DEF ShutdownStep
  <1>3. ASSUME NEW c \in Calls,
               RefuseBody(c) \/ RefuseQuery(c) \/ Begin(c) \/ Work(c) \/ Send(c)
               \/ Fail(c) \/ Panic(c)
        PROVE  ServerInvariant'
    <2>1. CASE RefuseBody(c) \/ RefuseQuery(c) \/ Begin(c)
      BY <2>1, RefusedStep, BeginStep DEF RefuseBody, RefuseQuery
    <2>2. CASE Work(c)
      BY <2>2, StatementStep, MutationStep, OpenStreamStep, StreamStep, RecordStep, ReturnStep
        DEF Work
    <2>3. CASE Send(c)
      BY <2>3, StreamStep, SendCompleteStep DEF Send
    <2>4. CASE Fail(c) \/ Panic(c)
      BY <2>4, FailStep, PanicStep
    <2> QED BY <1>3, <2>1, <2>2, <2>3, <2>4
  <1>4. CASE MarketMoves \/ PermissionRevoked
    BY <1>4, WorldStep
  <1>5. CASE UNCHANGED vars
    <2>1. /\ phase' = phase /\ open' = open /\ late' = late /\ kind' = kind
          /\ call' = call /\ held' = held /\ moments' = moments
      BY <1>5 DEF vars
    <2>2. ProcessOK' /\ ShutdownIsOrderly' /\ TypeOK' /\ moments' \in Seq(Moments)
      BY <2>1 DEF ServerInvariant, ProcessOK, ShutdownIsOrderly, TypeOK, ActiveOver, Active
    <2>3. ASSUME NEW c \in Calls
          PROVE  CallOK(call[c], c)'
      BY <2>1 DEF ServerInvariant, CallOK, VisitsOK, LogOK, ListOK, OfOneMoment, Visible
    <2> QED BY <2>2, <2>3 DEF ServerInvariant
  <1> QED BY <1>1, <1>2, <1>3, <1>4, <1>5 DEF Next

LEMMA ServerIsInvariant == Spec => []ServerInvariant
  BY InitInvariant, NextInvariant, PTL DEF Spec

\* The pool never lends more connections than its ceiling, only to calls, and
\* every variable keeps its type, whatever is served, cut short or panics.
THEOREM ServerTypeCorrect == Spec => []TypeOK
  <1>1. ServerInvariant => TypeOK
    BY DEF ServerInvariant
  <1> QED BY <1>1, ServerIsInvariant, PTL

\* ShutdownServers and the deferred calls of run() disturb no call before
\* ShutdownTimeout, cut only REST calls and none with a transaction open, and
\* leave nothing open, for any number of calls and connections.
THEOREM ShutdownOrderly == Spec => []ShutdownIsOrderly
  <1>1. ServerInvariant => ShutdownIsOrderly
    BY DEF ServerInvariant
  <1> QED BY <1>1, ServerIsInvariant, PTL

\* Telemetry counts every operation that ended exactly once, and counts what the
\* client was told, panics included (CompleteOperation and its deferred twin).
THEOREM CountedOnce == Spec => []OutcomesRecordedOnce
  <1>1. ServerInvariant => OutcomesRecordedOnce
    BY DEF ServerInvariant, CallOK, LogOK, OutcomesRecordedOnce
  <1> QED BY <1>1, ServerIsInvariant, PTL

\* A stream that says Complete showed the offers of one moment of its call at
\* which its caller was permitted, for any number of offers and of changes.
THEOREM ListsAreOfOneMoment == Spec => []ListsShowOneMoment
  <1>1. ServerInvariant => ListsShowOneMoment
    BY DEF ServerInvariant, CallOK, ListOK, OfOneMoment, ListsShowOneMoment
  <1> QED BY <1>1, ServerIsInvariant, PTL

-----------------------------------------------------------------------------
(* Assertions.                                                              *)

\* An assertion has times on the issuer's clock.
Dated(a) == a.iat \in Int /\ a.nbf \in Int /\ a.exp \in Int

\* G-007: an assertion is good for one operation, one body and one nonce, for a
\* bounded time.  No record of used assertion ids is kept, so an assertion may
\* be accepted again (Authenticate, validateClaims), but only for the call it
\* was signed for, and any two acceptances lie within its longest lifetime plus
\* the clock tolerance on both sides.
THEOREM OneAssertionOneCall ==
    ASSUME NEW a, Dated(a),
           NEW op1, NEW request1, NEW nonce1, NEW now1 \in Int,
           NEW op2, NEW request2, NEW nonce2, NEW now2 \in Int,
           Accepts(a, op1, request1, nonce1, now1),
           Accepts(a, op2, request2, nonce2, now2)
    PROVE  /\ <<op1, request1, nonce1>> = <<op2, request2, nonce2>>
           /\ now2 - now1 <= MaximumAge + 2 * ClockSkew
  <1>1. op1 = op2 /\ request1 = request2 /\ nonce1 = nonce2
    BY DEF Accepts, ValidateClaims
  <1>2. now2 <= a.exp + ClockSkew
    BY AssertionAssumption DEF Accepts, ValidateClaims, Dated
  <1>3. a.exp <= a.iat + MaximumAge
    BY AssertionAssumption DEF Accepts, ValidateClaims, Dated
  <1>4. a.iat <= now1 + ClockSkew
    BY DEF Accepts, ValidateClaims
  <1>5. now2 - now1 <= MaximumAge + 2 * ClockSkew
    BY <1>2, <1>3, <1>4, AssertionAssumption DEF Dated
  <1> QED
    BY <1>1, <1>5

=============================================================================

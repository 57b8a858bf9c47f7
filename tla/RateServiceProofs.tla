------------------------- MODULE RateServiceProofs -------------------------
(***************************************************************************)
(* Theorems about RateService, for any calls, series, days and answers of  *)
(* the provider: the order in which responses are recorded and the         *)
(* revisions they leave.  Neither depends on what a call holds, only on    *)
(* who holds a lease and what is locked, so a call is just a record here.  *)
(***************************************************************************)
EXTENDS RateService, TLAPS

CallFields == {"pc", "op", "series", "from", "to", "units", "i", "ready", "base",
               "batches", "reply", "inserts", "err", "got"}
RowFields == {"holder", "live", "due", "done", "fresh", "covered", "stamp"}

IsCall(v) == v = [f \in CallFields |-> v[f]]
IsRow(r) == r = [f \in RowFields |-> r[f]]
IsSequence(s) == \E S : s \in Seq(S)

Shapes ==
    /\ call = [c \in Callers |-> call[c]] /\ \A c \in Callers : IsCall(call[c])
    /\ row = [k \in Keys |-> row[k]] /\ \A k \in Keys : IsRow(row[k])
    /\ fetches \in Nat

\* A call that is about to record a response.
Recording(c) == call[c].pc \in {"insert", "commit"}

\* No row has a response fetched later than the last, and a call that records
\* one fetched it after the response of every row whose lease it still has:
\* nobody completes a row while another call is its holder.
StampsOK ==
    /\ \A k \in Keys : row[k].stamp \in 0..fetches
    /\ \A c \in Callers : Recording(c) =>
          /\ call[c].reply.stamp \in 1..fetches
          /\ \A k \in Keys : row[k].holder = c => row[k].stamp < call[c].reply.stamp

\* What an open transaction inserted still differs from the current revisions,
\* because no other can write the days it has locked.
InsertsOK(c) ==
    call[c].pc = "commit" =>
        /\ call[c].inserts \subseteq call[c].reply.obs
        /\ \A s \in Series, d \in Days : \A o \in call[c].inserts :
              o.series = s /\ o.day = d => Current(s, d) # o.value

LocksOK ==
    \A c, d \in Callers : c # d /\ call[c].pc = "commit" /\ call[d].pc = "commit" =>
        Coordinates(call[c].reply.obs) \cap Coordinates(call[d].reply.obs) = {}

RateInvariant ==
    /\ Shapes
    /\ StampsOK
    /\ \A s \in Series, d \in Days : IsSequence(history[s][d])
    /\ \A c \in Callers : InsertsOK(c)
    /\ LocksOK
    /\ RevisionsDiffer

-----------------------------------------------------------------------------
(* Steps that record nothing.                                               *)

\* Call c goes on to another place than a recording one.
GoesOn(c) ==
    \E v : /\ IsCall(v) /\ v.pc \notin {"insert", "commit"}
           /\ Becomes(c, v)

\* No row gets a response, and none goes to a call other than c.
RowsKept(c) ==
    /\ row' = [k \in Keys |-> row'[k]] /\ \A k \in Keys : IsRow(row'[k])
    /\ \A k \in Keys : /\ row'[k].stamp = row[k].stamp
                       /\ \/ row'[k].holder = row[k].holder
                          \/ row'[k].holder \in {c, NoCall}

LEMMA IdleShape == IsCall(Idle)
  BY DEF IsCall, CallFields, Idle

LEMMA FailsGoesOn ==
    ASSUME Shapes, NEW c \in Callers, NEW e, Fails(c, e)
    PROVE  GoesOn(c)
  <1>1. CASE call[c].op = "latest"
    <2>1. PICK v : v = [At(c, "fallback") EXCEPT !.err = e, !.ready = {}, !.batches = <<>>,
                                                 !.reply = NoReply, !.inserts = {}]
      OBVIOUS
    <2>2. IsCall(v) /\ v.pc = "fallback"
      BY <2>1 DEF Shapes, IsCall, CallFields, At
    <2>3. Becomes(c, v)
      BY <1>1, <2>1 DEF Fails
    <2> QED BY <2>2, <2>3 DEF GoesOn
  <1>2. CASE call[c].op # "latest"
    <2>1. PICK v : v = Failed(c, e)
      OBVIOUS
    <2>2. IsCall(v) /\ v.pc = "done"
      BY <2>1, IdleShape DEF Failed, IsCall, CallFields
    <2>3. Becomes(c, v)
      BY <1>2, <2>1 DEF Fails
    <2> QED BY <2>2, <2>3 DEF GoesOn
  <1> QED BY <1>1, <1>2

LEMMA GiveUpGoesOn ==
    ASSUME Shapes, NEW c \in Callers, GiveUp(c)
    PROVE  GoesOn(c)
  <1>1. CASE call[c].err = "cold"
    <2>1. PICK v : v = [At(c, "states") EXCEPT !.got = {}, !.ready = {}, !.err = "none"]
      OBVIOUS
    <2>2. IsCall(v) /\ v.pc = "states"
      BY <2>1 DEF Shapes, IsCall, CallFields, At
    <2>3. Becomes(c, v)
      BY <1>1, <2>1 DEF GiveUp
    <2> QED BY <2>2, <2>3 DEF GoesOn
  <1>2. CASE call[c].err # "cold"
    <2>1. PICK v : v = Failed(c, call[c].err)
      OBVIOUS
    <2>2. IsCall(v) /\ v.pc = "done"
      BY <2>1, IdleShape DEF Failed, IsCall, CallFields
    <2>3. Becomes(c, v)
      BY <1>2, <2>1 DEF GiveUp
    <2> QED BY <2>2, <2>3 DEF GoesOn
  <1> QED BY <1>1, <1>2

LEMMA BeginGoesOn ==
    ASSUME Shapes, NEW c \in Callers, Begin(c)
    PROVE  GoesOn(c)
  <1>1. PICK q, series, valid, units :
          Becomes(c, IF ~valid
                     THEN [Idle EXCEPT !.pc = "done", !.op = q.op, !.err = "invalid"]
                     ELSE [Idle EXCEPT
                 !.op = q.op, !.series = series, !.from = q.from, !.to = q.to,
                 !.units = units,
                 !.pc = IF units = <<>> THEN "read"
                        ELSE IF q.op = "revalidate" THEN "baseline" ELSE "states"])
    BY DEF Begin
  <1>2. PICK place \in {"read", "baseline", "states"} :
          place = IF units = <<>> THEN "read"
                  ELSE IF q.op = "revalidate" THEN "baseline" ELSE "states"
    OBVIOUS
  <1>3. PICK v : v = IF ~valid
                     THEN [Idle EXCEPT !.pc = "done", !.op = q.op, !.err = "invalid"]
                     ELSE [Idle EXCEPT !.op = q.op, !.series = series, !.from = q.from,
                                       !.to = q.to, !.units = units, !.pc = place]
    OBVIOUS
  <1>4. IsCall(v) /\ v.pc \in {"done", place}
    BY <1>3, IdleShape DEF IsCall, CallFields
  <1>5. Becomes(c, v)
    BY <1>1, <1>2, <1>3
  <1> QED BY <1>2, <1>4, <1>5 DEF GoesOn

LEMMA StatesGoOn ==
    ASSUME Shapes, NEW c \in Callers, ReadBaseline(c) \/ ReadState(c) \/ ReadFlag(c)
    PROVE  GoesOn(c)
  <1>1. CASE ReadBaseline(c)
    <2>1. PICK next, last : /\ \E b : next = [call[c] EXCEPT !.base = b]
                            /\ Becomes(c, IF last THEN [next EXCEPT !.i = @ + 1]
                                          ELSE [next EXCEPT !.pc = "states", !.i = 1])
      <3>1. PICK k : k = call[c].units[call[c].i].key
        OBVIOUS
      <3>2. PICK b : b = [call[c].base EXCEPT ![k] = row[k].done]
        OBVIOUS
      <3>3. [call[c] EXCEPT !.base[k] = row[k].done] = [call[c] EXCEPT !.base = b]
        BY <3>2 DEF Shapes, IsCall, CallFields
      <3>4. PICK last : last = (call[c].i < Len(call[c].units))
        OBVIOUS
      <3>5. Becomes(c, IF last THEN [[call[c] EXCEPT !.base = b] EXCEPT !.i = @ + 1]
                       ELSE [[call[c] EXCEPT !.base = b] EXCEPT !.pc = "states", !.i = 1])
        BY <1>1, <3>1, <3>3, <3>4 DEF ReadBaseline
      <3> QED BY <3>4, <3>5
    <2>2. IsCall(next) /\ next.pc = "baseline"
      BY <1>1, <2>1 DEF ReadBaseline, Shapes, IsCall, CallFields
    <2>3. PICK v : v = IF last THEN [next EXCEPT !.i = @ + 1]
                       ELSE [next EXCEPT !.pc = "states", !.i = 1]
      OBVIOUS
    <2>4. IsCall(v) /\ v.pc \in {"baseline", "states"}
      BY <2>2, <2>3 DEF IsCall, CallFields
    <2> QED BY <2>1, <2>3, <2>4 DEF GoesOn
  <1>2. CASE ReadState(c)
    <2>1. PICK ready :
            Becomes(c, IF call[c].i < Len(call[c].units)
                       THEN [call[c] EXCEPT !.i = @ + 1, !.ready = ready]
                       ELSE [At(c, IF KeysOf(call[c].units) \subseteq ready
                                   THEN "read" ELSE "claim") EXCEPT !.ready = ready])
      BY <1>2 DEF ReadState
    <2>2. PICK v : v = IF call[c].i < Len(call[c].units)
                       THEN [call[c] EXCEPT !.i = @ + 1, !.ready = ready]
                       ELSE [At(c, IF KeysOf(call[c].units) \subseteq ready
                                   THEN "read" ELSE "claim") EXCEPT !.ready = ready]
      OBVIOUS
    <2>3. IsCall(v) /\ v.pc \in {"states", "read", "claim"}
      BY <1>2, <2>2 DEF ReadState, At, Shapes, IsCall, CallFields
    <2> QED BY <2>1, <2>2, <2>3 DEF GoesOn
  <1>3. CASE ReadFlag(c)
    <2>1. PICK ready, last :
            Becomes(c, IF last THEN [[call[c] EXCEPT !.ready = ready] EXCEPT !.i = @ + 1]
                       ELSE [[call[c] EXCEPT !.ready = ready] EXCEPT !.pc = "done", !.i = 1])
      BY <1>3 DEF ReadFlag
    <2>2. PICK v : v = IF last THEN [[call[c] EXCEPT !.ready = ready] EXCEPT !.i = @ + 1]
                       ELSE [[call[c] EXCEPT !.ready = ready] EXCEPT !.pc = "done", !.i = 1]
      OBVIOUS
    <2>3. IsCall(v) /\ v.pc \in {"flags", "done"}
      BY <1>3, <2>2 DEF ReadFlag, Shapes, IsCall, CallFields
    <2> QED BY <2>1, <2>2, <2>3 DEF GoesOn
  <1> QED BY <1>1, <1>2, <1>3

LEMMA ReadsGoOn ==
    ASSUME Shapes, NEW c \in Callers, ReadFallback(c) \/ ReadLatest(c) \/ ReadRange(c)
    PROVE  GoesOn(c)
  <1>1. CASE ReadFallback(c)
    <2>1. PICK got : \/ Becomes(c, [call[c] EXCEPT !.i = @ + 1, !.got = got])
                     \/ Becomes(c, [At(c, "flags") EXCEPT !.got = got])
                     \/ GiveUp(c)
      BY <1>1 DEF ReadFallback
    <2>2. CASE GiveUp(c)
      BY <2>2, GiveUpGoesOn
    <2>3. CASE Becomes(c, [call[c] EXCEPT !.i = @ + 1, !.got = got])
      <3>1. PICK v : v = [call[c] EXCEPT !.i = @ + 1, !.got = got]
        OBVIOUS
      <3>2. IsCall(v) /\ v.pc = "fallback"
        BY <1>1, <3>1 DEF ReadFallback, Shapes, IsCall, CallFields
      <3> QED BY <2>3, <3>1, <3>2 DEF GoesOn
    <2>4. CASE Becomes(c, [At(c, "flags") EXCEPT !.got = got])
      <3>1. PICK v : v = [At(c, "flags") EXCEPT !.got = got]
        OBVIOUS
      <3>2. IsCall(v) /\ v.pc = "flags"
        BY <3>1 DEF At, Shapes, IsCall, CallFields
      <3> QED BY <2>4, <3>1, <3>2 DEF GoesOn
    <2> QED BY <2>1, <2>2, <2>3, <2>4
  <1>2. CASE ReadLatest(c)
    <2>1. PICK got, last :
            Becomes(c, IF last THEN [[call[c] EXCEPT !.got = got] EXCEPT !.i = @ + 1]
                       ELSE [[call[c] EXCEPT !.got = got] EXCEPT !.pc = "done", !.i = 1])
      BY <1>2 DEF ReadLatest
    <2>2. PICK v : v = IF last THEN [[call[c] EXCEPT !.got = got] EXCEPT !.i = @ + 1]
                       ELSE [[call[c] EXCEPT !.got = got] EXCEPT !.pc = "done", !.i = 1]
      OBVIOUS
    <2>3. IsCall(v) /\ v.pc \in {"read", "done"}
      BY <1>2, <2>2 DEF ReadLatest, Shapes, IsCall, CallFields
    <2> QED BY <2>1, <2>2, <2>3 DEF GoesOn
  <1>3. CASE ReadRange(c)
    <2>1. PICK got : Becomes(c, [At(c, "done") EXCEPT !.got = got])
      BY <1>3 DEF ReadRange
    <2>2. PICK v : v = [At(c, "done") EXCEPT !.got = got]
      OBVIOUS
    <2>3. IsCall(v) /\ v.pc = "done"
      BY <2>2 DEF At, Shapes, IsCall, CallFields
    <2> QED BY <2>1, <2>2, <2>3 DEF GoesOn
  <1> QED BY <1>1, <1>2, <1>3

LEMMA ChecksGoOn ==
    ASSUME Shapes, NEW c \in Callers,
           CheckBlocked(c) \/ BlockProvider(c) \/ FallbackBreaks(c) \/ Interrupt(c)
    PROVE  GoesOn(c)
  <1>1. CASE CheckBlocked(c)
    <2>1. PICK v : v = IF blocked THEN [At(c, "fail") EXCEPT !.err = "limited"]
                       ELSE At(c, "fetch")
      OBVIOUS
    <2>2. IsCall(v) /\ v.pc \in {"fail", "fetch"}
      BY <2>1 DEF At, Shapes, IsCall, CallFields
    <2>3. Becomes(c, v)
      BY <1>1, <2>1 DEF CheckBlocked
    <2> QED BY <2>2, <2>3 DEF GoesOn
  <1>2. CASE BlockProvider(c)
    <2>1. PICK v : v = At(c, "fail")
      OBVIOUS
    <2>2. IsCall(v) /\ v.pc = "fail"
      BY <2>1 DEF At, Shapes, IsCall, CallFields
    <2>3. Becomes(c, v)
      BY <1>2, <2>1 DEF BlockProvider
    <2> QED BY <2>2, <2>3 DEF GoesOn
  <1>3. CASE FallbackBreaks(c)
    BY <1>3, GiveUpGoesOn DEF FallbackBreaks
  <1>4. CASE Interrupt(c)
    <2>1. CASE Becomes(c, Failed(c, "interrupted"))
      <3>1. PICK v : v = Failed(c, "interrupted")
        OBVIOUS
      <3>2. IsCall(v) /\ v.pc = "done"
        BY <3>1, IdleShape DEF Failed, IsCall, CallFields
      <3> QED BY <2>1, <3>1, <3>2 DEF GoesOn
    <2>2. CASE Fails(c, "interrupted")
      BY <2>2, FailsGoesOn
    <2> QED BY <1>4, <2>1, <2>2 DEF Interrupt
  <1> QED BY <1>1, <1>2, <1>3, <1>4

-----------------------------------------------------------------------------
(* What a step leaves alone.                                                *)

LEMMA CallChanges ==
    ASSUME Shapes, NEW c \in Callers, NEW v, IsCall(v), Becomes(c, v)
    PROVE  /\ call' = [d \in Callers |-> call'[d]] /\ \A d \in Callers : IsCall(call'[d])
           /\ call'[c] = v
           /\ \A d \in Callers \ {c} : call'[d] = call[d]
  BY DEF Shapes, Becomes

LEMMA QuietStep ==
    ASSUME RateInvariant, NEW c \in Callers, GoesOn(c), RowsKept(c),
           fetches' = fetches, history' = history
    PROVE  RateInvariant'
  <1>1. PICK v : IsCall(v) /\ v.pc \notin {"insert", "commit"} /\ Becomes(c, v)
    BY DEF GoesOn
  <1>2. Shapes
    BY DEF RateInvariant
  <1>3. /\ call' = [d \in Callers |-> call'[d]] /\ \A d \in Callers : IsCall(call'[d])
        /\ call'[c] = v
        /\ \A d \in Callers \ {c} : call'[d] = call[d]
    BY <1>1, <1>2, CallChanges
  <1>4. Shapes'
    BY <1>2, <1>3 DEF Shapes, RowsKept
  <1>5. StampsOK'
    <2>1. \A k \in Keys : row'[k].stamp \in 0..fetches'
      BY DEF RateInvariant, StampsOK, RowsKept
    <2>2. ASSUME NEW d \in Callers, Recording(d)'
          PROVE  /\ d # c /\ call'[d] = call[d] /\ Recording(d)
                 /\ \A k \in Keys : row'[k].holder = d => row[k].holder = d
      <3>1. d # c /\ call'[d] = call[d]
        BY <1>1, <1>3, <2>2 DEF Recording
      <3>2. d # NoCall
        BY RateAssumption
      <3> QED BY <2>2, <3>1, <3>2 DEF Recording, RowsKept
    <2>3. ASSUME NEW d \in Callers, Recording(d)'
          PROVE  /\ call'[d].reply.stamp \in 1..fetches'
                 /\ \A k \in Keys : row'[k].holder = d => row'[k].stamp < call'[d].reply.stamp
      BY <2>2, <2>3 DEF RateInvariant, StampsOK, RowsKept
    <2> QED BY <2>1, <2>3 DEF StampsOK
  <1>6. \A d \in Callers : call'[d].pc = "commit" => call'[d] = call[d]
    BY <1>1, <1>3
  <1>7. \A s \in Series, d \in Days : Current(s, d)' = Current(s, d)
    BY DEF Current
  <1>8. \A d \in Callers : InsertsOK(d)'
    BY <1>6, <1>7 DEF RateInvariant, InsertsOK
  <1>9. LocksOK'
    BY <1>6 DEF RateInvariant, LocksOK
  <1>10. RevisionsDiffer' /\ \A s \in Series, d \in Days : IsSequence(history[s][d])'
    BY DEF RateInvariant, RevisionsDiffer, IsSequence
  <1> QED BY <1>4, <1>5, <1>8, <1>9, <1>10 DEF RateInvariant

LEMMA SameRows ==
    ASSUME Shapes, NEW c, row' = row
    PROVE  RowsKept(c)
  BY DEF Shapes, RowsKept

\* The steps of a call that leave the rows alone.
LEMMA ReadingStep ==
    ASSUME RateInvariant, NEW c \in Callers,
           \/ Begin(c) \/ ReadBaseline(c) \/ ReadState(c) \/ ReadFlag(c)
           \/ ReadFallback(c) \/ ReadLatest(c) \/ ReadRange(c)
           \/ CheckBlocked(c) \/ BlockProvider(c) \/ FallbackBreaks(c) \/ Interrupt(c)
    PROVE  RateInvariant'
  <1>1. Shapes
    BY DEF RateInvariant
  <1>2. GoesOn(c)
    BY <1>1, BeginGoesOn, StatesGoOn, ReadsGoOn, ChecksGoOn
  <1>3. row' = row /\ fetches' = fetches /\ history' = history
    BY DEF Begin, ReadBaseline, ReadState, ReadFlag, ReadFallback, ReadLatest, ReadRange,
           CheckBlocked, BlockProvider, FallbackBreaks, Interrupt, store, provider
  <1> QED BY <1>1, <1>2, <1>3, SameRows, QuietStep

LEMMA ClaimParts ==
    ASSUME Shapes, NEW c \in Callers, Claim(c)
    PROVE  RowsKept(c) /\ GoesOn(c)
  <1>1. Shapes
    OBVIOUS
  <1>2. PICK claimed :
          /\ row' = [k \in Keys |-> IF k \in KeysOf(claimed)
                                    THEN [row[k] EXCEPT !.holder = c, !.live = TRUE]
                                    ELSE row[k]]
          /\ IF claimed # <<>>
             THEN Becomes(c, [At(c, "check") EXCEPT
                                !.ready = {}, !.batches = MakeBatches(claimed)])
             ELSE IF AllLatest(call[c].units) THEN Fails(c, "cold")
             ELSE Becomes(c, [At(c, "states") EXCEPT !.ready = {}])
    BY DEF Claim
  <1>3. RowsKept(c)
    BY <1>1, <1>2 DEF Shapes, RowsKept, IsRow, RowFields
  <1>4. GoesOn(c)
    <2>1. CASE claimed # <<>>
      <3>1. PICK batches : batches = MakeBatches(claimed)
        OBVIOUS
      <3>2. PICK v : v = [At(c, "check") EXCEPT !.ready = {}, !.batches = batches]
        OBVIOUS
      <3>3. IsCall(v) /\ v.pc = "check"
        BY <1>1, <3>2 DEF At, Shapes, IsCall, CallFields
      <3> QED BY <1>2, <2>1, <3>1, <3>2, <3>3 DEF GoesOn
    <2>2. CASE Fails(c, "cold")
      BY <1>1, <2>2, FailsGoesOn
    <2>3. CASE Becomes(c, [At(c, "states") EXCEPT !.ready = {}])
      <3>1. PICK v : v = [At(c, "states") EXCEPT !.ready = {}]
        OBVIOUS
      <3>2. IsCall(v) /\ v.pc = "states"
        BY <1>1, <3>1 DEF At, Shapes, IsCall, CallFields
      <3> QED BY <2>3, <3>1, <3>2 DEF GoesOn
    <2> QED BY <1>2, <2>1, <2>2, <2>3
  <1> QED BY <1>3, <1>4

LEMMA ClaimStep ==
    ASSUME RateInvariant, NEW c \in Callers, Claim(c)
    PROVE  RateInvariant'
  <1>1. RowsKept(c) /\ GoesOn(c)
    BY ClaimParts DEF RateInvariant
  <1>2. fetches' = fetches /\ history' = history
    BY DEF Claim, provider
  <1> QED BY <1>1, <1>2, QuietStep

LEMMA FailUnitParts ==
    ASSUME Shapes, NEW c \in Callers, FailUnit(c)
    PROVE  RowsKept(c) /\ GoesOn(c)
  <1>1. Shapes
    OBVIOUS
  <1>2. PICK units, k :
          IF row[k].holder # c
          THEN Fails(c, "lost") /\ UNCHANGED row
          ELSE /\ row' = [row EXCEPT ![k].holder = NoCall, ![k].live = FALSE, ![k].due = FALSE]
               /\ IF call[c].i < Len(units)
                  THEN Becomes(c, [call[c] EXCEPT !.i = @ + 1])
                  ELSE Fails(c, call[c].err)
    BY DEF FailUnit
  <1>3. CASE row[k].holder # c
    BY <1>1, <1>2, <1>3, FailsGoesOn, SameRows
  <1>4. CASE row[k].holder = c
    <2>1. RowsKept(c)
      <3>1. row' = [row EXCEPT ![k] = [row[k] EXCEPT !.holder = NoCall, !.live = FALSE,
                                                     !.due = FALSE]]
        BY <1>1, <1>2, <1>4 DEF Shapes, IsRow, RowFields
      <3> QED BY <1>1, <3>1 DEF Shapes, RowsKept, IsRow, RowFields
    <2>2. GoesOn(c)
      <3>1. CASE Becomes(c, [call[c] EXCEPT !.i = @ + 1])
        <4>1. PICK v : v = [call[c] EXCEPT !.i = @ + 1]
          OBVIOUS
        <4>2. IsCall(v) /\ v.pc = "fail"
          BY <1>1, <4>1 DEF FailUnit, Shapes, IsCall, CallFields
        <4> QED BY <3>1, <4>1, <4>2 DEF GoesOn
      <3>2. CASE Fails(c, call[c].err)
        BY <1>1, <3>2, FailsGoesOn
      <3> QED BY <1>2, <1>4, <3>1, <3>2
    <2> QED BY <2>1, <2>2
  <1> QED BY <1>3, <1>4

LEMMA FailUnitStep ==
    ASSUME RateInvariant, NEW c \in Callers, FailUnit(c)
    PROVE  RateInvariant'
  <1>1. RowsKept(c) /\ GoesOn(c)
    BY FailUnitParts DEF RateInvariant
  <1>2. fetches' = fetches /\ history' = history
    BY DEF FailUnit, provider
  <1> QED BY <1>1, <1>2, QuietStep

-----------------------------------------------------------------------------
(* A response on its way into the store.                                    *)

\* A response gets a later stamp than anything recorded.
LEMMA FetchStep ==
    ASSUME RateInvariant, NEW c \in Callers, Fetch(c)
    PROVE  RateInvariant'
  <1>1. Shapes /\ row' = row /\ history' = history
    BY DEF RateInvariant, Fetch, store
  <1>2. PICK reply, e :
          \/ /\ reply.stamp = fetches + 1 /\ fetches' = fetches + 1
             /\ Becomes(c, [At(c, "insert") EXCEPT !.reply = reply])
          \/ Becomes(c, [At(c, "block") EXCEPT !.err = e]) /\ UNCHANGED provider
          \/ Becomes(c, [At(c, "fail") EXCEPT !.err = e]) /\ UNCHANGED provider
    BY DEF Fetch
  <1>3. ASSUME NEW place \in {"block", "fail"},
               Becomes(c, [At(c, place) EXCEPT !.err = e]), UNCHANGED provider
        PROVE  RateInvariant'
    <2>1. PICK v : v = [At(c, place) EXCEPT !.err = e]
      OBVIOUS
    <2>2. IsCall(v) /\ v.pc = place
      BY <1>1, <2>1 DEF At, Shapes, IsCall, CallFields
    <2>3. GoesOn(c)
      BY <1>3, <2>1, <2>2 DEF GoesOn
    <2>4. fetches' = fetches
      BY <1>3 DEF provider
    <2> QED BY <1>1, <2>3, <2>4, SameRows, QuietStep
  <1>4. CASE /\ reply.stamp = fetches + 1 /\ fetches' = fetches + 1
             /\ Becomes(c, [At(c, "insert") EXCEPT !.reply = reply])
    <2>1. PICK v : v = [At(c, "insert") EXCEPT !.reply = reply]
      OBVIOUS
    <2>2. IsCall(v) /\ v.pc = "insert" /\ v.reply = reply
      BY <1>1, <2>1 DEF At, Shapes, IsCall, CallFields
    <2>3. /\ call' = [d \in Callers |-> call'[d]] /\ \A d \in Callers : IsCall(call'[d])
          /\ call'[c] = v
          /\ \A d \in Callers \ {c} : call'[d] = call[d]
      BY <1>1, <1>4, <2>1, <2>2, CallChanges
    <2>4. fetches \in Nat /\ \A k \in Keys : row[k].stamp \in 0..fetches
      BY <1>1 DEF Shapes, RateInvariant, StampsOK
    <2>5. Shapes'
      BY <1>1, <1>4, <2>3, <2>4 DEF Shapes
    <2>6. StampsOK'
      <3>1. \A k \in Keys : row'[k].stamp \in 0..fetches'
        BY <1>1, <1>4, <2>4
      <3>2. ASSUME NEW d \in Callers \ {c}, Recording(d)'
            PROVE  /\ call'[d].reply.stamp \in 1..fetches'
                   /\ \A k \in Keys : row'[k].holder = d => row'[k].stamp < call'[d].reply.stamp
        <4>1. call'[d] = call[d] /\ Recording(d)
          BY <2>3, <3>2 DEF Recording
        <4>2. /\ call[d].reply.stamp \in 1..fetches
              /\ \A k \in Keys : row[k].holder = d => row[k].stamp < call[d].reply.stamp
          BY <4>1 DEF RateInvariant, StampsOK
        <4> QED BY <1>1, <1>4, <2>4, <4>1, <4>2
      <3>3. /\ call'[c].reply.stamp \in 1..fetches'
            /\ \A k \in Keys : row'[k].stamp < call'[c].reply.stamp
        BY <1>1, <1>4, <2>2, <2>3, <2>4
      <3> QED BY <3>1, <3>2, <3>3 DEF StampsOK
    <2>7. \A d \in Callers : call'[d].pc = "commit" => call'[d] = call[d]
      BY <2>2, <2>3
    <2>8. \A s \in Series, d \in Days : Current(s, d)' = Current(s, d)
      BY <1>1 DEF Current
    <2>9. LocksOK' /\ \A d \in Callers : InsertsOK(d)'
      BY <2>7, <2>8 DEF RateInvariant, InsertsOK, LocksOK
    <2>10. RevisionsDiffer' /\ \A s \in Series, d \in Days : IsSequence(history[s][d])'
      BY <1>1 DEF RateInvariant, RevisionsDiffer, IsSequence
    <2> QED BY <2>5, <2>6, <2>9, <2>10 DEF RateInvariant
  <1> QED BY <1>2, <1>3, <1>4

\* A transaction locks what it inserts before it compares.
LEMMA InsertStep ==
    ASSUME RateInvariant, NEW c \in Callers, Insert(c)
    PROVE  RateInvariant'
  <1>1. /\ Shapes /\ row' = row /\ history' = history /\ fetches' = fetches
        /\ call[c].pc = "insert"
    BY DEF RateInvariant, Insert, store, provider
  <1>2. CASE Fails(c, "lost") \/ Fails(c, "refused")
    BY <1>1, <1>2, FailsGoesOn, SameRows, QuietStep
  <1>3. CASE /\ Coordinates(call[c].reply.obs) \cap LockedBy(Callers \ {c}) = {}
             /\ Becomes(c, [At(c, "commit") EXCEPT !.inserts =
                    {o \in call[c].reply.obs : Current(o.series, o.day) # o.value}])
    <2>1. PICK inserts : inserts = {o \in call[c].reply.obs : Current(o.series, o.day) # o.value}
      OBVIOUS
    <2>2. PICK v : v = [At(c, "commit") EXCEPT !.inserts = inserts]
      OBVIOUS
    <2>3. IsCall(v) /\ v.pc = "commit" /\ v.reply = call[c].reply /\ v.inserts = inserts
      BY <1>1, <2>2 DEF At, Shapes, IsCall, CallFields
    <2>4. /\ call' = [d \in Callers |-> call'[d]] /\ \A d \in Callers : IsCall(call'[d])
          /\ call'[c] = v
          /\ \A d \in Callers \ {c} : call'[d] = call[d]
      BY <1>1, <1>3, <2>1, <2>2, <2>3, CallChanges
    <2>5. Shapes'
      BY <1>1, <2>4 DEF Shapes
    <2>6. \A d \in Callers : /\ call'[d].reply = call[d].reply
                             /\ Recording(d)' => Recording(d)
      BY <1>1, <2>3, <2>4 DEF Recording
    <2>7. StampsOK'
      BY <1>1, <2>6 DEF RateInvariant, StampsOK
    <2>8. \A s \in Series, d \in Days : Current(s, d)' = Current(s, d)
      BY <1>1 DEF Current
    <2>9. ASSUME NEW d \in Callers
          PROVE  InsertsOK(d)'
      <3>1. CASE d = c
        BY <2>1, <2>3, <2>4, <2>8, <3>1 DEF InsertsOK
      <3>2. CASE d # c
        BY <2>4, <2>8, <3>2 DEF RateInvariant, InsertsOK
      <3> QED BY <3>1, <3>2
    <2>10. LocksOK'
      <3>1. \A d \in Callers \ {c} : call[d].pc = "commit" =>
              Coordinates(call[c].reply.obs) \cap Coordinates(call[d].reply.obs) = {}
        BY <1>3 DEF LockedBy
      <3>2. ASSUME NEW d \in Callers, NEW e \in Callers, d # e,
                   call'[d].pc = "commit", call'[e].pc = "commit"
            PROVE  Coordinates(call[d].reply.obs) \cap Coordinates(call[e].reply.obs) = {}
        <4>1. CASE d = c
          BY <2>4, <3>1, <3>2, <4>1
        <4>2. CASE e = c
          BY <2>4, <3>1, <3>2, <4>2
        <4>3. CASE d # c /\ e # c
          BY <2>4, <3>2, <4>3 DEF RateInvariant, LocksOK
        <4> QED BY <4>1, <4>2, <4>3
      <3> QED BY <2>6, <3>2 DEF LocksOK, Coordinates
    <2>11. RevisionsDiffer' /\ \A s \in Series, d \in Days : IsSequence(history[s][d])'
      BY <1>1 DEF RateInvariant, RevisionsDiffer, IsSequence
    <2> QED BY <2>5, <2>7, <2>9, <2>10, <2>11 DEF RateInvariant
  <1> QED BY <1>2, <1>3 DEF Insert

\* Consecutive revisions differ after one that differs from the last.
LEMMA AppendRevision ==
    ASSUME NEW h, IsSequence(h), NEW x, h # <<>> => Last(h) # x,
           \A n \in 1..(Len(h) - 1) : h[n] # h[n + 1]
    PROVE  /\ IsSequence(Append(h, x))
           /\ \A n \in 1..(Len(Append(h, x)) - 1) : Append(h, x)[n] # Append(h, x)[n + 1]
  <1>1. PICK S : h \in Seq(S)
    BY DEF IsSequence
  <1>2. PICK T : T = S \cup {x}
    OBVIOUS
  <1>3. h \in Seq(T) /\ x \in T
    BY <1>1, <1>2
  <1>4. PICK g : g = Append(h, x)
    OBVIOUS
  <1>5. /\ g \in Seq(T) /\ Len(g) = Len(h) + 1 /\ Len(h) \in Nat
        /\ \A n \in 1..Len(h) : g[n] = h[n]
        /\ g[Len(h) + 1] = x
    BY <1>3, <1>4
  <1>6. ASSUME NEW n \in 1..(Len(g) - 1)
        PROVE  g[n] # g[n + 1]
    <2>1. CASE n < Len(h)
      <3>1. n \in 1..(Len(h) - 1) /\ n \in 1..Len(h) /\ n + 1 \in 1..Len(h)
        BY <1>5, <2>1
      <3> QED BY <1>5, <3>1
    <2>2. CASE n = Len(h)
      <3>1. h # <<>> /\ n \in 1..Len(h)
        BY <1>3, <1>5, <2>2
      <3>2. Last(h) # x /\ Last(h) = h[n]
        BY <2>2, <3>1 DEF Last
      <3> QED BY <1>5, <2>2, <3>1, <3>2
    <2> QED BY <1>5, <2>1, <2>2
  <1>7. IsSequence(g)
    BY <1>5 DEF IsSequence
  <1> QED BY <1>4, <1>6, <1>7

\* What a commit does to the calls, the rows and the revisions.
LEMMA CommitParts ==
    ASSUME Shapes, NEW c \in Callers, Commit(c), Owned(c)
    PROVE  /\ GoesOn(c)
           /\ row' = [k \in Keys |-> row'[k]] /\ \A k \in Keys : IsRow(row'[k])
           /\ \A k \in Keys :
                 \/ row'[k] = row[k]
                 \/ /\ row[k].holder = c
                    /\ row'[k].holder = NoCall /\ row'[k].stamp = call[c].reply.stamp
           /\ \A s \in Series, d \in Days :
                 \/ history'[s][d] = history[s][d]
                 \/ \E o \in call[c].inserts : /\ o.series = s /\ o.day = d
                                               /\ history'[s][d] = Append(history[s][d], o.value)
  <1>1. PICK batch : batch = call[c].batches[1]
    OBVIOUS
  <1>2. PICK request, unitOf, place :
          /\ place \in {"states", "fetch"}
          /\ history' = [s \in Series |-> [d \in Days |->
                IF {o \in call[c].inserts : o.series = s /\ o.day = d} = {} THEN history[s][d]
                ELSE Append(history[s][d],
                       (CHOOSE o \in {o \in call[c].inserts : o.series = s /\ o.day = d} :
                            TRUE).value)]]
          /\ row' = [k \in Keys |->
                IF k \in KeysOf(batch)
                THEN Completed(unitOf[k], row[k], request, call[c].reply.stamp)
                ELSE row[k]]
          /\ Becomes(c, [At(c, place) EXCEPT !.batches = Tail(@), !.reply = NoReply,
                                             !.inserts = {}])
    <2>1. PICK request : request = RequestForBatch(batch)
      OBVIOUS
    <2>2. PICK unitOf : unitOf = [k \in Keys |-> CHOOSE u \in ToSet(batch) : u.key = k]
      OBVIOUS
    <2>3. PICK place : place = IF Len(call[c].batches) = 1 THEN "states" ELSE "fetch"
      OBVIOUS
    <2>4. place \in {"states", "fetch"}
      BY <2>3
    <2>5. row' = [k \in Keys |->
                IF k \in KeysOf(batch)
                THEN Completed(unitOf[k], row[k], request, call[c].reply.stamp)
                ELSE row[k]]
      BY <1>1, <2>1, <2>2 DEF Commit
    <2>6. history' = [s \in Series |-> [d \in Days |->
                IF {o \in call[c].inserts : o.series = s /\ o.day = d} = {} THEN history[s][d]
                ELSE Append(history[s][d],
                       (CHOOSE o \in {o \in call[c].inserts : o.series = s /\ o.day = d} :
                            TRUE).value)]]
      BY DEF Commit
    <2>7. Becomes(c, [At(c, place) EXCEPT !.batches = Tail(@), !.reply = NoReply,
                                          !.inserts = {}])
      BY <2>3 DEF Commit
    <2> QED BY <2>4, <2>5, <2>6, <2>7
  <1>3. GoesOn(c)
    <2>1. PICK v : v = [At(c, place) EXCEPT !.batches = Tail(@), !.reply = NoReply,
                                            !.inserts = {}]
      OBVIOUS
    <2>2. IsCall(v) /\ v.pc = place
      BY <2>1 DEF At, Shapes, IsCall, CallFields
    <2> QED BY <1>2, <2>1, <2>2 DEF GoesOn
  <1>4. \A k \in Keys :
          /\ IsRow(row'[k])
          /\ \/ row'[k] = row[k]
             \/ /\ row[k].holder = c
                /\ row'[k].holder = NoCall /\ row'[k].stamp = call[c].reply.stamp
    <2> SUFFICES ASSUME NEW k \in Keys
                 PROVE  /\ IsRow(row'[k])
                        /\ \/ row'[k] = row[k]
                           \/ /\ row[k].holder = c
                              /\ row'[k].holder = NoCall
                              /\ row'[k].stamp = call[c].reply.stamp
      OBVIOUS
    <2>1. CASE k \in KeysOf(batch)
      <3>1. row'[k] = Completed(unitOf[k], row[k], request, call[c].reply.stamp)
        BY <1>2, <2>1
      <3>2. PICK fresh, covered : row'[k] =
              [holder |-> NoCall, live |-> FALSE, due |-> TRUE, done |-> row[k].done + 1,
               fresh |-> fresh, covered |-> covered, stamp |-> call[c].reply.stamp]
        BY <3>1 DEF Completed
      <3>3. IsRow(row'[k]) /\ row'[k].holder = NoCall /\ row'[k].stamp = call[c].reply.stamp
        BY <3>2 DEF IsRow, RowFields
      <3>4. row[k].holder = c
        BY <1>1, <2>1 DEF Owned
      <3> QED BY <3>3, <3>4
    <2>2. CASE k \notin KeysOf(batch)
      BY <1>2, <2>2 DEF Shapes
    <2> QED BY <2>1, <2>2
  <1>5. \A s \in Series, d \in Days :
          \/ history'[s][d] = history[s][d]
          \/ \E o \in call[c].inserts : /\ o.series = s /\ o.day = d
                                        /\ history'[s][d] = Append(history[s][d], o.value)
    <2> SUFFICES ASSUME NEW s \in Series, NEW d \in Days
                 PROVE  \/ history'[s][d] = history[s][d]
                        \/ \E o \in call[c].inserts :
                             /\ o.series = s /\ o.day = d
                             /\ history'[s][d] = Append(history[s][d], o.value)
      OBVIOUS
    <2>1. PICK new : new = {o \in call[c].inserts : o.series = s /\ o.day = d}
      OBVIOUS
    <2>2. history'[s][d] = IF new = {} THEN history[s][d]
                           ELSE Append(history[s][d], (CHOOSE o \in new : TRUE).value)
      BY <1>2, <2>1
    <2>3. new # {} => (CHOOSE o \in new : TRUE) \in new
      OBVIOUS
    <2> QED BY <2>1, <2>2, <2>3
  <1> QED BY <1>2, <1>3, <1>4, <1>5

LEMMA CommitStep ==
    ASSUME RateInvariant, NEW c \in Callers, Commit(c)
    PROVE  RateInvariant'
  <1>1. Shapes /\ fetches' = fetches /\ call[c].pc = "commit"
    BY DEF RateInvariant, Commit, provider
  <1>2. CASE ~Owned(c)
    <2>1. Fails(c, "lost") /\ row' = row /\ history' = history
      BY <1>2 DEF Commit
    <2> QED BY <1>1, <2>1, FailsGoesOn, SameRows, QuietStep
  <1>3. CASE Owned(c)
    <2>1. /\ GoesOn(c)
          /\ row' = [k \in Keys |-> row'[k]] /\ \A k \in Keys : IsRow(row'[k])
          /\ \A k \in Keys :
                \/ row'[k] = row[k]
                \/ /\ row[k].holder = c
                   /\ row'[k].holder = NoCall /\ row'[k].stamp = call[c].reply.stamp
          /\ \A s \in Series, d \in Days :
                \/ history'[s][d] = history[s][d]
                \/ \E o \in call[c].inserts : /\ o.series = s /\ o.day = d
                                              /\ history'[s][d] = Append(history[s][d], o.value)
      BY <1>1, <1>3, CommitParts
    <2>2. PICK v : IsCall(v) /\ v.pc \notin {"insert", "commit"} /\ Becomes(c, v)
      BY <2>1 DEF GoesOn
    <2>3. /\ call' = [d \in Callers |-> call'[d]] /\ \A d \in Callers : IsCall(call'[d])
          /\ call'[c] = v
          /\ \A d \in Callers \ {c} : call'[d] = call[d]
      BY <1>1, <2>2, CallChanges
    <2>4. Shapes'
      BY <1>1, <2>1, <2>3 DEF Shapes
    <2>5. call[c].reply.stamp \in 1..fetches /\ fetches \in Nat
      BY <1>1 DEF RateInvariant, StampsOK, Recording, Shapes
    <2>6. StampsOK'
      <3>1. \A k \in Keys : row'[k].stamp \in 0..fetches'
        BY <1>1, <2>1, <2>5 DEF RateInvariant, StampsOK
      <3>2. ASSUME NEW d \in Callers, Recording(d)'
            PROVE  /\ call'[d].reply.stamp \in 1..fetches'
                   /\ \A k \in Keys : row'[k].holder = d => row'[k].stamp < call'[d].reply.stamp
        <4>1. d # c /\ call'[d] = call[d] /\ Recording(d) /\ d # NoCall
          BY <2>2, <2>3, <3>2, RateAssumption DEF Recording
        <4>2. \A k \in Keys : row'[k].holder = d => row'[k] = row[k]
          BY <2>1, <4>1
        <4> QED BY <1>1, <4>1, <4>2 DEF RateInvariant, StampsOK
      <3> QED BY <3>1, <3>2 DEF StampsOK
    <2>7. \A d \in Callers : call'[d].pc = "commit" => d # c /\ call'[d] = call[d]
      BY <2>2, <2>3
    <2>8. LocksOK'
      BY <2>7 DEF RateInvariant, LocksOK
    <2>9. ASSUME NEW e \in Callers
          PROVE  InsertsOK(e)'
      <3> SUFFICES ASSUME call'[e].pc = "commit"
                   PROVE  /\ call'[e].inserts \subseteq call'[e].reply.obs
                          /\ \A s \in Series, d \in Days : \A o \in call'[e].inserts :
                                o.series = s /\ o.day = d => Current(s, d)' # o.value
        BY DEF InsertsOK
      <3>1. e # c /\ call'[e] = call[e]
        BY <2>7
      <3>2. /\ call[e].inserts \subseteq call[e].reply.obs
            /\ call[c].inserts \subseteq call[c].reply.obs
            /\ Coordinates(call[c].reply.obs) \cap Coordinates(call[e].reply.obs) = {}
        BY <1>1, <3>1 DEF RateInvariant, InsertsOK, LocksOK
      <3>3. ASSUME NEW s \in Series, NEW d \in Days, NEW o \in call[e].inserts,
                   o.series = s /\ o.day = d
            PROVE  Current(s, d)' # o.value
        <4>1. Current(s, d) # o.value
          BY <3>1, <3>3 DEF RateInvariant, InsertsOK
        <4>2. <<s, d>> \in Coordinates(call[e].reply.obs)
          BY <3>2, <3>3 DEF Coordinates
        <4>3. \A p \in call[c].inserts : ~(p.series = s /\ p.day = d)
          BY <3>2, <4>2 DEF Coordinates
        <4>4. history'[s][d] = history[s][d]
          BY <2>1, <4>3
        <4> QED BY <4>1, <4>4 DEF Current
      <3> QED BY <3>1, <3>2, <3>3
    <2>10. ASSUME NEW s \in Series, NEW d \in Days
           PROVE  /\ IsSequence(history'[s][d])
                  /\ \A n \in 1..(Len(history'[s][d]) - 1) :
                        history'[s][d][n] # history'[s][d][n + 1]
      <3>1. /\ IsSequence(history[s][d])
            /\ \A n \in 1..(Len(history[s][d]) - 1) : history[s][d][n] # history[s][d][n + 1]
        BY DEF RateInvariant, RevisionsDiffer
      <3>2. CASE history'[s][d] = history[s][d]
        BY <3>1, <3>2
      <3>3. ASSUME NEW o \in call[c].inserts, o.series = s, o.day = d,
                   history'[s][d] = Append(history[s][d], o.value)
            PROVE  /\ IsSequence(history'[s][d])
                   /\ \A n \in 1..(Len(history'[s][d]) - 1) :
                         history'[s][d][n] # history'[s][d][n + 1]
        <4>1. Current(s, d) # o.value
          BY <1>1, <3>3 DEF RateInvariant, InsertsOK
        <4>2. history[s][d] # <<>> => Last(history[s][d]) # o.value
          BY <4>1 DEF Current
        <4>3. PICK h, x : h = history[s][d] /\ x = o.value
          OBVIOUS
        <4>4. /\ IsSequence(Append(h, x))
              /\ \A n \in 1..(Len(Append(h, x)) - 1) : Append(h, x)[n] # Append(h, x)[n + 1]
          BY <3>1, <4>2, <4>3, AppendRevision
        <4> QED BY <3>3, <4>3, <4>4
      <3> QED BY <2>1, <3>2, <3>3
    <2>11. RevisionsDiffer' /\ \A s \in Series, d \in Days : IsSequence(history[s][d])'
      BY <2>10 DEF RevisionsDiffer
    <2> QED BY <2>4, <2>6, <2>8, <2>9, <2>11 DEF RateInvariant
  <1> QED BY <1>2, <1>3

-----------------------------------------------------------------------------
(* Time, and the theorems.                                                  *)

LEMMA ClockStep ==
    ASSUME RateInvariant, call' = call, history' = history, fetches' = fetches,
           row' = [k \in Keys |-> row'[k]],
           \A k \in Keys : /\ IsRow(row'[k])
                           /\ row'[k].stamp = row[k].stamp /\ row'[k].holder = row[k].holder
    PROVE  RateInvariant'
  <1>1. Shapes'
    BY DEF RateInvariant, Shapes
  <1>2. StampsOK'
    BY DEF RateInvariant, StampsOK, Recording
  <1>3. LocksOK' /\ \A c \in Callers : InsertsOK(c)'
    BY DEF RateInvariant, LocksOK, InsertsOK, Current
  <1>4. RevisionsDiffer' /\ \A s \in Series, d \in Days : IsSequence(history[s][d])'
    BY DEF RateInvariant, RevisionsDiffer, IsSequence
  <1> QED BY <1>1, <1>2, <1>3, <1>4 DEF RateInvariant

LEMMA TimeParts ==
    ASSUME Shapes,
           WaitsEnd \/ (\E k \in Keys : FreshnessEnds(k)) \/ NextDay \/ UNCHANGED vars
    PROVE  /\ call' = call /\ history' = history /\ fetches' = fetches
           /\ row' = [k \in Keys |-> row'[k]]
           /\ \A k \in Keys :
                 /\ IsRow(row'[k])
                 /\ row'[k].stamp = row[k].stamp /\ row'[k].holder = row[k].holder
  <1>1. call' = call /\ history' = history /\ fetches' = fetches
    BY DEF WaitsEnd, BlockEnds, LeaseLapses, BackoffEnds, FreshnessEnds, NextDay, vars,
           provider, store
  <1>2. \/ row' = row
        \/ \E k \in Keys : \/ row' = [row EXCEPT ![k].live = FALSE]
                           \/ row' = [row EXCEPT ![k].due = TRUE]
                           \/ row' = [row EXCEPT ![k].fresh = "over"]
    BY DEF WaitsEnd, BlockEnds, LeaseLapses, BackoffEnds, FreshnessEnds, NextDay, vars, store
  <1>3. /\ row' = [k \in Keys |-> row'[k]]
        /\ \A k \in Keys : /\ IsRow(row'[k])
                           /\ row'[k].stamp = row[k].stamp /\ row'[k].holder = row[k].holder
    BY <1>2 DEF Shapes, IsRow, RowFields
  <1> QED BY <1>1, <1>3

LEMMA InitRates == Init => RateInvariant
  <1> SUFFICES ASSUME Init
               PROVE  RateInvariant
    OBVIOUS
  <1>0. PICK v : v = CHOOSE x \in Values : TRUE
    OBVIOUS
  <1>1. PICK warm \in BOOLEAN :
          /\ row = [k \in Keys |-> IF warm /\ k.kind = "latest" /\ k.series \in WarmSeries
                                   THEN [NoRow EXCEPT !.done = 1, !.fresh = "live"]
                                   ELSE NoRow]
          /\ history = [s \in Series |-> [d \in Days |->
                           IF warm /\ s \in WarmSeries /\ d = 1 THEN <<v>> ELSE <<>>]]
          /\ call = [c \in Callers |-> Idle]
          /\ fetches = 0
    BY <1>0 DEF Init
  <1>2. \A k \in Keys : IsRow(row[k]) /\ row[k].stamp = 0
    BY <1>1 DEF IsRow, RowFields, NoRow
  <1>3. Shapes
    BY <1>1, <1>2, IdleShape DEF Shapes
  <1>4. \A c \in Callers : call[c].pc = "idle"
    BY <1>1 DEF Idle
  <1>5. StampsOK
    BY <1>1, <1>2, <1>4 DEF StampsOK, Recording
  <1>6. LocksOK /\ \A c \in Callers : InsertsOK(c)
    BY <1>4 DEF LocksOK, InsertsOK
  <1>7. ASSUME NEW s \in Series, NEW d \in Days
        PROVE  /\ IsSequence(history[s][d])
               /\ \A n \in 1..(Len(history[s][d]) - 1) : history[s][d][n] # history[s][d][n + 1]
    <2>1. history[s][d] = <<v>> \/ history[s][d] = <<>>
      BY <1>1
    <2>2. CASE history[s][d] = <<v>>
      <3>1. <<v>> \in Seq({v}) /\ Len(<<v>>) = 1
        OBVIOUS
      <3>2. IsSequence(history[s][d])
        BY <2>2, <3>1, Zenon DEF IsSequence
      <3>3. 1..(Len(history[s][d]) - 1) = {}
        BY <2>2
      <3> QED BY <3>2, <3>3
    <2>3. CASE history[s][d] = <<>>
      <3>1. <<>> \in Seq({v}) /\ Len(<<>>) = 0
        OBVIOUS
      <3> QED BY <2>3, <3>1 DEF IsSequence
    <2> QED BY <2>1, <2>2, <2>3
  <1> QED BY <1>3, <1>5, <1>6, <1>7 DEF RateInvariant, RevisionsDiffer

LEMMA NextRates == RateInvariant /\ [Next]_vars => RateInvariant'
  <1> SUFFICES ASSUME RateInvariant, [Next]_vars
               PROVE  RateInvariant'
    OBVIOUS
  <1>1. ASSUME NEW c \in Callers, Begin(c) \/ Step(c) \/ FallbackBreaks(c) \/ Interrupt(c)
        PROVE  RateInvariant'
    BY <1>1, ReadingStep, ClaimStep, FetchStep, FailUnitStep, InsertStep, CommitStep DEF Step
  <1>2. CASE WaitsEnd \/ (\E k \in Keys : FreshnessEnds(k)) \/ NextDay \/ UNCHANGED vars
    <2>1. Shapes
      BY DEF RateInvariant
    <2> QED BY <1>2, <2>1, TimeParts, ClockStep
  <1> QED BY <1>1, <1>2 DEF Next, Ended

LEMMA RatesKept == Spec => []RateInvariant
  BY InitRates, NextRates, PTL DEF Spec

\* Whatever completions of different work units run at once, and whatever the
\* provider corrects, no two consecutive revisions of a day of a series are
\* equal: the advisory locks of Complete make its comparison with the current
\* revision hold until the commit.
THEOREM NoRepeatedRevision == Spec => []RevisionsDiffer
  <1>1. RateInvariant => RevisionsDiffer
    BY DEF RateInvariant
  <1> QED BY <1>1, RatesKept, PTL

\* The response a work unit completes with is always one fetched later than the
\* last: a call whose lease went to another never records over it, because the
\* guard of Complete on lease_nonce and the claim's change of holder exclude it.
THEOREM ResponsesRecordedInOrder == Spec => ResponsesInOrder
  <1> DEFINE Later == \A k \in Keys :
                        row'[k].stamp # row[k].stamp => row'[k].stamp > row[k].stamp
  <1>1. RateInvariant /\ [Next]_vars => [Later]_vars
    <2> SUFFICES ASSUME RateInvariant, [Next]_vars
                 PROVE  Later
      OBVIOUS
    <2>1. Shapes
      BY DEF RateInvariant
    <2>2. ASSUME NEW c \in Callers, Begin(c) \/ Step(c) \/ FallbackBreaks(c) \/ Interrupt(c)
          PROVE  Later
      <3>1. CASE Claim(c) \/ FailUnit(c)
        BY <2>1, <3>1, ClaimParts, FailUnitParts DEF RowsKept
      <3>2. CASE Commit(c)
        <4>1. CASE ~Owned(c)
          BY <3>2, <4>1 DEF Commit
        <4>2. CASE Owned(c)
          <5>1. \A k \in Keys : \/ row'[k] = row[k]
                                \/ row[k].holder = c /\ row'[k].stamp = call[c].reply.stamp
            BY <2>1, <3>2, <4>2, CommitParts
          <5>2. /\ call[c].reply.stamp \in Int
                /\ \A k \in Keys : /\ row[k].stamp \in Int
                                   /\ row[k].holder = c => row[k].stamp < call[c].reply.stamp
            BY <3>2 DEF RateInvariant, StampsOK, Recording, Commit
          <5> QED BY <5>1, <5>2
        <4> QED BY <4>1, <4>2
      <3>3. CASE ~(Claim(c) \/ FailUnit(c) \/ Commit(c))
        <4>1. row' = row
          BY <2>2, <3>3 DEF Step, Begin, ReadBaseline, ReadState, ReadFlag, ReadFallback,
             ReadLatest, ReadRange, CheckBlocked, BlockProvider, FallbackBreaks, Interrupt,
             Fetch, Insert, store
        <4> QED BY <4>1
      <3> QED BY <3>1, <3>2, <3>3
    <2>3. CASE WaitsEnd \/ (\E k \in Keys : FreshnessEnds(k)) \/ NextDay \/ UNCHANGED vars
      BY <2>1, <2>3, TimeParts
    <2> QED BY <2>2, <2>3 DEF Next, Ended
  <1>2. Spec => [][Later]_vars
    BY <1>1, RatesKept, PTL DEF Spec
  <1> QED BY <1>2 DEF ResponsesInOrder

=============================================================================

------------------------ MODULE EventDeliveryProofs ------------------------
(***************************************************************************)
(* Theorems about EventDelivery, for every number of events, destinations, *)
(* immediate attempts and sweeps and every size of a batch.                *)
(***************************************************************************)
EXTENDS EventDelivery, FiniteSetTheorems, WellFoundedInduction, TLAPS

\* A set of naturals has a least element.
LEMMA LeastOf ==
    ASSUME NEW S \in SUBSET Nat, S # {}
    PROVE  Min(S) \in S /\ \A y \in S : Min(S) <= y
  <1>1. \E x \in S : \A y \in S : ~ (<<y, x>> \in OpToRel(<, Nat))
    BY NatLessThanWellFounded, WFMin
  <1>2. PICK x \in S : \A y \in S : ~ (<<y, x>> \in OpToRel(<, Nat))
    BY <1>1
  <1>3. ASSUME NEW y \in S PROVE x <= y
    <2>1. ~ (<<y, x>> \in {p \in Nat \X Nat : p[1] < p[2]})
      BY <1>2, Zenon DEF OpToRel
    <2>2. x \in Nat /\ y \in Nat
      OBVIOUS
    <2> QED BY <2>1, <2>2
  <1> QED BY <1>3 DEF Min

-----------------------------------------------------------------------------
(* Types.  A worker that visits a reference has one, and a destination.     *)

Attempting == {"publishing", "published", "failed"}
Visiting == {"visit"} \cup Attempting

WorkOK(w) ==
    /\ pc[w] \in {"scan", "count"} \cup Visiting => todo[w] # {}
    /\ pc[w] \in Visiting => batch[w] # {}

TypeInvariant == TypeOK /\ \A w \in Workers : WorkOK(w)

LEMMA KeysFinite == IsFiniteSet(Keys) /\ TallyBound \in Nat \ {0}
  <1>1. IsFiniteSet(Keys)
    BY DeliveryAssumption, FS_Product DEF Keys
  <1> QED BY <1>1, FS_CardinalityType DEF TallyBound

LEMMA WorkerType ==
    ASSUME NEW w \in Workers
    PROVE  w.events \subseteq Events /\ w.destinations \subseteq Destinations /\ w # Nobody
  BY DeliveryAssumption

\* Where a visiting worker is.
LEMMA CurrentType ==
    ASSUME TypeInvariant, NEW w \in Workers, pc[w] \in Visiting
    PROVE  /\ Current(w) \in Keys
           /\ Current(w) = <<Destination(w), Min(batch[w])>>
           /\ Destination(w) \in todo[w] /\ \A d \in todo[w] : Destination(w) <= d
           /\ Min(batch[w]) \in batch[w] /\ \A e \in batch[w] : Min(batch[w]) <= e
           /\ Min(batch[w]) \in Events /\ Destination(w) \in Destinations
  <1>1. /\ todo[w] \subseteq Destinations /\ todo[w] # {}
        /\ batch[w] \subseteq Events /\ batch[w] # {}
    BY DEF TypeInvariant, TypeOK, WorkOK
  <1>2. todo[w] \in SUBSET Nat /\ batch[w] \in SUBSET Nat
    BY <1>1, DeliveryAssumption
  <1>3. /\ Min(todo[w]) \in todo[w] /\ \A d \in todo[w] : Min(todo[w]) <= d
        /\ Min(batch[w]) \in batch[w] /\ \A e \in batch[w] : Min(batch[w]) <= e
    BY <1>1, <1>2, LeastOf
  <1> QED BY <1>1, <1>3 DEF Current, Destination, Keys

\* The three ways a worker changes a row.
RowIs(k, lease, live, due, by) ==
    /\ delivery' \in [Keys -> Rows]
    /\ delivery'[k].lease = lease /\ delivery'[k].live = live
    /\ delivery'[k].due = due /\ delivery'[k].by = by
    /\ \A j \in Keys \ {k} : delivery'[j] = delivery[j]

LEMMA ClaimedRow ==
    ASSUME delivery \in [Keys -> Rows], NEW k \in Keys, NEW w \in Workers,
           delivery' = [delivery EXCEPT ![k].lease = w, ![k].live = TRUE]
    PROVE  RowIs(k, w, TRUE, delivery[k].due, delivery[k].by)
  BY DEF RowIs, Rows

LEMMA DeliveredRow ==
    ASSUME delivery \in [Keys -> Rows], NEW k \in Keys, NEW w \in Workers,
           delivery' = [delivery EXCEPT ![k].by = w, ![k].lease = Nobody,
                                        ![k].live = FALSE]
    PROVE  RowIs(k, Nobody, FALSE, delivery[k].due, w)
  BY DEF RowIs, Rows

LEMMA FailedRow ==
    ASSUME delivery \in [Keys -> Rows], NEW k \in Keys,
           delivery' = [delivery EXCEPT ![k].lease = Nobody, ![k].live = FALSE,
                                        ![k].due = FALSE]
    PROVE  RowIs(k, Nobody, FALSE, FALSE, delivery[k].by)
  BY DEF RowIs, Rows

LEMMA LapsedRow ==
    ASSUME delivery \in [Keys -> Rows], NEW k \in Keys,
           delivery' = [delivery EXCEPT ![k].live = FALSE]
    PROVE  RowIs(k, delivery[k].lease, FALSE, delivery[k].due, delivery[k].by)
  BY DEF RowIs, Rows

LEMMA DueRow ==
    ASSUME delivery \in [Keys -> Rows], NEW k \in Keys,
           delivery' = [delivery EXCEPT ![k].due = TRUE]
    PROVE  RowIs(k, delivery[k].lease, delivery[k].live, TRUE, delivery[k].by)
  BY DEF RowIs, Rows

\* What a step of one worker leaves alone.
LEMMA WorkOfOne ==
    ASSUME TypeInvariant, NEW w \in Workers, Start(w) \/ Work(w) \/ Crash(w)
    PROVE  /\ committed' = committed
           /\ \A x \in Workers \ {w} :
                /\ pc'[x] = pc[x] /\ todo'[x] = todo[x] /\ batch'[x] = batch[x]
                /\ after'[x] = after[x] /\ tally'[x] = tally[x]
  <1> DEFINE Kept ==
        \A x \in Workers \ {w} :
           /\ pc'[x] = pc[x] /\ todo'[x] = todo[x] /\ batch'[x] = batch[x]
           /\ after'[x] = after[x]
  <1>1. ASSUME NEW c, Advance(w, c) PROVE Kept
    BY <1>1 DEF Advance, Goto, TypeInvariant, TypeOK
  <1>2. CASE Start(w) \/ Crash(w)
    BY <1>2 DEF Start, Crash, Goto, TypeInvariant, TypeOK
  <1>3. CASE NextDestination(w) \/ Scan(w) \/ FinishDestination(w)
    BY <1>3 DEF NextDestination, Scan, FinishDestination, Goto, TypeInvariant, TypeOK
  <1>4. CASE ClaimEvent(w)
    BY <1>1, <1>4 DEF ClaimEvent, Goto, TypeInvariant, TypeOK
  <1>5. CASE Publish(w)
    BY <1>5 DEF Publish, Goto, TypeInvariant, TypeOK
  <1>6. CASE MarkEventDelivered(w) \/ MarkEventFailed(w)
    <2>1. Kept /\ committed' = committed
      BY <1>1, <1>6 DEF MarkEventDelivered, MarkEventFailed
    <2>2. \A x \in Workers \ {w} : tally'[x] = tally[x]
      BY <1>6 DEF MarkEventDelivered, MarkEventFailed, Delivered, Failed, TypeInvariant, TypeOK
    <2> QED BY <2>1, <2>2
  <1> QED BY <1>2, <1>3, <1>4, <1>5, <1>6 DEF Work

\* The types of what a worker keeps for itself.
LoopOK ==
    /\ pc \in [Workers -> Phases]
    /\ todo \in [Workers -> SUBSET Destinations]
    /\ batch \in [Workers -> SUBSET Events]
    /\ full \in [Workers -> BOOLEAN]
    /\ after \in [Workers -> Events \cup {0}]
    /\ claimedAny \in [Workers -> BOOLEAN]
    /\ \A w \in Workers : WorkOK(w)

\* The types of what workers share.
SharedOK ==
    /\ delivery \in [Keys -> Rows]
    /\ tally \in [Workers -> [delivered : 0 .. TallyBound, failed : 0 .. TallyBound]]
    /\ accepted \in [Keys -> 0 .. 2]
    /\ disturbed \in SUBSET Keys
    /\ \A k \in Keys : delivery[k].lease # Nobody => delivery[k].by = Nobody

LEMMA TypeParts ==
    TypeInvariant <=> LoopOK /\ SharedOK /\ committed \subseteq Events
                             /\ owed \in [Workers -> SUBSET Keys]
  BY DEF TypeInvariant, TypeOK, LoopOK, SharedOK

LEMMA AdvanceLoop ==
    ASSUME TypeInvariant, NEW w \in Workers, pc[w] \in Visiting,
           NEW c \in BOOLEAN, Advance(w, c)
    PROVE  /\ LoopOK'
           /\ pc'[w] \in {"visit", "scan", "count"}
           /\ after'[w] = Min(batch[w]) /\ batch'[w] = batch[w] \ {Min(batch[w])}
           /\ todo' = todo
  <1>1. Min(batch[w]) \in Events /\ todo[w] # {}
    BY CurrentType DEF TypeInvariant, WorkOK, Visiting
  <1>2. /\ pc' \in [Workers -> Phases] /\ todo' = todo /\ full' = full
        /\ batch' = [batch EXCEPT ![w] = batch[w] \ {Min(batch[w])}]
        /\ after' = [after EXCEPT ![w] = Min(batch[w])]
        /\ claimedAny' \in [Workers -> BOOLEAN]
    BY DEF Advance, Goto, TypeInvariant, TypeOK, Phases
  <1>3. /\ batch' \in [Workers -> SUBSET Events] /\ after' \in [Workers -> Events \cup {0}]
        /\ after'[w] = Min(batch[w]) /\ batch'[w] = batch[w] \ {Min(batch[w])}
    BY <1>1, <1>2 DEF TypeInvariant, TypeOK
  <1>4. /\ pc'[w] \in {"visit", "scan", "count"}
        /\ pc'[w] = "visit" => batch'[w] # {}
    BY <1>3 DEF Advance, Goto, TypeInvariant, TypeOK
  <1>5. WorkOK(w)'
    BY <1>1, <1>2, <1>4 DEF WorkOK, Visiting, Attempting
  <1>6. ASSUME NEW x \in Workers \ {w} PROVE WorkOK(x)'
    BY <1>2 DEF WorkOK, TypeInvariant, TypeOK, Advance, Goto
  <1> QED BY <1>2, <1>3, <1>4, <1>5, <1>6 DEF LoopOK, TypeInvariant, TypeOK

LEMMA WorkLoop ==
    ASSUME TypeInvariant, NEW w \in Workers, Start(w) \/ Work(w) \/ Crash(w)
    PROVE  LoopOK'
  <1>1. ASSUME NEW x \in Workers \ {w} PROVE WorkOK(x)'
    BY WorkOfOne DEF WorkOK, TypeInvariant
  <1>2. LoopOK /\ WorkOK(w)
    BY TypeParts DEF TypeInvariant
  <1>3. CASE Start(w) \/ Crash(w)
    <2>1. WorkOK(w)'
      BY <1>2, <1>3 DEF WorkOK, Start, Crash, Goto, LoopOK, Visiting, Attempting
    <2> QED BY <1>1, <1>2, <1>3, <2>1 DEF LoopOK, Start, Crash, Goto, Phases
  <1>4. CASE NextDestination(w)
    <2>1. WorkOK(w)'
      BY <1>2, <1>4
         DEF WorkOK, NextDestination, Goto, LoopOK, Visiting, Attempting, Sweeps
    <2> QED BY <1>1, <1>2, <1>4, <2>1, WorkerType
            DEF LoopOK, NextDestination, Goto, Phases
  <1>5. CASE Scan(w)
    <2>1. PendingEvents(w) \in SUBSET Events
      BY DEF PendingEvents, TypeInvariant, TypeOK
    <2>2. WorkOK(w)'
      BY <1>2, <1>5, <2>1 DEF WorkOK, Scan, Goto, LoopOK, Visiting, Attempting
    <2> DEFINE filled == Cardinality(PendingEvents(w)) = BatchSize
    <2>3. filled \in BOOLEAN
      OBVIOUS
    <2>4. full' = full \/ full' = [full EXCEPT ![w] = filled]
      BY <1>5 DEF Scan
    <2> HIDE DEF filled
    <2>5. full' \in [Workers -> BOOLEAN]
      BY <1>2, <2>3, <2>4 DEF LoopOK
    <2>6. /\ pc' \in [Workers -> Phases] /\ todo' = todo /\ after' = after
          /\ batch' \in [Workers -> SUBSET Events] /\ claimedAny' \in [Workers -> BOOLEAN]
      <3>1. /\ todo' = todo /\ after' = after
            /\ \/ /\ pc' = [pc EXCEPT ![w] = IF PendingEvents(w) = {} THEN "count" ELSE "visit"]
                  /\ batch' = [batch EXCEPT ![w] = PendingEvents(w)]
                  /\ claimedAny' = [claimedAny EXCEPT ![w] = FALSE]
               \/ /\ pc' = [pc EXCEPT ![w] = "stopped"]
                  /\ batch' = batch /\ claimedAny' = claimedAny
        BY <1>5, Zenon DEF Scan, Goto
      <3> QED BY <1>2, <2>1, <3>1 DEF LoopOK, Phases
    <2> QED BY <1>1, <1>2, <2>2, <2>5, <2>6 DEF LoopOK
  <1>6. CASE ClaimEvent(w)
    <2>1. pc[w] \in Visiting
      BY <1>6 DEF ClaimEvent, Visiting
    <2>2. CASE Advance(w, FALSE)
      BY <2>1, <2>2, AdvanceLoop
    <2>3. CASE ~ Advance(w, FALSE)
      <3>1. /\ UNCHANGED <<todo, batch, full, after, claimedAny>>
            /\ \/ pc' = [pc EXCEPT ![w] = "publishing"]
               \/ pc' = [pc EXCEPT ![w] = "stopped"]
               \/ pc' = [pc EXCEPT ![w] = "count"]
        BY <1>6, <2>3 DEF ClaimEvent, Goto
      <3>2. WorkOK(w)'
        BY <1>2, <2>1, <3>1 DEF WorkOK, LoopOK
      <3> QED BY <1>1, <1>2, <3>1, <3>2 DEF LoopOK, Phases
    <2> QED BY <2>2, <2>3
  <1>7. CASE Publish(w)
    <2>1. /\ UNCHANGED <<todo, batch, full, after, claimedAny>> /\ pc[w] \in Visiting
          /\ pc' = [pc EXCEPT ![w] = "published"] \/ pc' = [pc EXCEPT ![w] = "failed"]
      BY <1>7 DEF Publish, Goto, Visiting, Attempting
    <2>2. WorkOK(w)'
      BY <1>2, <2>1 DEF WorkOK, LoopOK
    <2> QED BY <1>1, <1>2, <2>1, <2>2 DEF LoopOK, Phases
  <1>8. CASE MarkEventDelivered(w) \/ MarkEventFailed(w)
    <2>1. pc[w] \in Visiting /\ Advance(w, TRUE)
      BY <1>8 DEF MarkEventDelivered, MarkEventFailed, Visiting, Attempting
    <2> QED BY <2>1, AdvanceLoop
  <1>9. CASE FinishDestination(w)
    <2>1. WorkOK(w)'
      BY <1>2, <1>9 DEF WorkOK, FinishDestination, Goto, LoopOK, Visiting, Attempting
    <2> QED BY <1>1, <1>2, <1>9, <2>1 DEF LoopOK, FinishDestination, Goto, Phases
  <1> QED BY <1>3, <1>4, <1>5, <1>6, <1>7, <1>8, <1>9 DEF Work

LEMMA CountedType ==
    ASSUME NEW b \in Nat, NEW n \in 0 .. b
    PROVE  /\ Counted(n, b) \in 0 .. b /\ Counted(n, b) \in Nat
           /\ Counted(n, b) <= n + 1
  BY DEF Counted

\* A step of a worker updates the tally of that worker by one at most.
TallyIs(w, d, f) ==
    /\ tally' \in [Workers -> [delivered : 0 .. TallyBound, failed : 0 .. TallyBound]]
    /\ tally'[w].delivered = d /\ tally'[w].failed = f

LEMMA DeliveredTally ==
    ASSUME TypeInvariant, NEW w \in Workers, Delivered(w)
    PROVE  TallyIs(w, Counted(tally[w].delivered, TallyBound), tally[w].failed)
  <1>1. tally[w].delivered \in 0 .. TallyBound
    BY DEF TypeInvariant, TypeOK
  <1>2. Counted(tally[w].delivered, TallyBound) \in 0 .. TallyBound
    BY <1>1, KeysFinite, CountedType
  <1> QED BY <1>2 DEF TallyIs, Delivered, TypeInvariant, TypeOK

LEMMA FailedTally ==
    ASSUME TypeInvariant, NEW w \in Workers, Failed(w)
    PROVE  TallyIs(w, tally[w].delivered, Counted(tally[w].failed, TallyBound))
  <1>1. tally[w].failed \in 0 .. TallyBound
    BY DEF TypeInvariant, TypeOK
  <1>2. Counted(tally[w].failed, TallyBound) \in 0 .. TallyBound
    BY <1>1, KeysFinite, CountedType
  <1> QED BY <1>2 DEF TallyIs, Failed, TypeInvariant, TypeOK

\* What a claim does, if anything: a row that is free becomes w's.
ClaimedBy(w, k) ==
    /\ delivery[k].by = Nobody /\ ~ Leased(delivery[k])
    /\ RowIs(k, w, TRUE, delivery[k].due, delivery[k].by)

\* A worker records an outcome only in a row whose lease is its own.
DeliveredBy(w, k) == Holds(w, k) /\ RowIs(k, Nobody, FALSE, delivery[k].due, w)
FailedBy(w, k) == Holds(w, k) /\ RowIs(k, Nobody, FALSE, FALSE, delivery[k].by)

LEMMA ClaimStep ==
    ASSUME TypeInvariant, NEW w \in Workers, ClaimEvent(w)
    PROVE  /\ pc[w] = "visit" /\ Current(w) \in Keys
           /\ UNCHANGED <<committed, tally, accepted, disturbed>>
           /\ \/ /\ ClaimedBy(w, Current(w))
                 /\ pc'[w] \in {"publishing", "stopped", "count"}
                 /\ UNCHANGED <<todo, batch, after>>
              \/ /\ UNCHANGED <<delivery, todo, batch, after>>
                 /\ pc'[w] \in {"stopped", "count"}
              \/ UNCHANGED delivery /\ Advance(w, FALSE)
  <1> DEFINE k == Current(w)
  <1>1. /\ pc[w] = "visit" /\ UNCHANGED <<committed, tally, accepted, disturbed>>
    BY DEF ClaimEvent
  <1>2. k \in Keys
    BY <1>1, CurrentType DEF Visiting
  <1>3. ASSUME NEW f, Claimable(k, f),
               delivery' = [delivery EXCEPT ![k].lease = w, ![k].live = TRUE]
        PROVE  ClaimedBy(w, k)
    BY <1>2, <1>3, ClaimedRow DEF ClaimedBy, Claimable, TypeInvariant, TypeOK
  <1> HIDE DEF k
  <1>4. \A p : Goto(w, p) => pc'[w] = p
    BY DEF Goto, TypeInvariant, TypeOK
  <1> QED BY <1>1, <1>2, <1>3, <1>4 DEF ClaimEvent, k

LEMMA DeliveredStep ==
    ASSUME TypeInvariant, NEW w \in Workers, MarkEventDelivered(w)
    PROVE  /\ pc[w] = "published" /\ Current(w) \in Keys
           /\ UNCHANGED <<committed, accepted, disturbed>>
           /\ Advance(w, TRUE)
           /\ \/ DeliveredBy(w, Current(w)) /\ Delivered(w)
              \/ DeliveredBy(w, Current(w)) /\ Failed(w)
              \/ UNCHANGED delivery /\ Failed(w)
  <1> DEFINE k == Current(w)
  <1>1. /\ pc[w] = "published" /\ UNCHANGED <<committed, accepted, disturbed>>
        /\ Advance(w, TRUE)
    BY DEF MarkEventDelivered
  <1>2. k \in Keys
    BY <1>1, CurrentType DEF Visiting, Attempting
  <1>3. ASSUME Holds(w, k), delivery' = [delivery EXCEPT ![k].by = w, ![k].lease = Nobody,
                                            ![k].live = FALSE]
        PROVE  DeliveredBy(w, k)
    BY <1>2, <1>3, DeliveredRow DEF DeliveredBy, TypeInvariant, TypeOK
  <1> HIDE DEF k
  <1> QED BY <1>1, <1>2, <1>3 DEF MarkEventDelivered, k

LEMMA FailedStep ==
    ASSUME TypeInvariant, NEW w \in Workers, MarkEventFailed(w)
    PROVE  /\ pc[w] = "failed" /\ Current(w) \in Keys
           /\ UNCHANGED <<committed, accepted, disturbed>>
           /\ Advance(w, TRUE) /\ Failed(w)
           /\ FailedBy(w, Current(w)) \/ UNCHANGED delivery
  <1> DEFINE k == Current(w)
  <1>1. /\ pc[w] = "failed" /\ UNCHANGED <<committed, accepted, disturbed>>
        /\ Advance(w, TRUE) /\ Failed(w)
    BY DEF MarkEventFailed
  <1>2. k \in Keys
    BY <1>1, CurrentType DEF Visiting, Attempting
  <1>3. ASSUME Holds(w, k), delivery' = [delivery EXCEPT ![k].lease = Nobody,
                                              ![k].live = FALSE, ![k].due = FALSE]
        PROVE  FailedBy(w, k)
    BY <1>2, <1>3, FailedRow DEF FailedBy, TypeInvariant, TypeOK
  <1> HIDE DEF k
  <1> QED BY <1>1, <1>2, <1>3 DEF MarkEventFailed, k

LEMMA PublishStep ==
    ASSUME TypeInvariant, NEW w \in Workers, Publish(w)
    PROVE  /\ pc[w] = "publishing" /\ Current(w) \in Keys
           /\ UNCHANGED <<committed, delivery, todo, batch, after, tally>>
           /\ accepted' \in [Keys -> 0 .. 2] /\ disturbed' \in SUBSET Keys
           /\ \A j \in Keys \ {Current(w)} : accepted'[j] = accepted[j]
           /\ \/ /\ pc'[w] = "published" /\ disturbed' = disturbed
                 /\ accepted'[Current(w)] = Counted(accepted[Current(w)], 2)
              \/ /\ pc'[w] = "failed"
                 /\ UNCHANGED <<accepted, disturbed>>
              \/ /\ pc'[w] = "failed" /\ disturbed' = disturbed \cup {Current(w)}
                 /\ accepted'[Current(w)] = Counted(accepted[Current(w)], 2)
  <1> DEFINE k == Current(w)
  <1>1. /\ pc[w] = "publishing"
        /\ UNCHANGED <<committed, delivery, todo, batch, after, tally>>
    BY DEF Publish
  <1>2. k \in Keys
    BY <1>1, CurrentType DEF Visiting, Attempting
  <1>3. \A p : Goto(w, p) => pc'[w] = p
    BY DEF Goto, TypeInvariant, TypeOK
  <1>4. accepted \in [Keys -> 0 .. 2] /\ disturbed \in SUBSET Keys
    BY DEF TypeInvariant, TypeOK
  <1>5. Counted(accepted[k], 2) \in 0 .. 2
    BY <1>2, <1>4, CountedType
  <1> HIDE DEF k
  <1>6. ASSUME accepted' = [accepted EXCEPT ![k] = Counted(@, 2)]
        PROVE  /\ accepted' \in [Keys -> 0 .. 2]
               /\ accepted'[k] = Counted(accepted[k], 2)
               /\ \A j \in Keys \ {k} : accepted'[j] = accepted[j]
    BY <1>2, <1>4, <1>5, <1>6
  <1> QED BY <1>1, <1>2, <1>3, <1>4, <1>6 DEF Publish, k

\* The other steps of a worker touch nothing that is shared.
LEMMA PrivateStep ==
    ASSUME NEW w \in Workers,
           \/ Start(w) \/ Crash(w) \/ NextDestination(w) \/ Scan(w) \/ FinishDestination(w)
    PROVE  UNCHANGED <<committed, delivery, tally, accepted, disturbed>>
  BY DEF Start, Crash, NextDestination, Scan, FinishDestination

LEMMA WorkShared ==
    ASSUME TypeInvariant, NEW w \in Workers, Start(w) \/ Work(w) \/ Crash(w)
    PROVE  SharedOK' /\ committed' \subseteq Events
  <1>1. SharedOK /\ committed \subseteq Events
    BY TypeParts
  <1>2. committed' \subseteq Events
    BY <1>1, WorkOfOne
  <1>3. CASE \/ Start(w) \/ Crash(w) \/ NextDestination(w) \/ Scan(w) \/ FinishDestination(w)
    BY <1>1, <1>2, <1>3, PrivateStep DEF SharedOK
  <1>4. CASE ClaimEvent(w)
    <2>1. /\ UNCHANGED <<tally, accepted, disturbed>> /\ Current(w) \in Keys
          /\ ClaimedBy(w, Current(w)) \/ UNCHANGED delivery
      BY <1>4, ClaimStep
    <2>2. ASSUME ClaimedBy(w, Current(w))
          PROVE  /\ delivery' \in [Keys -> Rows]
                 /\ \A j \in Keys : delivery'[j].lease # Nobody => delivery'[j].by = Nobody
      BY <1>1, <2>1, <2>2 DEF SharedOK, ClaimedBy, RowIs
    <2> QED BY <1>1, <1>2, <2>1, <2>2 DEF SharedOK
  <1>5. CASE Publish(w)
    BY <1>1, <1>2, <1>5, PublishStep DEF SharedOK
  <1>6. CASE MarkEventDelivered(w)
    <2>1. tally' \in [Workers -> [delivered : 0 .. TallyBound, failed : 0 .. TallyBound]]
      BY <1>6, DeliveredStep, DeliveredTally, FailedTally DEF TallyIs
    <2>2. /\ UNCHANGED <<accepted, disturbed>> /\ Current(w) \in Keys
          /\ DeliveredBy(w, Current(w)) \/ UNCHANGED delivery
      BY <1>6, DeliveredStep
    <2>3. ASSUME DeliveredBy(w, Current(w))
          PROVE  /\ delivery' \in [Keys -> Rows]
                 /\ \A j \in Keys : delivery'[j].lease # Nobody => delivery'[j].by = Nobody
      BY <1>1, <2>2, <2>3 DEF SharedOK, DeliveredBy, RowIs
    <2> QED BY <1>1, <1>2, <2>1, <2>2, <2>3 DEF SharedOK
  <1>7. CASE MarkEventFailed(w)
    <2>1. tally' \in [Workers -> [delivered : 0 .. TallyBound, failed : 0 .. TallyBound]]
      BY <1>7, FailedStep, FailedTally DEF TallyIs
    <2> QED BY <1>1, <1>2, <1>7, <2>1, FailedStep DEF SharedOK, FailedBy, RowIs, Holds
  <1> QED BY <1>3, <1>4, <1>5, <1>6, <1>7 DEF Work

LEMMA EnvironmentType ==
    ASSUME TypeInvariant,
           \/ \E e \in Events : CommitEvent(e)
           \/ \E k \in Keys : LapseLease(k) \/ ComeDue(k)
    PROVE  LoopOK' /\ SharedOK' /\ committed' \subseteq Events
  <1>1. LoopOK /\ SharedOK /\ committed \subseteq Events
    BY TypeParts
  <1>2. UNCHANGED work
    BY DEF CommitEvent, LapseLease, ComeDue
  <1>3. LoopOK'
    BY <1>1, <1>2 DEF work, LoopOK, WorkOK
  <1>4. ASSUME NEW e \in Events, CommitEvent(e) PROVE SharedOK' /\ committed' \subseteq Events
    BY <1>1, <1>4 DEF CommitEvent, SharedOK, work
  <1>5. ASSUME NEW k \in Keys, LapseLease(k) PROVE SharedOK' /\ committed' \subseteq Events
    <2>1. RowIs(k, delivery[k].lease, FALSE, delivery[k].due, delivery[k].by)
      BY <1>1, <1>5, LapsedRow DEF LapseLease, SharedOK
    <2> QED BY <1>1, <1>5, <2>1 DEF LapseLease, SharedOK, work, RowIs
  <1>6. ASSUME NEW k \in Keys, ComeDue(k) PROVE SharedOK' /\ committed' \subseteq Events
    <2>1. RowIs(k, delivery[k].lease, delivery[k].live, TRUE, delivery[k].by)
      BY <1>1, <1>6, DueRow DEF ComeDue, SharedOK
    <2> QED BY <1>1, <1>6, <2>1 DEF ComeDue, SharedOK, work, RowIs
  <1> QED BY <1>3, <1>4, <1>5, <1>6

LEMMA WatchType ==
    ASSUME TypeInvariant, Watch
    PROVE  owed' \in [Workers -> SUBSET Keys]
  <1>1. \A w \in Workers : w.destinations \X committed \subseteq Keys
    BY WorkerType DEF Keys, TypeInvariant, TypeOK
  <1> QED BY <1>1 DEF Watch, TypeInvariant, TypeOK

LEMMA InitTypes == Init => TypeInvariant
  <1> SUFFICES ASSUME Init PROVE TypeInvariant
    OBVIOUS
  <1>1. LoopOK
    BY WorkerType DEF Init, LoopOK, WorkOK, Phases, Visiting, Attempting
  <1>2. SharedOK
    BY KeysFinite DEF Init, SharedOK, Rows, Free
  <1> QED BY <1>1, <1>2, TypeParts DEF Init

LEMMA NextTypes == TypeInvariant /\ [Next]_vars => TypeInvariant'
  <1> SUFFICES ASSUME TypeInvariant, [Next]_vars PROVE TypeInvariant'
    OBVIOUS
  <1>1. CASE UNCHANGED vars
    BY <1>1 DEF vars, work, TypeInvariant, TypeOK, WorkOK
  <1>2. CASE Next
    <2>1. Step /\ owed' \in [Workers -> SUBSET Keys]
      BY <1>2, WatchType DEF Next
    <2>2. LoopOK' /\ SharedOK' /\ committed' \subseteq Events
      BY <2>1, WorkLoop, WorkShared, EnvironmentType DEF Step
    <2>3. TypeInvariant' <=> (LoopOK /\ SharedOK /\ committed \subseteq Events
                                /\ owed \in [Workers -> SUBSET Keys])'
      BY TypeParts, PTL
    <2> QED BY <2>1, <2>2, <2>3
  <1> QED BY <1>1, <1>2

LEMMA TypesHold == Spec => []TypeInvariant
  BY InitTypes, NextTypes, PTL DEF Spec

\* Rows, batches and counters of the dispatcher keep their types, and a row that
\* is leased is not delivered.
THEOREM DeliveryTypeCorrect == Spec => []TypeOK
  <1>1. TypeInvariant => TypeOK
    BY DEF TypeInvariant
  <1> QED BY <1>1, TypesHold, PTL

\* The ways a step may change the row of k.
LEMMA RowSteps ==
    ASSUME TypeInvariant, [Next]_vars, NEW k \in Keys
    PROVE  \/ delivery'[k] = delivery[k]
           \/ \E w \in Workers : ClaimedBy(w, k)
           \/ \E w \in Workers :
                DeliveredBy(w, k) /\ pc[w] = "published" /\ pc'[w] # "published"
           \/ \E w \in Workers :
                FailedBy(w, k) /\ pc[w] = "failed" /\ pc'[w] # "failed"
           \/ RowIs(k, delivery[k].lease, FALSE, delivery[k].due, delivery[k].by)
           \/ RowIs(k, delivery[k].lease, delivery[k].live, TRUE, delivery[k].by)
  <1> DEFINE Goal ==
           \/ delivery'[k] = delivery[k]
           \/ \E w \in Workers : ClaimedBy(w, k)
           \/ \E w \in Workers :
                DeliveredBy(w, k) /\ pc[w] = "published" /\ pc'[w] # "published"
           \/ \E w \in Workers :
                FailedBy(w, k) /\ pc[w] = "failed" /\ pc'[w] # "failed"
           \/ RowIs(k, delivery[k].lease, FALSE, delivery[k].due, delivery[k].by)
           \/ RowIs(k, delivery[k].lease, delivery[k].live, TRUE, delivery[k].by)
  <1>1. CASE UNCHANGED vars
    BY <1>1 DEF vars
  <1>2. ASSUME NEW w \in Workers, ClaimEvent(w) PROVE Goal
    <2>1. ClaimedBy(w, Current(w)) \/ UNCHANGED delivery
      BY <1>2, ClaimStep
    <2> QED BY <2>1 DEF ClaimedBy, RowIs
  <1>3. ASSUME NEW w \in Workers, MarkEventDelivered(w) PROVE Goal
    <2>1. /\ pc[w] = "published" /\ Advance(w, TRUE)
          /\ DeliveredBy(w, Current(w)) \/ UNCHANGED delivery
      BY <1>3, DeliveredStep
    <2>2. pc'[w] # "published"
      BY <2>1, AdvanceLoop DEF Visiting, Attempting
    <2> QED BY <2>1, <2>2 DEF DeliveredBy, RowIs
  <1>4. ASSUME NEW w \in Workers, MarkEventFailed(w) PROVE Goal
    <2>1. /\ pc[w] = "failed" /\ Advance(w, TRUE)
          /\ FailedBy(w, Current(w)) \/ UNCHANGED delivery
      BY <1>4, FailedStep
    <2>2. pc'[w] # "failed"
      BY <2>1, AdvanceLoop DEF Visiting, Attempting
    <2> QED BY <2>1, <2>2 DEF FailedBy, RowIs
  <1>5. ASSUME NEW w \in Workers,
               \/ Start(w) \/ Crash(w) \/ NextDestination(w) \/ Scan(w)
               \/ FinishDestination(w) \/ Publish(w)
        PROVE  Goal
    BY <1>5, PrivateStep, PublishStep
  <1>6. ASSUME NEW e \in Events, CommitEvent(e) PROVE Goal
    BY <1>6 DEF CommitEvent
  <1>7. ASSUME NEW j \in Keys, LapseLease(j) \/ ComeDue(j) PROVE Goal
    <2>1. delivery \in [Keys -> Rows]
      BY DEF TypeInvariant, TypeOK
    <2>2. CASE j = k
      BY <1>7, <2>1, <2>2, LapsedRow, DueRow DEF LapseLease, ComeDue
    <2>3. CASE j # k
      BY <1>7, <2>1, <2>3 DEF LapseLease, ComeDue
    <2> QED BY <2>2, <2>3
  <1> QED BY <1>1, <1>2, <1>3, <1>4, <1>5, <1>6, <1>7 DEF Next, Step, Work

\* delivered_at is final: MarkEventDelivered, MarkEventFailed and ClaimEvent of
\* workers that come late leave a delivered row as it is.
THEOREM DeliveryIsFinal == Spec => DeliveredRowsAreFinal
  <1>1. ASSUME TypeInvariant, [Next]_vars, NEW k \in Keys, delivery[k].by # Nobody
        PROVE  /\ delivery'[k].by = delivery[k].by
               /\ delivery'[k].lease = Nobody
               /\ delivery[k].due => delivery'[k].due
    <2>1. delivery[k].lease = Nobody
      BY <1>1 DEF TypeInvariant, TypeOK
    <2> QED BY <1>1, <2>1, RowSteps DEF RowIs, ClaimedBy, DeliveredBy, FailedBy, Holds
  <1>2. TypeInvariant /\ [Next]_vars =>
          [\A k \in Keys :
              delivery[k].by # Nobody =>
                /\ delivery'[k].by = delivery[k].by
                /\ delivery'[k].lease = Nobody
                /\ delivery[k].due => delivery'[k].due]_vars
    BY <1>1
  <1> QED BY <1>2, TypesHold, PTL DEF Spec, DeliveredRowsAreFinal

\* A live lease ends only with its time or with the outcome its own holder
\* records: the lease_nonce comparison keeps late reports away from it.
THEOREM LeasesAreRespected == Spec => LiveLeasesAreRespected
  <1>1. ASSUME TypeInvariant, [Next]_vars, NEW k \in Keys, NEW x \in Workers,
               Leased(delivery[k]), delivery[k].lease = x, delivery'[k].lease # x
        PROVE  pc[x] \in {"published", "failed"} /\ pc'[x] # pc[x]
    BY <1>1, RowSteps DEF RowIs, ClaimedBy, DeliveredBy, FailedBy, Holds
  <1>2. TypeInvariant /\ [Next]_vars =>
          [\A k \in Keys, x \in Workers :
              /\ Leased(delivery[k]) /\ delivery[k].lease = x
              /\ delivery'[k].lease # x
              => pc[x] \in {"published", "failed"} /\ pc'[x] # pc[x]]_vars
    BY <1>1
  <1> QED BY <1>2, TypesHold, PTL DEF Spec, LiveLeasesAreRespected

-----------------------------------------------------------------------------
(* Acceptances and leases.                                                  *)

\* Until a lease of k lapses or an acceptance is reported as failed, whoever is
\* at k holds its lease, and k is accepted by the attempt that keeps the lease.
Undisturbed(k) ==
    /\ delivery[k].lease # Nobody => delivery[k].live
    /\ delivery[k].lease = Nobody /\ delivery[k].by = Nobody => accepted[k] = 0
    /\ accepted[k] <= 1
    /\ \A w \in Workers :
          pc[w] \in Attempting /\ Current(w) = k =>
              /\ delivery[k].lease = w
              /\ pc[w] # "published" => accepted[k] = 0

\* What is acknowledged was accepted, and what is not disturbed was accepted
\* once.
AcceptanceInvariant ==
    /\ \A w \in Workers : pc[w] = "published" => accepted[Current(w)] > 0
    /\ DeliveredWasAccepted
    /\ \A k \in Keys \ disturbed : Undisturbed(k)

LEMMA OthersStay ==
    ASSUME TypeInvariant, NEW w \in Workers, Start(w) \/ Work(w) \/ Crash(w)
    PROVE  \A x \in Workers \ {w} : pc'[x] = pc[x] /\ Current(x)' = Current(x)
  BY WorkOfOne DEF Current, Destination

\* Nothing that matters to an acceptance changes.
LEMMA AcceptanceKept ==
    ASSUME AcceptanceInvariant,
           \A w \in Workers :
              \/ pc'[w] = pc[w] /\ Current(w)' = Current(w)
              \/ pc'[w] \notin Attempting,
           \A k \in Keys : /\ delivery'[k].lease = delivery[k].lease
                           /\ delivery'[k].live = delivery[k].live
                           /\ delivery'[k].by = delivery[k].by,
           UNCHANGED <<accepted, disturbed>>
    PROVE  AcceptanceInvariant'
  <1>1. ASSUME NEW w \in Workers, pc'[w] = "published" PROVE accepted'[Current(w)'] > 0
    BY <1>1 DEF AcceptanceInvariant, Attempting
  <1>2. DeliveredWasAccepted'
    BY DEF AcceptanceInvariant, DeliveredWasAccepted
  <1>3. ASSUME NEW k \in Keys \ disturbed PROVE Undisturbed(k)'
    BY <1>3 DEF AcceptanceInvariant, Undisturbed
  <1> QED BY <1>1, <1>2, <1>3 DEF AcceptanceInvariant

\* A step of worker w at k that leaves the acceptances alone, and after which w
\* is not at k any more.
LEMMA AcceptanceRecorded ==
    ASSUME TypeInvariant, AcceptanceInvariant, NEW w \in Workers, NEW k \in Keys,
           \A x \in Workers \ {w} : pc'[x] = pc[x] /\ Current(x)' = Current(x),
           pc[w] \in {"published", "failed"}, Current(w) = k, pc'[w] \notin Attempting,
           \/ DeliveredBy(w, k) /\ pc[w] = "published"
           \/ FailedBy(w, k) /\ pc[w] = "failed",
           UNCHANGED <<accepted, disturbed>>
    PROVE  AcceptanceInvariant'
  <1>1. /\ delivery[k].lease = w /\ delivery[k].by = Nobody /\ w # Nobody
        /\ delivery'[k].lease = Nobody
        /\ \A j \in Keys \ {k} : delivery'[j] = delivery[j]
    BY WorkerType DEF DeliveredBy, FailedBy, Holds, RowIs
  <1>2. ASSUME NEW x \in Workers, pc'[x] = "published" PROVE accepted'[Current(x)'] > 0
    BY <1>2 DEF AcceptanceInvariant, Attempting
  <1>3. DeliveredWasAccepted'
    <2>1. delivery'[k].by # Nobody => accepted[k] > 0
      BY <1>1 DEF AcceptanceInvariant, DeliveredBy, FailedBy, RowIs
    <2> QED BY <1>1, <2>1 DEF AcceptanceInvariant, DeliveredWasAccepted
  <1>4. ASSUME NEW j \in Keys \ disturbed PROVE Undisturbed(j)'
    <2>1. Undisturbed(j)
      BY <1>4 DEF AcceptanceInvariant
    <2>2. CASE j # k
      <3>1. delivery'[j] = delivery[j]
        BY <1>1, <2>2
      <3> QED BY <2>1, <3>1 DEF Undisturbed
    <2>3. CASE j = k
      <3>1. \A x \in Workers \ {w} : ~ (pc[x] \in Attempting /\ Current(x) = k)
        BY <1>1, <2>1, <2>3 DEF Undisturbed
      <3>2. \A x \in Workers : ~ (pc'[x] \in Attempting /\ Current(x)' = k)
        BY <3>1
      <3>3. delivery'[k].by = Nobody => accepted[k] = 0
        <4>1. CASE pc[w] = "published"
          BY <1>1, <4>1 DEF DeliveredBy, RowIs
        <4>2. CASE pc[w] = "failed"
          BY <2>1, <2>3, <4>2 DEF Undisturbed, Attempting
        <4> QED BY <4>1, <4>2
      <3> QED BY <1>1, <2>1, <2>3, <3>2, <3>3 DEF Undisturbed
    <2> QED BY <2>2, <2>3
  <1> QED BY <1>2, <1>3, <1>4 DEF AcceptanceInvariant

LEMMA AcceptanceClaimed ==
    ASSUME TypeInvariant, AcceptanceInvariant, NEW w \in Workers, NEW k \in Keys,
           \A x \in Workers \ {w} : pc'[x] = pc[x] /\ Current(x)' = Current(x),
           ClaimedBy(w, k), Current(w)' = k, pc'[w] \notin {"published", "failed"},
           UNCHANGED <<accepted, disturbed>>
    PROVE  AcceptanceInvariant'
  <1>1. /\ delivery[k].by = Nobody /\ ~ Leased(delivery[k])
        /\ delivery'[k].lease = w /\ delivery'[k].live /\ w # Nobody
        /\ delivery'[k].by = Nobody
        /\ \A j \in Keys \ {k} : delivery'[j] = delivery[j]
    BY WorkerType DEF ClaimedBy, RowIs
  <1>2. ASSUME NEW x \in Workers, pc'[x] = "published" PROVE accepted'[Current(x)'] > 0
    BY <1>2 DEF AcceptanceInvariant
  <1>3. DeliveredWasAccepted'
    BY <1>1 DEF AcceptanceInvariant, DeliveredWasAccepted
  <1>4. ASSUME NEW j \in Keys \ disturbed PROVE Undisturbed(j)'
    <2>1. Undisturbed(j)
      BY <1>4 DEF AcceptanceInvariant
    <2>2. CASE j # k
      <3>1. delivery'[j] = delivery[j]
        BY <1>1, <2>2
      <3> QED BY <2>1, <2>2, <3>1 DEF Undisturbed
    <2>3. CASE j = k
      <3>1. delivery[k].lease = Nobody
        BY <1>1, <2>1, <2>3 DEF Undisturbed, Leased
      <3>2. accepted[k] = 0
        BY <1>1, <2>1, <2>3, <3>1 DEF Undisturbed
      <3>3. \A x \in Workers \ {w} : ~ (pc[x] \in Attempting /\ Current(x) = k)
        BY <2>1, <2>3, <3>1, WorkerType DEF Undisturbed
      <3> QED BY <1>1, <2>1, <2>3, <3>2, <3>3 DEF Undisturbed
    <2> QED BY <2>2, <2>3
  <1> QED BY <1>2, <1>3, <1>4 DEF AcceptanceInvariant

LEMMA AcceptancePublished ==
    ASSUME TypeInvariant, AcceptanceInvariant, NEW w \in Workers, Publish(w)
    PROVE  AcceptanceInvariant'
  <1> DEFINE k == Current(w)
  <1>1. /\ pc[w] = "publishing" /\ k \in Keys /\ delivery' = delivery
        /\ \A j \in Keys \ {k} : accepted'[j] = accepted[j]
        /\ \/ /\ pc'[w] = "published" /\ disturbed' = disturbed
              /\ accepted'[k] = Counted(accepted[k], 2)
           \/ pc'[w] = "failed" /\ UNCHANGED <<accepted, disturbed>>
           \/ /\ pc'[w] = "failed" /\ disturbed' = disturbed \cup {k}
              /\ accepted'[k] = Counted(accepted[k], 2)
    BY PublishStep
  <1>2. /\ \A x \in Workers \ {w} : pc'[x] = pc[x] /\ Current(x)' = Current(x)
        /\ Current(w)' = k
    BY OthersStay, PublishStep DEF Current, Destination, Work
  <1>3. accepted \in [Keys -> 0 .. 2]
    BY DEF TypeInvariant, TypeOK
  <1> HIDE DEF k
  <1>4. /\ Counted(accepted[k], 2) > 0
        /\ accepted[k] = 0 => Counted(accepted[k], 2) = 1
    BY <1>1, <1>3 DEF Counted
  <1>5. \A j \in Keys : accepted[j] > 0 => accepted'[j] > 0
    BY <1>1, <1>4
  <1>6. ASSUME NEW x \in Workers, pc'[x] = "published" PROVE accepted'[Current(x)'] > 0
    <2>1. CASE x = w
      BY <1>1, <1>2, <1>4, <1>6, <2>1
    <2>2. CASE x # w
      <3>1. pc[x] = "published" /\ accepted[Current(x)] > 0 /\ Current(x) \in Keys
        BY <1>2, <1>6, <2>2, CurrentType DEF AcceptanceInvariant, Visiting, Attempting
      <3> QED BY <1>2, <1>5, <2>2, <3>1
    <2> QED BY <2>1, <2>2
  <1>7. DeliveredWasAccepted'
    BY <1>1, <1>5 DEF AcceptanceInvariant, DeliveredWasAccepted
  <1>8. ASSUME NEW j \in Keys \ disturbed' PROVE Undisturbed(j)'
    <2>1. Undisturbed(j) /\ j \in Keys
      BY <1>1, <1>8 DEF AcceptanceInvariant
    <2>2. CASE j # k
      BY <1>1, <1>2, <2>1, <2>2 DEF Undisturbed
    <2>3. CASE j = k
      <3>1. delivery[k].lease = w /\ accepted[k] = 0 /\ w # Nobody
        BY <1>1, <2>1, <2>3, WorkerType DEF Undisturbed, Attempting, k
      <3>2. \A x \in Workers \ {w} : ~ (pc[x] \in Attempting /\ Current(x) = k)
        BY <2>1, <2>3, <3>1 DEF Undisturbed
      <3>3. \/ pc'[w] = "published" /\ accepted'[k] = 1
            \/ pc'[w] = "failed" /\ accepted'[k] = 0
        BY <1>1, <1>4, <1>8, <2>3, <3>1
      <3> QED BY <1>1, <1>2, <2>1, <2>3, <3>1, <3>2, <3>3 DEF Undisturbed
    <2> QED BY <2>2, <2>3
  <1> QED BY <1>6, <1>7, <1>8 DEF AcceptanceInvariant

LEMMA NextAcceptance ==
    TypeInvariant /\ AcceptanceInvariant /\ [Next]_vars => AcceptanceInvariant'
  <1> SUFFICES ASSUME TypeInvariant, AcceptanceInvariant, [Next]_vars
               PROVE  AcceptanceInvariant'
    OBVIOUS
  <1>1. CASE UNCHANGED vars
    BY <1>1, AcceptanceKept DEF vars, work, Current, Destination
  <1>2. ASSUME NEW w \in Workers,
               \/ Start(w) \/ Crash(w) \/ NextDestination(w) \/ Scan(w) \/ FinishDestination(w)
        PROVE  AcceptanceInvariant'
    <2>1. pc'[w] \notin Attempting
      BY <1>2 DEF Start, Crash, NextDestination, Scan, FinishDestination, Goto,
                  Attempting, TypeInvariant, TypeOK
    <2> QED BY <1>2, <2>1, OthersStay, PrivateStep, AcceptanceKept DEF Work
  <1>3. ASSUME NEW w \in Workers, ClaimEvent(w) PROVE AcceptanceInvariant'
    <2>1. \A x \in Workers \ {w} : pc'[x] = pc[x] /\ Current(x)' = Current(x)
      BY <1>3, OthersStay DEF Work
    <2>2. /\ pc[w] = "visit" /\ Current(w) \in Keys /\ UNCHANGED <<accepted, disturbed>>
      BY <1>3, ClaimStep
    <2>3. CASE /\ ClaimedBy(w, Current(w)) /\ UNCHANGED <<todo, batch>>
               /\ pc'[w] \in {"publishing", "stopped", "count"}
      <3>1. Current(w)' = Current(w)
        BY <2>3 DEF Current, Destination
      <3> QED BY <2>1, <2>2, <2>3, <3>1, AcceptanceClaimed
    <2>4. CASE UNCHANGED delivery /\ pc'[w] \in {"stopped", "count"}
      BY <2>1, <2>2, <2>4, AcceptanceKept DEF Attempting
    <2>5. CASE UNCHANGED delivery /\ Advance(w, FALSE)
      <3>1. pc'[w] \notin Attempting
        BY <2>2, <2>5, AdvanceLoop DEF Visiting, Attempting
      <3> QED BY <2>1, <2>2, <2>5, <3>1, AcceptanceKept
    <2> QED BY <1>3, <2>3, <2>4, <2>5, ClaimStep
  <1>4. ASSUME NEW w \in Workers, MarkEventDelivered(w) PROVE AcceptanceInvariant'
    <2>1. \A x \in Workers \ {w} : pc'[x] = pc[x] /\ Current(x)' = Current(x)
      BY <1>4, OthersStay DEF Work
    <2>2. /\ pc[w] = "published" /\ Current(w) \in Keys /\ UNCHANGED <<accepted, disturbed>>
          /\ Advance(w, TRUE)
          /\ DeliveredBy(w, Current(w)) \/ UNCHANGED delivery
      BY <1>4, DeliveredStep
    <2>3. pc'[w] \notin Attempting
      BY <2>2, AdvanceLoop DEF Visiting, Attempting
    <2> QED BY <2>1, <2>2, <2>3, AcceptanceRecorded, AcceptanceKept
  <1>5. ASSUME NEW w \in Workers, MarkEventFailed(w) PROVE AcceptanceInvariant'
    <2>1. \A x \in Workers \ {w} : pc'[x] = pc[x] /\ Current(x)' = Current(x)
      BY <1>5, OthersStay DEF Work
    <2>2. /\ pc[w] = "failed" /\ Current(w) \in Keys /\ UNCHANGED <<accepted, disturbed>>
          /\ Advance(w, TRUE)
          /\ FailedBy(w, Current(w)) \/ UNCHANGED delivery
      BY <1>5, FailedStep
    <2>3. pc'[w] \notin Attempting
      BY <2>2, AdvanceLoop DEF Visiting, Attempting
    <2> QED BY <2>1, <2>2, <2>3, AcceptanceRecorded, AcceptanceKept
  <1>6. ASSUME NEW e \in Events, CommitEvent(e) PROVE AcceptanceInvariant'
    BY <1>6, AcceptanceKept DEF CommitEvent, work, Current, Destination
  <1>7. ASSUME NEW k \in Keys, ComeDue(k) PROVE AcceptanceInvariant'
    <2>1. RowIs(k, delivery[k].lease, delivery[k].live, TRUE, delivery[k].by)
      BY <1>7, DueRow DEF ComeDue, TypeInvariant, TypeOK
    <2> QED BY <1>7, <2>1, AcceptanceKept DEF ComeDue, work, Current, Destination, RowIs
  <1>8. ASSUME NEW k \in Keys, LapseLease(k) PROVE AcceptanceInvariant'
    <2>1. /\ RowIs(k, delivery[k].lease, FALSE, delivery[k].due, delivery[k].by)
          /\ disturbed' = disturbed \cup {k} /\ accepted' = accepted
          /\ \A w \in Workers : pc'[w] = pc[w] /\ Current(w)' = Current(w)
      BY <1>8, LapsedRow DEF LapseLease, TypeInvariant, TypeOK, work, Current, Destination
    <2>2. ASSUME NEW w \in Workers, pc'[w] = "published" PROVE accepted'[Current(w)'] > 0
      BY <2>1, <2>2 DEF AcceptanceInvariant
    <2>3. DeliveredWasAccepted'
      BY <2>1 DEF AcceptanceInvariant, DeliveredWasAccepted, RowIs
    <2>4. ASSUME NEW j \in Keys \ disturbed' PROVE Undisturbed(j)'
      <3>1. Undisturbed(j) /\ delivery'[j] = delivery[j]
        BY <2>1, <2>4 DEF AcceptanceInvariant, RowIs
      <3> QED BY <2>1, <3>1 DEF Undisturbed
    <2> QED BY <2>2, <2>3, <2>4 DEF AcceptanceInvariant
  <1> QED BY <1>1, <1>2, <1>3, <1>4, <1>5, <1>6, <1>7, <1>8, AcceptancePublished
          DEF Next, Step, Work

LEMMA AcceptanceHolds == Spec => []AcceptanceInvariant
  <1>1. Init => AcceptanceInvariant
    BY DEF Init, AcceptanceInvariant, DeliveredWasAccepted, Undisturbed, Free, Attempting
  <1> QED BY <1>1, NextAcceptance, TypesHold, PTL DEF Spec

\* MarkEventDelivered acknowledges only what the destination accepted, whatever
\* times out, panics, crashes or loses its lease.
THEOREM AcknowledgedWasAccepted == Spec => []DeliveredWasAccepted
  <1>1. AcceptanceInvariant => DeliveredWasAccepted
    BY DEF AcceptanceInvariant
  <1> QED BY <1>1, AcceptanceHolds, PTL

\* However many immediate attempts, replays and sweeps overlap, a destination
\* accepts an event twice only after its lease lapsed or an acceptance was
\* reported as a failure.
THEOREM DuplicatesAreFaults == Spec => []DuplicatesNeedAFault
  <1>1. TypeInvariant /\ AcceptanceInvariant => DuplicatesNeedAFault
    BY DEF TypeInvariant, TypeOK, AcceptanceInvariant, Undisturbed, DuplicatesNeedAFault
  <1> QED BY <1>1, AcceptanceHolds, TypesHold, PTL

-----------------------------------------------------------------------------
(* Summaries.                                                               *)

\* The keys a worker that is still at work has behind it: its finished
\* destinations, and what it passed of the present one.
Passed(w) ==
    ((w.destinations \ todo[w]) \X committed)
    \cup {k \in todo[w] \X committed :
            /\ k[1] = Destination(w) /\ k[2] <= after[w] /\ pc[w] # "next"}

\* Where a worker is in its loop.
PlaceOK(w) ==
    /\ todo[w] \subseteq w.destinations
    /\ pc[w] # "idle" => w.events \subseteq committed
    /\ pc[w] = "idle" => todo[w] = w.destinations /\ after[w] = 0
    /\ batch[w] \subseteq committed
    /\ pc[w] \in Visiting => \A e \in batch[w] : e > after[w]

Attempts(w) == tally[w].delivered + tally[w].failed

\* What a worker counted is behind it.
CountOK(w) ==
    /\ pc[w] \notin {"returned", "stopped"} => Attempts(w) <= Cardinality(Passed(w))
    /\ Attempts(w) <= Cardinality(w.destinations \X committed)

AttemptsInvariant == \A w \in Workers : PlaceOK(w) /\ CountOK(w)

\* Everything counted here is finite.
PassedOK(w) ==
    /\ IsFiniteSet(Passed(w)) /\ IsFiniteSet(w.destinations \X committed)
    /\ Cardinality(Passed(w)) \in Nat /\ Cardinality(w.destinations \X committed) \in Nat
    /\ Cardinality(Passed(w)) <= Cardinality(w.destinations \X committed)
    /\ Attempts(w) \in Nat

AllPassedOK == \A w \in Workers : todo[w] \subseteq w.destinations => PassedOK(w)

LEMMA PassedFinite == TypeInvariant => AllPassedOK
  <1> SUFFICES ASSUME TypeInvariant, NEW w \in Workers, todo[w] \subseteq w.destinations
               PROVE  PassedOK(w)
    BY DEF AllPassedOK
  <1>1. committed \subseteq Events /\ w.destinations \subseteq Destinations
    BY WorkerType DEF TypeInvariant, TypeOK
  <1>2. w.destinations \X committed \subseteq Keys
    BY <1>1 DEF Keys
  <1>3. Passed(w) \subseteq w.destinations \X committed
    BY DEF Passed
  <1>4. IsFiniteSet(w.destinations \X committed)
    BY <1>2, KeysFinite, FS_Subset
  <1>5. /\ IsFiniteSet(Passed(w))
        /\ Cardinality(Passed(w)) <= Cardinality(w.destinations \X committed)
    BY <1>3, <1>4, FS_Subset
  <1>6. Attempts(w) \in Nat
    BY KeysFinite DEF Attempts, TypeInvariant, TypeOK
  <1> QED BY <1>4, <1>5, <1>6, FS_CardinalityType DEF PassedOK

LEMMA PassedFiniteNext ==
    ASSUME TypeInvariant', NEW w \in Workers, todo'[w] \subseteq w.destinations
    PROVE  PassedOK(w)'
  <1>1. TypeInvariant' => AllPassedOK'
    BY PassedFinite, PTL
  <1> QED BY <1>1 DEF AllPassedOK

\* A worker that attempts nothing in a step, while what it passed only grows.
LEMMA CountKept ==
    ASSUME TypeInvariant, TypeInvariant', NEW w \in Workers, PlaceOK(w), PlaceOK(w)', CountOK(w),
           tally'[w] = tally[w], committed \subseteq committed',
           pc'[w] \notin {"returned", "stopped"} =>
              pc[w] \notin {"returned", "stopped"} /\ Passed(w) \subseteq Passed(w)'
    PROVE  CountOK(w)'
  <1>1. todo[w] \subseteq w.destinations /\ todo'[w] \subseteq w.destinations
    BY DEF PlaceOK
  <1>2. /\ IsFiniteSet(Passed(w)') /\ IsFiniteSet(w.destinations \X committed')
        /\ Cardinality(Passed(w)') \in Nat /\ Cardinality(w.destinations \X committed') \in Nat
    BY <1>1, PassedFiniteNext DEF PassedOK
  <1>3. /\ Cardinality(Passed(w)) \in Nat /\ Cardinality(w.destinations \X committed) \in Nat
        /\ Attempts(w) \in Nat
    BY <1>1, PassedFinite DEF AllPassedOK, PassedOK
  <1>4. Cardinality(w.destinations \X committed) <= Cardinality(w.destinations \X committed')
    <2>1. w.destinations \X committed \in SUBSET (w.destinations \X committed')
      OBVIOUS
    <2> QED BY <1>2, <2>1, FS_Subset
  <1>5. Passed(w) \subseteq Passed(w)' => Cardinality(Passed(w)) <= Cardinality(Passed(w)')
    BY <1>2, FS_Subset
  <1>6. Attempts(w)' = Attempts(w)
    BY DEF Attempts
  <1> QED BY <1>2, <1>3, <1>4, <1>5, <1>6 DEF CountOK

\* Advancing passes the current key, which was not passed before.
LEMMA AdvancePasses ==
    ASSUME TypeInvariant, NEW w \in Workers, PlaceOK(w), pc[w] \in Visiting,
           NEW c \in BOOLEAN, Advance(w, c), committed' = committed
    PROVE  /\ PlaceOK(w)'
           /\ Current(w) \notin Passed(w)
           /\ Passed(w) \cup {Current(w)} \subseteq Passed(w)'
           /\ pc'[w] \in {"visit", "scan", "count"}
  <1> DEFINE k == Current(w)
             e == Min(batch[w])
  <1>1. /\ k = <<Destination(w), e>> /\ Destination(w) \in todo[w]
        /\ e \in batch[w] /\ e \in Events /\ \A x \in batch[w] : e <= x
        /\ e \in committed /\ e > after[w]
    BY CurrentType DEF PlaceOK
  <1>2. /\ todo' = todo /\ after'[w] = e /\ batch'[w] = batch[w] \ {e}
        /\ pc[w] # "next" /\ pc[w] # "idle" /\ pc'[w] \in {"visit", "scan", "count"}
    BY AdvanceLoop DEF Visiting, Attempting
  <1>3. after[w] \in Nat /\ e \in Nat /\ committed \subseteq Nat /\ batch[w] \subseteq Nat
    <2>1. /\ after[w] \in Events \cup {0} /\ committed \subseteq Events
          /\ batch[w] \subseteq Events
      BY DEF TypeInvariant, TypeOK
    <2>2. Events \subseteq Nat /\ 0 \in Nat
      BY DeliveryAssumption
    <2>3. e \in Events
      BY <1>1
    <2> QED BY <2>1, <2>2, <2>3
  <1> HIDE DEF e
  <1>4. PlaceOK(w)'
    <2>1. \A x \in batch'[w] : x > after'[w]
      BY <1>1, <1>2, <1>3
    <2> QED BY <1>2, <2>1 DEF PlaceOK
  <1>5. k \notin Passed(w)
    BY <1>1, <1>3 DEF Passed
  <1>6. Passed(w) \cup {k} \subseteq Passed(w)'
    <2>1. /\ Destination(w)' = Destination(w) /\ todo'[w] = todo[w] /\ pc'[w] # "next"
      BY <1>2 DEF Destination
    <2>2. k \in Passed(w)'
      BY <1>1, <1>2, <1>3, <2>1 DEF Passed
    <2>3. ASSUME NEW j \in Passed(w) PROVE j \in Passed(w)'
      <3>1. \/ j \in (w.destinations \ todo[w]) \X committed
            \/ j \in todo[w] \X committed /\ j[1] = Destination(w) /\ j[2] <= after[w]
        BY <2>3 DEF Passed
      <3>2. j \in todo[w] \X committed /\ j[2] <= after[w] => j[2] <= after'[w]
        <4>1. j \in todo[w] \X committed => j[2] \in Nat
          BY <1>3
        <4>2. \A n \in Nat : n <= after[w] => n <= e
          BY <1>1, <1>3
        <4> QED BY <1>2, <4>1, <4>2
      <3> QED BY <2>1, <3>1, <3>2 DEF Passed
    <2> QED BY <2>2, <2>3
  <1> QED BY <1>2, <1>4, <1>5, <1>6

\* One more attempt, of a key that was not passed before.
LEMMA CountOne ==
    ASSUME TypeInvariant, TypeInvariant', NEW w \in Workers, PlaceOK(w), CountOK(w),
           pc[w] \in Visiting, Advance(w, TRUE), committed' = committed,
           Delivered(w) \/ Failed(w)
    PROVE  PlaceOK(w)' /\ CountOK(w)'
  <1> DEFINE k == Current(w)
  <1>1. /\ PlaceOK(w)' /\ k \notin Passed(w) /\ Passed(w) \cup {k} \subseteq Passed(w)'
        /\ pc'[w] \notin {"returned", "stopped"} /\ pc[w] \notin {"returned", "stopped"}
    BY AdvancePasses DEF Visiting, Attempting
  <1>2. PassedOK(w) /\ PassedOK(w)'
    BY <1>1, PassedFinite, PassedFiniteNext DEF AllPassedOK, PlaceOK
  <1> HIDE DEF k
  <1>3. Cardinality(Passed(w)) + 1 <= Cardinality(Passed(w)')
    <2>1. /\ IsFiniteSet(Passed(w) \cup {k})
          /\ Cardinality(Passed(w) \cup {k}) = Cardinality(Passed(w)) + 1
      BY <1>1, <1>2, FS_AddElement DEF PassedOK
    <2>2. Cardinality(Passed(w) \cup {k}) <= Cardinality(Passed(w)')
      BY <1>1, <1>2, FS_Subset DEF PassedOK
    <2> QED BY <2>1, <2>2
  <1>4. Attempts(w)' <= Attempts(w) + 1
    <2>1. tally[w].delivered \in 0 .. TallyBound /\ tally[w].failed \in 0 .. TallyBound
      BY DEF TypeInvariant, TypeOK
    <2>2. /\ Counted(tally[w].delivered, TallyBound) <= tally[w].delivered + 1
          /\ Counted(tally[w].failed, TallyBound) <= tally[w].failed + 1
          /\ Counted(tally[w].delivered, TallyBound) \in Nat
          /\ Counted(tally[w].failed, TallyBound) \in Nat
      BY <2>1, KeysFinite, CountedType
    <2> QED BY <2>1, <2>2, KeysFinite, DeliveredTally, FailedTally DEF TallyIs, Attempts
  <1> QED BY <1>1, <1>2, <1>3, <1>4 DEF CountOK, PassedOK

\* A worker that stands still while events are committed.
LEMMA AttemptsKept ==
    ASSUME TypeInvariant, TypeInvariant', NEW w \in Workers, PlaceOK(w), CountOK(w),
           pc'[w] = pc[w], todo'[w] = todo[w], batch'[w] = batch[w],
           after'[w] = after[w], tally'[w] = tally[w], committed \subseteq committed'
    PROVE  PlaceOK(w)' /\ CountOK(w)'
  <1>1. PlaceOK(w)'
    BY DEF PlaceOK
  <1>2. Passed(w) \subseteq Passed(w)'
    BY DEF Passed, Destination
  <1> QED BY <1>1, <1>2, CountKept

\* No committed event has the key 0, where every scan starts.
LEMMA NothingAtZero ==
    ASSUME TypeInvariant
    PROVE  /\ Events \subseteq Nat \ {0} /\ committed \subseteq Events
           /\ \A e \in Events : e > 0 /\ ~ (e <= 0)
  <1>1. Events \subseteq Nat \ {0} /\ committed \subseteq Events
    BY DeliveryAssumption DEF TypeInvariant, TypeOK
  <1> QED BY <1>1

LEMMA WorkAttempts ==
    ASSUME TypeInvariant, TypeInvariant', NEW w \in Workers, PlaceOK(w), CountOK(w),
           Start(w) \/ Work(w) \/ Crash(w)
    PROVE  PlaceOK(w)' /\ CountOK(w)'
  <1>1. committed' = committed
    BY WorkOfOne
  <1>2. CASE Start(w)
    <2>1. /\ pc[w] = "idle" /\ pc'[w] = "next" /\ UNCHANGED <<todo, batch, after, tally>>
          /\ w.events \subseteq committed
      BY <1>2 DEF Start, Goto, TypeInvariant, TypeOK
    <2>2. PlaceOK(w)'
      BY <1>1, <2>1 DEF PlaceOK, Visiting, Attempting
    <2>3. todo[w] = w.destinations /\ after[w] = 0
      BY <2>1 DEF PlaceOK
    <2>4. Passed(w) = {}
      BY <2>3, NothingAtZero DEF Passed
    <2> QED BY <1>1, <2>1, <2>2, <2>4, CountKept
  <1>3. CASE Crash(w)
    <2>1. /\ pc[w] # "idle" /\ pc'[w] = "stopped" /\ UNCHANGED <<todo, batch, after, tally>>
      BY <1>3 DEF Crash, Goto, TypeInvariant, TypeOK
    <2>2. PlaceOK(w)'
      BY <1>1, <2>1 DEF PlaceOK, Visiting, Attempting
    <2> QED BY <1>1, <2>1, <2>2, CountKept
  <1>4. CASE NextDestination(w)
    <2>1. /\ pc[w] = "next" /\ pc'[w] \in {"returned", "scan", "visit"}
          /\ UNCHANGED <<todo, tally>> /\ after'[w] = 0
          /\ batch'[w] \in {batch[w], w.events}
          /\ pc'[w] = "visit" => batch'[w] = w.events
      BY <1>4 DEF NextDestination, Goto, TypeInvariant, TypeOK
    <2>2. \A e \in w.events : e > 0
      BY WorkerType, NothingAtZero
    <2>3. PlaceOK(w)'
      BY <1>1, <2>1, <2>2 DEF PlaceOK, Visiting, Attempting
    <2>4. Passed(w) \subseteq Passed(w)'
      BY <1>1, <2>1 DEF Passed
    <2> QED BY <1>1, <2>1, <2>3, <2>4, CountKept
  <1>5. CASE Scan(w)
    <2>1. /\ PendingEvents(w) \subseteq committed
          /\ \A e \in PendingEvents(w) : e > after[w]
      BY DEF PendingEvents
    <2>2. /\ pc[w] = "scan" /\ UNCHANGED <<todo, after, tally>>
          /\ \/ pc'[w] \in {"count", "visit"} /\ batch'[w] = PendingEvents(w)
             \/ pc'[w] = "stopped" /\ batch' = batch
      <3>1. /\ pc[w] = "scan" /\ UNCHANGED <<todo, after, tally>>
            /\ \/ /\ pc' = [pc EXCEPT ![w] = IF PendingEvents(w) = {} THEN "count" ELSE "visit"]
                  /\ batch' = [batch EXCEPT ![w] = PendingEvents(w)]
               \/ pc' = [pc EXCEPT ![w] = "stopped"] /\ batch' = batch
        BY <1>5, Zenon DEF Scan, Goto
      <3> QED BY <3>1 DEF TypeInvariant, TypeOK
    <2>3. PlaceOK(w)'
      <3>1. /\ batch'[w] \subseteq committed' /\ after'[w] = after[w] /\ todo'[w] = todo[w]
            /\ pc[w] # "idle" /\ pc'[w] # "idle"
        BY <1>1, <2>1, <2>2 DEF PlaceOK
      <3>2. pc'[w] \in Visiting => \A e \in batch'[w] : e > after'[w]
        BY <2>1, <2>2, <3>1 DEF Visiting, Attempting
      <3> QED BY <1>1, <3>1, <3>2 DEF PlaceOK
    <2>4. pc'[w] # "stopped" => Passed(w) \subseteq Passed(w)'
      BY <1>1, <2>2 DEF Passed, Destination
    <2> QED BY <1>1, <2>2, <2>3, <2>4, CountKept
  <1>6. CASE ClaimEvent(w)
    <2>1. pc[w] = "visit" /\ tally' = tally
      BY <1>6, ClaimStep
    <2>2. CASE UNCHANGED <<todo, batch, after>> /\ pc'[w] \in {"publishing", "stopped", "count"}
      <3>1. PlaceOK(w)'
        BY <1>1, <2>1, <2>2 DEF PlaceOK, Visiting, Attempting
      <3>2. Passed(w) \subseteq Passed(w)'
        BY <1>1, <2>1, <2>2 DEF Passed, Destination
      <3> QED BY <1>1, <2>1, <2>2, <3>1, <3>2, CountKept
    <2>3. CASE Advance(w, FALSE)
      <3>1. PlaceOK(w)' /\ Passed(w) \subseteq Passed(w)' /\ pc'[w] \in {"visit", "scan", "count"}
        BY <1>1, <2>1, <2>3, AdvancePasses DEF Visiting
      <3> QED BY <1>1, <2>1, <3>1, CountKept
    <2> QED BY <1>6, <2>2, <2>3, ClaimStep
  <1>7. CASE Publish(w)
    <2>1. /\ pc[w] = "publishing" /\ pc'[w] \in {"published", "failed"}
          /\ UNCHANGED <<todo, batch, after, tally>>
      BY <1>7, PublishStep
    <2>2. PlaceOK(w)'
      BY <1>1, <2>1 DEF PlaceOK, Visiting, Attempting
    <2>3. Passed(w) \subseteq Passed(w)'
      BY <1>1, <2>1 DEF Passed, Destination
    <2> QED BY <1>1, <2>1, <2>2, <2>3, CountKept
  <1>8. CASE MarkEventDelivered(w) \/ MarkEventFailed(w)
    <2>1. /\ pc[w] \in Visiting /\ Advance(w, TRUE)
          /\ Delivered(w) \/ Failed(w)
      BY <1>8 DEF MarkEventDelivered, MarkEventFailed, Visiting, Attempting
    <2> QED BY <1>1, <2>1, CountOne
  <1>9. CASE FinishDestination(w)
    <2>1. /\ pc[w] = "count" /\ UNCHANGED <<after, tally>>
          /\ \/ /\ pc'[w] = "next" /\ todo'[w] = todo[w] \ {Destination(w)}
                /\ batch'[w] = {}
             \/ pc'[w] = "stopped" /\ UNCHANGED <<todo, batch>>
      BY <1>9 DEF FinishDestination, Goto, TypeInvariant, TypeOK
    <2>2. PlaceOK(w)'
      BY <1>1, <2>1 DEF PlaceOK, Visiting, Attempting
    <2>3. pc'[w] = "next" => Passed(w) \subseteq Passed(w)'
      BY <1>1, <2>1 DEF Passed, PlaceOK
    <2> QED BY <1>1, <2>1, <2>2, <2>3, CountKept
  <1> QED BY <1>2, <1>3, <1>4, <1>5, <1>6, <1>7, <1>8, <1>9 DEF Work

LEMMA NextAttempts ==
    TypeInvariant /\ TypeInvariant' /\ AttemptsInvariant /\ [Next]_vars => AttemptsInvariant'
  <1> SUFFICES ASSUME TypeInvariant, TypeInvariant', AttemptsInvariant, [Next]_vars,
                      NEW x \in Workers
               PROVE  PlaceOK(x)' /\ CountOK(x)'
    BY DEF AttemptsInvariant
  <1>1. PlaceOK(x) /\ CountOK(x)
    BY DEF AttemptsInvariant
  <1>2. CASE UNCHANGED vars
    BY <1>1, <1>2, AttemptsKept DEF vars, work
  <1>3. ASSUME NEW w \in Workers, Start(w) \/ Work(w) \/ Crash(w)
        PROVE  PlaceOK(x)' /\ CountOK(x)'
    BY <1>1, <1>3, WorkOfOne, AttemptsKept, WorkAttempts
  <1>4. ASSUME NEW e \in Events, CommitEvent(e) PROVE PlaceOK(x)' /\ CountOK(x)'
    BY <1>1, <1>4, AttemptsKept DEF CommitEvent, work
  <1>5. ASSUME NEW k \in Keys, LapseLease(k) \/ ComeDue(k) PROVE PlaceOK(x)' /\ CountOK(x)'
    BY <1>1, <1>5, AttemptsKept DEF LapseLease, ComeDue, work
  <1> QED BY <1>2, <1>3, <1>4, <1>5 DEF Next, Step

LEMMA InitAttempts == Init => AttemptsInvariant
  <1> SUFFICES ASSUME Init, NEW w \in Workers PROVE PlaceOK(w) /\ CountOK(w)
    BY DEF AttemptsInvariant
  <1>1. PlaceOK(w)
    BY DEF Init, PlaceOK, Visiting, Attempting
  <1>2. PassedOK(w)
    BY <1>1, InitTypes, PassedFinite DEF AllPassedOK, PlaceOK
  <1>3. Attempts(w) = 0
    BY DEF Init, Attempts
  <1> QED BY <1>1, <1>2, <1>3 DEF CountOK, PassedOK

\* PublishPending, like Publish, visits every event of every destination at
\* most once, however often failed events become pending again behind it.
THEOREM AttemptsAreOnce == Spec => []SweepAttemptsOnce
  <1>1. AttemptsInvariant => SweepAttemptsOnce
    BY DEF AttemptsInvariant, CountOK, Attempts, SweepAttemptsOnce
  <1> QED BY <1>1, InitAttempts, NextAttempts, TypesHold, PTL DEF Spec

\* The rows that worker w set to delivered.
Own(w) == {k \in Keys : delivery[k].by = w}

LEMMA NextSummary ==
    TypeInvariant /\ SummaryCountsOwnDeliveries /\ [Next]_vars
      => SummaryCountsOwnDeliveries'
  <1> SUFFICES ASSUME TypeInvariant, SummaryCountsOwnDeliveries, [Next]_vars,
                      NEW x \in Workers
               PROVE  tally'[x].delivered <= Cardinality(Own(x)')
    BY DEF SummaryCountsOwnDeliveries, Own
  <1>1. /\ tally[x].delivered <= Cardinality(Own(x)) /\ tally[x].delivered \in Nat
        /\ IsFiniteSet(Own(x)) /\ IsFiniteSet(Own(x)')
        /\ Cardinality(Own(x)) \in Nat /\ Cardinality(Own(x)') \in Nat
    <2>1. Own(x) \subseteq Keys /\ Own(x)' \subseteq Keys
      BY DEF Own
    <2>2. IsFiniteSet(Own(x)) /\ IsFiniteSet(Own(x)')
      BY <2>1, KeysFinite, FS_Subset
    <2>3. tally[x].delivered \in Nat
      BY KeysFinite DEF TypeInvariant, TypeOK
    <2> QED BY <2>2, <2>3, FS_CardinalityType DEF SummaryCountsOwnDeliveries, Own
  <1>2. Own(x) \subseteq Own(x)'
    <2>1. ASSUME NEW k \in Keys, delivery[k].by = x PROVE delivery'[k].by = x
      BY <2>1, RowSteps, WorkerType DEF RowIs, ClaimedBy, DeliveredBy, FailedBy, Holds
    <2> QED BY <2>1 DEF Own
  <1>3. Cardinality(Own(x)) <= Cardinality(Own(x)')
    BY <1>1, <1>2, FS_Subset
  <1>4. CASE tally'[x].delivered = tally[x].delivered
    BY <1>1, <1>3, <1>4
  <1>5. CASE \E k \in Keys : DeliveredBy(x, k) /\ Delivered(x)
    <2>1. PICK k \in Keys : DeliveredBy(x, k) /\ Delivered(x)
      BY <1>5
    <2>2. k \notin Own(x) /\ k \in Own(x)'
      BY <2>1, WorkerType DEF DeliveredBy, Holds, RowIs, Own
    <2>3. /\ IsFiniteSet(Own(x) \cup {k})
          /\ Cardinality(Own(x) \cup {k}) = Cardinality(Own(x)) + 1
      BY <1>1, <2>2, FS_AddElement
    <2>4. Cardinality(Own(x) \cup {k}) <= Cardinality(Own(x)')
      BY <1>1, <1>2, <2>2, FS_Subset
    <2>5. tally'[x].delivered <= tally[x].delivered + 1 /\ tally'[x].delivered \in Nat
      <3>1. tally[x].delivered \in 0 .. TallyBound
        BY DEF TypeInvariant, TypeOK
      <3>2. /\ Counted(tally[x].delivered, TallyBound) <= tally[x].delivered + 1
            /\ Counted(tally[x].delivered, TallyBound) \in Nat
        BY <3>1, KeysFinite, CountedType
      <3> QED BY <2>1, <3>2, DeliveredTally DEF TallyIs
    <2> QED BY <1>1, <2>3, <2>4, <2>5
  <1>6. ASSUME NEW w \in Workers, Start(w) \/ Work(w) \/ Crash(w)
        PROVE  \/ tally'[x].delivered = tally[x].delivered
               \/ \E k \in Keys : DeliveredBy(x, k) /\ Delivered(x)
    <2>1. CASE w # x
      BY <1>6, <2>1, WorkOfOne
    <2>2. CASE w = x
      <3>1. CASE MarkEventDelivered(x)
        BY <3>1, DeliveredStep, FailedTally DEF TallyIs
      <3>2. CASE MarkEventFailed(x)
        BY <3>2, FailedStep, FailedTally DEF TallyIs
      <3> QED BY <1>6, <2>2, <3>1, <3>2, PrivateStep, ClaimStep, PublishStep DEF Work
    <2> QED BY <2>1, <2>2
  <1>7. ASSUME \/ UNCHANGED vars
               \/ \E e \in Events : CommitEvent(e)
               \/ \E k \in Keys : LapseLease(k) \/ ComeDue(k)
        PROVE  tally'[x].delivered = tally[x].delivered
    BY <1>7 DEF vars, work, CommitEvent, LapseLease, ComeDue
  <1> QED BY <1>4, <1>5, <1>6, <1>7 DEF Next, Step

\* Summary.Delivered of PublishPending is never more than the rows this sweep
\* set to delivered, also when other workers deliver the same events.
THEOREM SummariesAreOwn == Spec => []SummaryCountsOwnDeliveries
  <1>1. Init => SummaryCountsOwnDeliveries
    <2> SUFFICES ASSUME Init, NEW w \in Workers
                 PROVE  tally[w].delivered <= Cardinality(Own(w))
      BY DEF SummaryCountsOwnDeliveries, Own
    <2>1. Own(w) \subseteq Keys
      BY DEF Own
    <2>2. Cardinality(Own(w)) \in Nat
      BY <2>1, KeysFinite, FS_Subset, FS_CardinalityType
    <2>3. tally[w].delivered = 0
      BY DEF Init
    <2> QED BY <2>2, <2>3
  <1> QED BY <1>1, NextSummary, TypesHold, PTL DEF Spec

=============================================================================

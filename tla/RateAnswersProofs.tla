------------------------- MODULE RateAnswersProofs -------------------------
(***************************************************************************)
(* Theorems about what a call of RateService holds, claims and answers,    *)
(* for any calls, series, days and answers of the provider: type           *)
(* correctness, the leases a call leaves behind, and what an answer rests  *)
(* on.                                                                     *)
(***************************************************************************)
EXTENDS RateServiceProofs, FiniteSetTheorems, SequenceTheorems, WellFoundedInduction

-----------------------------------------------------------------------------
(* Numbers.                                                                 *)

LEMMA LeastNumber ==
    ASSUME NEW S \in SUBSET Nat, S # {}
    PROVE  \E x \in S : \A y \in S : x <= y
  <1>1. PICK x \in S : \A y \in S : ~ (<<y, x>> \in OpToRel(<, Nat))
    BY NatLessThanWellFounded, WFMin
  <1>2. ASSUME NEW y \in S PROVE x <= y
    <2>1. ~ (<<y, x>> \in {p \in Nat \X Nat : p[1] < p[2]})
      BY <1>1, Zenon DEF OpToRel
    <2>2. x \in Nat /\ y \in Nat
      OBVIOUS
    <2> QED BY <2>1, <2>2
  <1> QED BY <1>2

LEMMA GreatestNumber ==
    ASSUME NEW n \in Nat, NEW S \in SUBSET (0..n), S # {}
    PROVE  \E x \in S : \A y \in S : y <= x
  <1>1. PICK T : T = {n - y : y \in S}
    OBVIOUS
  <1>2. T \in SUBSET Nat /\ T # {}
    <2>1. \A y \in S : n - y \in Nat
      OBVIOUS
    <2> QED BY <1>1, <2>1
  <1>3. PICK t \in T : \A u \in T : t <= u
    BY <1>2, LeastNumber
  <1>4. PICK x \in S : t = n - x
    BY <1>1
  <1>5. ASSUME NEW y \in S PROVE y <= x
    <2>1. n - y \in T
      BY <1>1
    <2>2. t <= n - y
      BY <1>3, <2>1
    <2> QED BY <1>4, <2>2
  <1> QED BY <1>5

\* Division by a positive number.
LEMMA Divides ==
    ASSUME NEW a \in Nat, NEW n \in Nat \ {0}
    PROVE  /\ a \div n \in Nat /\ a % n \in 0..(n - 1)
           /\ a = n * (a \div n) + (a % n)
  OBVIOUS

LEMMA TimesMonotone ==
    ASSUME NEW n \in Nat, NEW x \in Int, NEW y \in Int, x <= y
    PROVE  n * x <= n * y /\ x * n <= y * n /\ n * x = x * n
  OBVIOUS

LEMMA DividesBelow ==
    ASSUME NEW a \in Nat, NEW n \in Nat \ {0}, NEW m \in Nat, a < m * n
    PROVE  a \div n < m
  <1>1. a \div n \in Nat /\ a = n * (a \div n) + (a % n) /\ a % n \in Nat
    BY Divides
  <1>2. PICK q \in Nat : q = a \div n
    BY <1>1
  <1>3. m <= q => m * n <= n * q
    BY <1>2, TimesMonotone
  <1>4. n * q <= a
    BY <1>1, <1>2
  <1>5. m * n \in Int /\ n * q \in Int
    BY <1>2
  <1>6. ~(m <= q)
    BY <1>3, <1>4, <1>5
  <1> QED BY <1>2, <1>6

LEMMA DividesMonotone ==
    ASSUME NEW a \in Nat, NEW b \in Nat, NEW n \in Nat \ {0}, a <= b
    PROVE  a \div n <= b \div n
  <1>1. b \div n \in Nat /\ b = n * (b \div n) + (b % n) /\ b % n \in 0..(n - 1)
    BY Divides
  <1>2. PICK q \in Nat : q = b \div n
    BY <1>1
  <1>3. (q + 1) * n = n * q + n
    BY <1>2
  <1>4. b < (q + 1) * n
    BY <1>1, <1>2, <1>3
  <1>5. a < (q + 1) * n
    BY <1>2, <1>4
  <1>6. a \div n < q + 1
    BY <1>5, DividesBelow
  <1>7. a \div n \in Nat
    BY Divides
  <1> QED BY <1>2, <1>6, <1>7

-----------------------------------------------------------------------------
(* Ascending and Picked.                                                    *)

Increasing(f) == \A i, j \in DOMAIN f : i < j => f[i] < f[j]

\* By the least size of a set that cannot be put in order.
LEMMA AscendingExists ==
    ASSUME NEW S \in SUBSET Nat, IsFiniteSet(S)
    PROVE  \E f \in [1..Cardinality(S) -> S] : Increasing(f)
  <1> DEFINE Ordered(T) == \E f \in [1..Cardinality(T) -> T] : Increasing(f)
             Bad == {n \in Nat : \E T \in SUBSET Nat :
                        IsFiniteSet(T) /\ Cardinality(T) = n /\ ~Ordered(T)}
  <1> SUFFICES ASSUME ~Ordered(S)
               PROVE  FALSE
    OBVIOUS
  <1>1. Cardinality(S) \in Bad
    BY FS_CardinalityType
  <1>2. PICK n \in Bad : \A m \in Bad : n <= m
    <2> HIDE DEF Bad
    <2>1. Bad \in SUBSET Nat /\ Bad # {}
      BY <1>1 DEF Bad
    <2> QED BY <2>1, LeastNumber
  <1>3. PICK T \in SUBSET Nat : IsFiniteSet(T) /\ Cardinality(T) = n /\ ~Ordered(T)
    BY <1>2
  <1>4. n # 0
    <2> SUFFICES ASSUME n = 0
                 PROVE  FALSE
      OBVIOUS
    <2>1. [i \in 1..0 |-> 0] \in [1..Cardinality(T) -> T]
      BY <1>3
    <2>2. Increasing([i \in 1..0 |-> 0])
      BY DEF Increasing
    <2> QED BY <1>3, <2>1, <2>2
  <1>5. n \in Nat \ {0}
    BY <1>2, <1>4
  <1>6. T # {}
    BY <1>3, <1>4, FS_EmptySet
  <1>7. PICK x \in T : \A y \in T : x <= y
    BY <1>6, LeastNumber
  <1>8. IsFiniteSet(T \ {x}) /\ Cardinality(T \ {x}) = n - 1
    BY <1>3, FS_RemoveElement
  <1>9. n - 1 \notin Bad
    BY <1>2, <1>5
  <1>10. PICK f \in [1..(n - 1) -> T \ {x}] : Increasing(f)
    <2>1. Ordered(T \ {x})
      <3>1. n - 1 \in Nat /\ T \ {x} \in SUBSET Nat
        BY <1>5
      <3>2. PICK U : U = T \ {x}
        OBVIOUS
      <3>3. Ordered(U)
        BY <1>8, <1>9, <3>1, <3>2
      <3> QED BY <3>2, <3>3
    <2> QED BY <1>8, <2>1
  <1>11. PICK g : g = [i \in 1..n |-> IF i = 1 THEN x ELSE f[i - 1]]
    OBVIOUS
  <1>12. \A i \in 2..n : i - 1 \in 1..(n - 1) /\ g[i] = f[i - 1] /\ g[i] \in T \ {x}
    BY <1>5, <1>10, <1>11
  <1>13. g[1] = x /\ DOMAIN g = 1..n
    BY <1>5, <1>11
  <1>14. g \in [1..n -> T]
    BY <1>11, <1>12, <1>13
  <1>15. ASSUME NEW i \in 1..n, NEW j \in 1..n, i < j
         PROVE  g[i] < g[j]
    <2>1. j \in 2..n
      BY <1>5, <1>15
    <2>2. CASE i = 1
      <3>1. g[j] \in Nat /\ x \in Nat /\ x <= g[j] /\ x # g[j]
        BY <1>7, <1>12, <2>1
      <3> QED BY <1>13, <2>2, <3>1
    <2>3. CASE i # 1
      <3>1. i \in 2..n
        BY <1>5, <2>3
      <3>2. f[i - 1] < f[j - 1]
        <4>1. i - 1 \in DOMAIN f /\ j - 1 \in DOMAIN f /\ i - 1 < j - 1
          BY <1>10, <1>12, <1>15, <2>1, <3>1
        <4> QED BY <1>10, <4>1 DEF Increasing
      <3> QED BY <1>12, <2>1, <3>1, <3>2
    <2> QED BY <2>2, <2>3
  <1>16. Increasing(g)
    BY <1>13, <1>15 DEF Increasing
  <1> QED BY <1>3, <1>14, <1>16

\* Ascending lists a finite set of numbers in increasing order.
LEMMA AscendingLists ==
    ASSUME NEW S \in SUBSET Nat, IsFiniteSet(S)
    PROVE  /\ Cardinality(S) \in Nat
           /\ Ascending(S) \in [1..Cardinality(S) -> S]
           /\ Increasing(Ascending(S))
           /\ IsInjective(Ascending(S))
           /\ \A x \in S : \E i \in 1..Cardinality(S) : Ascending(S)[i] = x
  <1>1. \E f \in [1..Cardinality(S) -> S] :
            \A i, j \in DOMAIN f : i < j => f[i] < f[j]
    BY AscendingExists DEF Increasing
  <1>2. PICK f : f = Ascending(S)
    OBVIOUS
  <1>3. f \in [1..Cardinality(S) -> S] /\ Increasing(f)
    BY <1>1, <1>2 DEF Ascending, Increasing
  <1>4. Cardinality(S) \in Nat
    BY FS_CardinalityType
  <1>5. IsInjective(f)
    <2> SUFFICES ASSUME NEW i \in DOMAIN f, NEW j \in DOMAIN f, f[i] = f[j]
                 PROVE  i = j
      BY DEF IsInjective
    <2>1. i \in Nat /\ j \in Nat /\ f[i] \in Nat /\ f[j] \in Nat
      <3>1. i \in 1..Cardinality(S) /\ j \in 1..Cardinality(S)
        BY <1>3
      <3>2. f[i] \in S /\ f[j] \in S
        BY <1>3, <3>1
      <3>3. f[i] \in Nat /\ f[j] \in Nat
        BY <3>2
      <3>4. i \in Nat /\ j \in Nat
        BY <1>4, <3>1
      <3> QED BY <3>3, <3>4
    <2>2. ~(i < j) /\ ~(j < i)
      BY <1>3, <2>1 DEF Increasing
    <2> QED BY <2>1, <2>2
  <1>6. f \in Injection(1..Cardinality(S), S)
    BY <1>3, <1>5 DEF Injection
  <1>7. Cardinality(1..Cardinality(S)) = Cardinality(S)
    BY <1>4, FS_Interval
  <1>8. f \in Surjection(1..Cardinality(S), S)
    BY <1>6, <1>7, FS_Injection
  <1> QED BY <1>2, <1>3, <1>4, <1>5, <1>8 DEF Surjection

\* The elements of seq at the indices I are picked in this order.
PicksBy(seq, I, m, order) ==
    /\ m \in Nat /\ order \in [1..m -> I] /\ Increasing(order)
    /\ \A x \in I : \E j \in 1..m : order[j] = x
    /\ Picked(seq, I) = [j \in 1..m |-> seq[order[j]]]

LEMMA PickedLists ==
    ASSUME NEW seq, NEW n \in Nat, NEW I \in SUBSET (1..n)
    PROVE  \E m, order : PicksBy(seq, I, m, order)
  <1>1. IsFiniteSet(I) /\ I \in SUBSET Nat
    <2>1. IsFiniteSet(1..n)
      BY FS_Interval
    <2>2. IsFiniteSet(I)
      BY <2>1, FS_Subset
    <2>3. \A x \in 1..n : x \in Nat
      OBVIOUS
    <2> QED BY <2>2, <2>3
  <1>2. PICK order : order = Ascending(I)
    OBVIOUS
  <1>3. PICK m \in Nat : m = Cardinality(I)
    BY <1>1, AscendingLists
  <1>4. /\ order \in [1..m -> I] /\ Increasing(order)
        /\ \A x \in I : \E j \in 1..m : order[j] = x
    BY <1>1, <1>2, <1>3, AscendingLists
  <1>5. Picked(seq, I) = [j \in 1..m |-> seq[order[j]]]
    BY <1>2, <1>4 DEF Picked
  <1> QED BY <1>3, <1>4, <1>5 DEF PicksBy

-----------------------------------------------------------------------------
(* FlattenSeq.                                                              *)

Parts(seqs, x) == \E b \in DOMAIN seqs : \E j \in DOMAIN seqs[b] : seqs[b][j] = x

\* What the recursive function of FlattenSeq satisfies.
Flattens(f, seqs, n) ==
    f = [i \in 1..n |-> IF i = 1 THEN seqs[i] ELSE f[i - 1] \o seqs[i]]

LEMMA FlattenExists ==
    ASSUME NEW U, NEW seqs \in Seq(Seq(U))
    PROVE  \A n \in 1..Len(seqs) : \E f \in [1..n -> Seq(U)] : Flattens(f, seqs, n)
  <1> DEFINE Good(n) == \E f \in [1..n -> Seq(U)] : Flattens(f, seqs, n)
             Bad == {n \in 1..Len(seqs) : ~Good(n)}
  <1> SUFFICES ASSUME Bad # {}
               PROVE  FALSE
    OBVIOUS
  <1>1. PICK n \in Bad : \A m \in Bad : n <= m
    <2>1. Bad \in SUBSET Nat
      OBVIOUS
    <2> HIDE DEF Bad
    <2> QED BY <2>1, LeastNumber
  <1>2. n \in 1..Len(seqs) /\ ~Good(n)
    BY <1>1
  <1>3. CASE n = 1
    <2>1. PICK f : f = [i \in 1..1 |-> seqs[1]]
      OBVIOUS
    <2>2. f \in [1..n -> Seq(U)]
      BY <1>2, <1>3, <2>1
    <2>3. Flattens(f, seqs, n)
      BY <1>3, <2>1 DEF Flattens
    <2> QED BY <1>2, <2>2, <2>3
  <1>4. CASE n # 1
    <2>1. n - 1 \in 1..Len(seqs) /\ n - 1 \notin Bad
      <3> HIDE DEF Bad, Good
      <3>1. n - 1 \in 1..Len(seqs) /\ n \in Nat
        BY <1>2, <1>4
      <3> QED BY <1>1, <3>1
    <2>2. PICK f \in [1..(n - 1) -> Seq(U)] : Flattens(f, seqs, n - 1)
      BY <2>1
    <2>3. PICK g : g = [i \in 1..n |-> IF i = n THEN f[n - 1] \o seqs[n] ELSE f[i]]
      OBVIOUS
    <2>4. \A i \in 1..(n - 1) : g[i] = f[i]
      <3>1. \A i \in 1..(n - 1) : i \in 1..n /\ i # n
        BY <2>1
      <3> QED BY <2>3, <3>1
    <2>5. g[n] = f[n - 1] \o seqs[n] /\ g[n] \in Seq(U)
      <3>1. g[n] = f[n - 1] \o seqs[n]
        <4>1. n \in 1..n
          BY <1>2
        <4> QED BY <2>3, <4>1
      <3>2. f[n - 1] \in Seq(U) /\ seqs[n] \in Seq(U)
        BY <1>2, <2>1, <2>2
      <3> QED BY <3>1, <3>2
    <2>6. g \in [1..n -> Seq(U)]
      <3>1. \A i \in 1..n : i = n \/ i \in 1..(n - 1)
        BY <1>2
      <3> QED BY <2>2, <2>3, <2>4, <2>5, <3>1
    <2>7. ASSUME NEW i \in 1..n
          PROVE  g[i] = IF i = 1 THEN seqs[i] ELSE g[i - 1] \o seqs[i]
      <3>1. CASE i = n
        <4>1. n - 1 \in 1..(n - 1)
          BY <2>1
        <4> QED BY <1>4, <2>4, <2>5, <3>1, <4>1
      <3>2. CASE i # n
        <4>1. i \in 1..(n - 1) /\ (i # 1 => i - 1 \in 1..(n - 1))
          BY <1>2, <3>2
        <4>2. f[i] = IF i = 1 THEN seqs[i] ELSE f[i - 1] \o seqs[i]
          BY <2>2, <4>1 DEF Flattens
        <4> QED BY <2>4, <4>1, <4>2
      <3> QED BY <3>1, <3>2
    <2>8. Flattens(g, seqs, n)
      BY <2>3, <2>7 DEF Flattens
    <2> QED BY <1>2, <2>6, <2>8
  <1> QED BY <1>3, <1>4

\* FlattenSeq keeps the elements of the sequences.
LEMMA FlattenKeeps ==
    ASSUME NEW U, NEW seqs \in Seq(Seq(U))
    PROVE  /\ FlattenSeq(seqs) \in Seq(U)
           /\ \A x : x \in ToSet(FlattenSeq(seqs)) <=> Parts(seqs, x)
  <1>1. PICK n \in Nat : n = Len(seqs)
    OBVIOUS
  <1>2. CASE n = 0
    <2>1. seqs = <<>>
      BY <1>1, <1>2, EmptySeq
    <2>2. FlattenSeq(seqs) = seqs
      BY <1>1, <1>2 DEF FlattenSeq
    <2>3. <<>> \in Seq(U) /\ ToSet(<<>>) = {} /\ DOMAIN <<>> = {}
      BY DEF ToSet
    <2> QED BY <2>1, <2>2, <2>3 DEF Parts
  <1>3. CASE n # 0
    <2>1. n \in 1..Len(seqs)
      BY <1>1, <1>3
    <2>2. PICK h : h = CHOOSE f : f = [i \in 1..Len(seqs) |->
                                         IF i = 1 THEN seqs[i] ELSE f[i - 1] \o seqs[i]]
      OBVIOUS
    <2>3. FlattenSeq(seqs) = h[n]
      BY <1>1, <1>3, <2>2 DEF FlattenSeq
    <2>4. Flattens(h, seqs, n)
      <3>1. \E f : f = [i \in 1..Len(seqs) |->
                          IF i = 1 THEN seqs[i] ELSE f[i - 1] \o seqs[i]]
        <4>1. PICK f \in [1..n -> Seq(U)] : Flattens(f, seqs, n)
          BY <2>1, FlattenExists
        <4>2. f = [i \in 1..Len(seqs) |->
                     IF i = 1 THEN seqs[i] ELSE f[i - 1] \o seqs[i]]
          BY <1>1, <4>1 DEF Flattens
        <4> QED BY <4>2
      <3> QED BY <1>1, <2>2, <3>1 DEF Flattens
    <2>5. \A i \in 1..n : h[i] = IF i = 1 THEN seqs[i] ELSE h[i - 1] \o seqs[i]
      BY <2>4 DEF Flattens
    <2> DEFINE Good(i) == /\ h[i] \in Seq(U)
                          /\ \A x : x \in ToSet(h[i]) <=>
                               \E b \in 1..i : \E j \in DOMAIN seqs[b] : seqs[b][j] = x
               Bad == {i \in 1..n : ~Good(i)}
    <2>6. Bad = {}
      <3> SUFFICES ASSUME Bad # {}
                   PROVE  FALSE
        OBVIOUS
      <3>1. PICK i \in Bad : \A m \in Bad : i <= m
        <4>1. Bad \in SUBSET Nat
          OBVIOUS
        <4> HIDE DEF Bad
        <4> QED BY <4>1, LeastNumber
      <3>2. i \in 1..n /\ ~Good(i) /\ seqs[i] \in Seq(U)
        BY <1>1, <3>1
      <3>3. CASE i = 1
        <4>1. h[i] = seqs[1]
          BY <2>5, <3>2, <3>3
        <4>2. \A x : x \in ToSet(h[i]) <=> \E j \in DOMAIN seqs[1] : seqs[1][j] = x
          BY <4>1 DEF ToSet
        <4>3. \A b \in 1..i : b = 1
          BY <3>3
        <4> QED BY <3>2, <3>3, <4>1, <4>2, <4>3
      <3>4. CASE i # 1
        <4>1. i - 1 \in 1..n /\ i - 1 \notin Bad
          <5> HIDE DEF Bad, Good
          <5>1. i - 1 \in 1..n /\ i \in Nat
            BY <3>2, <3>4
          <5> QED BY <3>1, <5>1
        <4>2. Good(i - 1)
          BY <4>1
        <4>3. h[i] = h[i - 1] \o seqs[i] /\ h[i - 1] \in Seq(U)
          BY <2>5, <3>2, <3>4, <4>2
        <4>4. PICK p \in Seq(U), q \in Seq(U) : p = h[i - 1] /\ q = seqs[i]
          BY <3>2, <4>3
        <4>5. p \o q \in Seq(U) /\ ToSet(p \o q) = ToSet(p) \cup ToSet(q)
          <5>1. \A j \in 1..Len(p) : j \in 1..Len(p \o q) /\ (p \o q)[j] = p[j]
            OBVIOUS
          <5>2. \A j \in 1..Len(q) : Len(p) + j \in 1..Len(p \o q) /\ (p \o q)[Len(p) + j] = q[j]
            OBVIOUS
          <5>3. \A j \in 1..Len(p \o q) :
                   \/ j \in 1..Len(p) /\ (p \o q)[j] = p[j]
                   \/ j - Len(p) \in 1..Len(q) /\ (p \o q)[j] = q[j - Len(p)]
            OBVIOUS
          <5>4. DOMAIN p = 1..Len(p) /\ DOMAIN q = 1..Len(q) /\ DOMAIN (p \o q) = 1..Len(p \o q)
            OBVIOUS
          <5>5. ToSet(p \o q) \subseteq ToSet(p) \cup ToSet(q)
            BY <5>3, <5>4 DEF ToSet
          <5>6. ToSet(p) \subseteq ToSet(p \o q) /\ ToSet(q) \subseteq ToSet(p \o q)
            <6>1. \A x \in ToSet(p) : x \in ToSet(p \o q)
              BY <5>1, <5>4 DEF ToSet
            <6>2. ASSUME NEW x \in ToSet(q) PROVE x \in ToSet(p \o q)
              <7>1. PICK j \in 1..Len(q) : x = q[j]
                BY <5>4 DEF ToSet
              <7>2. PICK m \in 1..Len(p \o q) : (p \o q)[m] = x
                BY <5>2, <7>1
              <7> QED BY <5>4, <7>2 DEF ToSet
            <6> QED BY <6>1, <6>2
          <5> QED BY <5>5, <5>6
        <4>6. \A b : b \in 1..i <=> b \in 1..(i - 1) \/ b = i
          BY <3>2
        <4>7. \A x : x \in ToSet(q) <=> \E j \in DOMAIN seqs[i] : seqs[i][j] = x
          BY <4>4 DEF ToSet
        <4>8. \A x : x \in ToSet(p) <=>
                 \E b \in 1..(i - 1) : \E j \in DOMAIN seqs[b] : seqs[b][j] = x
          BY <4>2, <4>4
        <4>9. Good(i)
          <5>1. h[i] = p \o q
            BY <4>3, <4>4
          <5> QED BY <4>5, <4>6, <4>7, <4>8, <5>1
        <4> QED BY <3>2, <4>9
      <3> QED BY <3>3, <3>4
    <2>7. Good(n)
      BY <1>1, <2>1, <2>6
    <2>8. DOMAIN seqs = 1..n
      BY <1>1
    <2> QED BY <2>3, <2>7, <2>8 DEF Parts
  <1> QED BY <1>2, <1>3

-----------------------------------------------------------------------------
(* MakeBatches.                                                             *)

\* Units as rangeUnits and LatestUnits make them: month by month, and the
\* units of a month are of one period.
InPeriods(units) ==
    /\ units \in Seq(Units)
    /\ \A i, j \in DOMAIN units :
          /\ i <= j => units[i].key.month <= units[j].key.month
          /\ units[i].key.month = units[j].key.month => SamePeriod(units[i], units[j])

LEMMA UnitMonths ==
    \A unit \in Units : unit.key \in Keys /\ unit.key.month \in Nat
  <1>1. Month(LastDay) \in Int
    BY RateAssumption DEF Month
  <1> QED BY <1>1 DEF Units, Keys

\* The first unit of a period opens a batch.
LEMMA FirstOpens ==
    ASSUME NEW units, NEW i \in Nat \ {0},
           \A j \in 1..(i - 1) : ~SamePeriod(units[j], units[i])
    PROVE  (Cardinality({j \in 1..i : SamePeriod(units[j], units[i])}) - 1)
              % MaxSeriesPerRequest = 0
  <1>1. SamePeriod(units[i], units[i])
    BY DEF SamePeriod
  <1>2. {j \in 1..i : SamePeriod(units[j], units[i])} = {i}
    <2>1. \A j \in 1..i : j = i \/ j \in 1..(i - 1)
      OBVIOUS
    <2>2. i \in 1..i
      OBVIOUS
    <2> QED BY <1>1, <2>1, <2>2
  <1>3. Cardinality({j \in 1..i : SamePeriod(units[j], units[i])}) = 1
    BY <1>2, FS_Singleton
  <1> QED BY <1>3, BatchAssumption

\* The heads of the batches, with the unit before which each batch ends.
LEMMA BatchBounds ==
    ASSUME NEW units, InPeriods(units)
    PROVE  \E m \in Nat : \E lo, hi \in [1..m -> 1..Len(units)] :
              /\ MakeBatches(units) = [b \in 1..m |-> SubSeq(units, lo[b], hi[b])]
              /\ \A b \in 1..m :
                    /\ lo[b] <= hi[b]
                    /\ \A i \in (lo[b] + 1)..hi[b] :
                          \E j \in 1..(i - 1) : SamePeriod(units[j], units[i])
              /\ \A i \in 1..Len(units) : \E b \in 1..m : i \in lo[b]..hi[b]
  <1> DEFINE Opens(i) == (Cardinality({j \in 1..i : SamePeriod(units[j], units[i])}) - 1)
                            % MaxSeriesPerRequest = 0
  <1>1. PICK n \in Nat : n = Len(units) /\ DOMAIN units = 1..n
    BY DEF InPeriods
  <1>2. PICK H : H = {i \in 1..n : Opens(i)}
    OBVIOUS
  <1>3. \A i \in 1..n : i \in H \/ \E j \in 1..(i - 1) : SamePeriod(units[j], units[i])
    <2> SUFFICES ASSUME NEW i \in 1..n,
                        \A j \in 1..(i - 1) : ~SamePeriod(units[j], units[i])
                 PROVE  i \in H
      OBVIOUS
    <2>1. i \in Nat \ {0}
      OBVIOUS
    <2>2. Opens(i)
      BY <2>1, FirstOpens
    <2> QED BY <1>2, <2>2
  <1>4. H \in SUBSET (1..n) /\ H \in SUBSET Nat /\ IsFiniteSet(H)
    <2>1. H \in SUBSET (1..n)
      BY <1>2
    <2>2. IsFiniteSet(1..n)
      BY FS_Interval
    <2>3. \A x \in 1..n : x \in Nat
      OBVIOUS
    <2> QED BY <2>1, <2>2, <2>3, FS_Subset
  <1>5. PICK lo : lo = Ascending(H)
    OBVIOUS
  <1>6. PICK m \in Nat : m = Cardinality(H)
    BY <1>4, AscendingLists
  <1>7. /\ lo \in [1..m -> H]
        /\ \A b, e \in 1..m : b < e => lo[b] < lo[e]
        /\ \A x \in H : \E b \in 1..m : lo[b] = x
    BY <1>4, <1>5, <1>6, AscendingLists DEF Increasing
  <1>8. \A b \in 1..m : lo[b] \in 1..n
    BY <1>4, <1>7
  <1>9. Len(lo) = m
    BY <1>7
  <1>10. PICK hi : hi = [b \in 1..m |-> IF b = m THEN n ELSE lo[b + 1] - 1]
    OBVIOUS
  <1>11. MakeBatches(units) = [b \in 1..m |-> SubSeq(units, lo[b], hi[b])]
    <2>1. H = {i \in DOMAIN units : Opens(i)}
      BY <1>1, <1>2
    <2>2. MakeBatches(units) =
            [b \in DOMAIN lo |-> SubSeq(units, lo[b],
                                        IF b = Len(lo) THEN Len(units) ELSE lo[b + 1] - 1)]
      BY <1>5, <2>1 DEF MakeBatches
    <2> QED BY <1>1, <1>7, <1>9, <1>10, <2>2
  <1>12. ASSUME NEW b \in 1..m
         PROVE  hi[b] \in 1..n /\ lo[b] <= hi[b]
    <2>1. lo[b] \in 1..n
      BY <1>8
    <2>2. CASE b = m
      BY <1>10, <2>1, <2>2
    <2>3. CASE b # m
      <3>1. b + 1 \in 1..m /\ b < b + 1
        BY <1>6, <2>3
      <3>2. lo[b] < lo[b + 1] /\ lo[b + 1] \in 1..n
        BY <1>7, <1>8, <3>1
      <3> QED BY <1>10, <2>1, <2>3, <3>2
    <2> QED BY <2>2, <2>3
  <1>13. ASSUME NEW b \in 1..m, NEW i \in (lo[b] + 1)..hi[b]
         PROVE  \E j \in 1..(i - 1) : SamePeriod(units[j], units[i])
    <2>1. lo[b] \in 1..n /\ hi[b] \in 1..n
      BY <1>8, <1>12
    <2>2. i \in 1..n /\ lo[b] < i /\ i <= hi[b]
      BY <2>1
    <2>3. i \notin H
      <3> SUFFICES ASSUME i \in H
                   PROVE  FALSE
        OBVIOUS
      <3>1. PICK e \in 1..m : lo[e] = i
        BY <1>7
      <3>2. ~(e < b) /\ e # b
        <4>1. e < b => lo[e] < lo[b]
          BY <1>7
        <4> QED BY <2>1, <2>2, <3>1, <4>1
      <3>3. b < e /\ b # m
        BY <1>6, <3>2
      <3>4. b + 1 \in 1..m /\ hi[b] = lo[b + 1] - 1 /\ lo[b + 1] \in 1..n
        BY <1>6, <1>8, <1>10, <3>3
      <3>5. lo[b + 1] <= lo[e]
        <4>1. CASE b + 1 = e
          BY <3>4, <4>1
        <4>2. CASE b + 1 # e
          <5>1. b + 1 < e
            BY <1>6, <3>3, <4>2
          <5>2. lo[b + 1] < lo[e] /\ lo[e] \in 1..n
            BY <1>7, <1>8, <3>4, <5>1
          <5> QED BY <3>4, <5>2
        <4> QED BY <4>1, <4>2
      <3> QED BY <2>2, <3>1, <3>4, <3>5
    <2> QED BY <1>3, <2>2, <2>3
  <1>14. ASSUME NEW i \in 1..n
         PROVE  \E b \in 1..m : i \in lo[b]..hi[b]
    <2>1. PICK B : B = {b \in 1..m : lo[b] <= i}
      OBVIOUS
    <2>2. B # {}
      <3>1. 1 \in 1..n /\ ~\E j \in 1..(1 - 1) : SamePeriod(units[j], units[1])
        OBVIOUS
      <3>2. PICK b \in 1..m : lo[b] = 1
        BY <1>3, <1>7, <3>1
      <3> QED BY <2>1, <3>2
    <2>3. B \in SUBSET (0..m)
      BY <1>6, <2>1
    <2>4. PICK b \in B : \A e \in B : e <= b
      BY <1>6, <2>2, <2>3, GreatestNumber
    <2>5. b \in 1..m /\ lo[b] <= i /\ lo[b] \in 1..n /\ hi[b] \in 1..n
      BY <1>8, <1>12, <2>1, <2>4
    <2>6. i <= hi[b]
      <3>1. CASE b = m
        BY <1>10, <2>5, <3>1
      <3>2. CASE b # m
        <4>1. b + 1 \in 1..m /\ b + 1 \notin B /\ lo[b + 1] \in 1..n
          BY <1>6, <1>8, <2>4, <2>5, <3>2
        <4>2. ~(lo[b + 1] <= i) /\ hi[b] = lo[b + 1] - 1
          BY <1>10, <2>1, <2>5, <3>2, <4>1
        <4> QED BY <4>1, <4>2
      <3> QED BY <3>1, <3>2
    <2> QED BY <2>5, <2>6
  <1>15. lo \in [1..m -> 1..n] /\ hi \in [1..m -> 1..n]
    BY <1>7, <1>8, <1>10, <1>12
  <1> QED BY <1>1, <1>6, <1>11, <1>12, <1>13, <1>14, <1>15

\* Between two heads the period does not change.
LEMMA OnePeriod ==
    ASSUME NEW units, InPeriods(units),
           NEW lo \in 1..Len(units), NEW hi \in 1..Len(units),
           \A i \in (lo + 1)..hi : \E j \in 1..(i - 1) : SamePeriod(units[j], units[i])
    PROVE  \A i \in lo..hi : SamePeriod(units[lo], units[i])
  <1> DEFINE Bad == {i \in lo..hi : ~SamePeriod(units[lo], units[i])}
  <1> SUFFICES ASSUME Bad # {}
               PROVE  FALSE
    OBVIOUS
  <1>1. lo \in Nat /\ hi \in Nat /\ Len(units) \in Nat /\ DOMAIN units = 1..Len(units)
    BY DEF InPeriods
  <1>2. PICK i \in Bad : \A e \in Bad : i <= e
    <2>1. Bad \in SUBSET Nat
      BY <1>1
    <2> HIDE DEF Bad
    <2> QED BY <2>1, LeastNumber
  <1>3. i \in lo..hi /\ ~SamePeriod(units[lo], units[i])
    BY <1>2
  <1>4. i # lo
    BY <1>3 DEF SamePeriod
  <1>5. i - 1 \in lo..hi /\ i \in (lo + 1)..hi
    BY <1>1, <1>3, <1>4
  <1>6. i - 1 \notin Bad
    <2> HIDE DEF Bad
    <2> QED BY <1>1, <1>2, <1>3
  <1>7. SamePeriod(units[lo], units[i - 1])
    BY <1>5, <1>6
  <1>8. PICK j \in 1..(i - 1) : SamePeriod(units[j], units[i])
    BY <1>5
  <1>9. i \in DOMAIN units /\ i - 1 \in DOMAIN units /\ j \in DOMAIN units /\ j <= i - 1
        /\ i - 1 <= i
    BY <1>1, <1>3, <1>5, <1>8
  <1>10. \A e \in DOMAIN units : units[e].key.month \in Nat
    BY UnitMonths DEF InPeriods
  <1>11. units[i - 1].key.month = units[i].key.month
    <2>1. units[j].key.month = units[i].key.month
      BY <1>8 DEF SamePeriod
    <2>2. /\ units[j].key.month <= units[i - 1].key.month
          /\ units[i - 1].key.month <= units[i].key.month
      BY <1>9 DEF InPeriods
    <2> QED BY <1>9, <1>10, <2>1, <2>2
  <1>12. SamePeriod(units[i - 1], units[i])
    BY <1>9, <1>11 DEF InPeriods
  <1> QED BY <1>3, <1>7, <1>12 DEF SamePeriod

\* Batches of claimed units: none is empty, and a batch is of one period.
BatchesOf(batches, units) ==
    /\ batches \in Seq(Seq(Units))
    /\ \A b \in DOMAIN batches :
          /\ 1 \in DOMAIN batches[b]
          /\ \A j \in DOMAIN batches[b] : /\ batches[b][j] \in ToSet(units)
                                          /\ SamePeriod(batches[b][1], batches[b][j])

LEMMA MakesBatches ==
    ASSUME NEW units, InPeriods(units)
    PROVE  /\ BatchesOf(MakeBatches(units), units)
           /\ \A x \in ToSet(units) : Parts(MakeBatches(units), x)
  <1>0. units \in Seq(Units) /\ DOMAIN units = 1..Len(units) /\ Len(units) \in Nat
    BY DEF InPeriods
  <1>1. PICK m, lo, hi :
          /\ m \in Nat
          /\ lo \in [1..m -> 1..Len(units)] /\ hi \in [1..m -> 1..Len(units)]
          /\ MakeBatches(units) = [b \in 1..m |-> SubSeq(units, lo[b], hi[b])]
          /\ \A b \in 1..m :
                /\ lo[b] <= hi[b]
                /\ \A i \in (lo[b] + 1)..hi[b] :
                      \E j \in 1..(i - 1) : SamePeriod(units[j], units[i])
          /\ \A i \in 1..Len(units) : \E b \in 1..m : i \in lo[b]..hi[b]
    BY BatchBounds
  <1>2. PICK batches : batches = MakeBatches(units)
    OBVIOUS
  <1>3. ASSUME NEW b \in 1..m
        PROVE  /\ batches[b] \in Seq(Units)
               /\ DOMAIN batches[b] = 1..(hi[b] - lo[b] + 1)
               /\ \A j \in DOMAIN batches[b] : /\ lo[b] + j - 1 \in lo[b]..hi[b]
                                               /\ lo[b] + j - 1 \in DOMAIN units
                                               /\ batches[b][j] = units[lo[b] + j - 1]
    <2>1. lo[b] \in 1..Len(units) /\ hi[b] \in 1..Len(units) /\ lo[b] <= hi[b]
      BY <1>1
    <2>2. PICK l \in 1..Len(units), h \in 1..Len(units) : l = lo[b] /\ h = hi[b] /\ l <= h
      BY <2>1
    <2>3. batches[b] = SubSeq(units, l, h)
      BY <1>1, <1>2, <2>2
    <2>4. /\ SubSeq(units, l, h) \in Seq(Units)
          /\ DOMAIN SubSeq(units, l, h) = 1..(h - l + 1)
          /\ \A j \in 1..(h - l + 1) : SubSeq(units, l, h)[j] = units[l + j - 1]
      BY <1>0, <2>2
    <2>5. \A j \in 1..(h - l + 1) : l + j - 1 \in l..h /\ l + j - 1 \in 1..Len(units)
      BY <1>0, <2>2
    <2> QED BY <1>0, <2>2, <2>3, <2>4, <2>5
  <1>4. DOMAIN batches = 1..m /\ batches \in Seq(Seq(Units))
    <2>1. batches = [b \in 1..m |-> batches[b]]
      BY <1>1, <1>2
    <2>2. \A b \in 1..m : batches[b] \in Seq(Units)
      BY <1>3
    <2>3. m \in Nat
      BY <1>1
    <2> QED BY <2>1, <2>2, <2>3
  <1>5. ASSUME NEW b \in 1..m
        PROVE  /\ 1 \in DOMAIN batches[b]
               /\ \A j \in DOMAIN batches[b] : /\ batches[b][j] \in ToSet(units)
                                               /\ SamePeriod(batches[b][1], batches[b][j])
    <2>1. lo[b] \in 1..Len(units) /\ hi[b] \in 1..Len(units) /\ lo[b] <= hi[b]
      BY <1>1
    <2>2. 1 \in DOMAIN batches[b]
      BY <1>0, <1>3, <2>1
    <2>3. batches[b][1] = units[lo[b]]
      BY <1>0, <1>3, <2>1, <2>2
    <2>4. \A i \in lo[b]..hi[b] : SamePeriod(units[lo[b]], units[i])
      BY <1>1, <2>1, OnePeriod
    <2> QED BY <1>3, <2>2, <2>3, <2>4 DEF ToSet
  <1>6. ASSUME NEW x \in ToSet(units)
        PROVE  Parts(batches, x)
    <2>1. PICK i \in 1..Len(units) : units[i] = x
      BY <1>0 DEF ToSet
    <2>2. PICK b \in 1..m : i \in lo[b]..hi[b]
      BY <1>1
    <2>3. lo[b] \in 1..Len(units) /\ hi[b] \in 1..Len(units)
      BY <1>1
    <2>4. PICK j \in Int : j = i - lo[b] + 1
      BY <2>3
    <2>5. j \in 1..(hi[b] - lo[b] + 1) /\ lo[b] + j - 1 = i
      BY <1>0, <2>2, <2>3, <2>4
    <2>6. j \in DOMAIN batches[b] /\ batches[b][j] = x
      BY <1>3, <2>1, <2>5
    <2> QED BY <1>4, <2>6 DEF Parts
  <1> QED BY <1>2, <1>4, <1>5, <1>6 DEF BatchesOf

-----------------------------------------------------------------------------
(* Months, and the units of a call.                                         *)

LEMMA MonthOfDay ==
    ASSUME NEW day \in Nat \ {0}
    PROVE  Month(day) \in Nat \ {0} /\ FirstOf(Month(day)) <= day
  <1>1. PICK n \in Nat \ {0} : n = DaysPerMonth
    BY RateAssumption
  <1>2. PICK a \in Nat : a = day - 1
    OBVIOUS
  <1>3. a \div n \in Nat /\ a % n \in 0..(n - 1) /\ a = n * (a \div n) + (a % n)
    BY <1>1, <1>2, Divides
  <1>4. PICK q \in Nat : q = a \div n
    BY <1>3
  <1>5. Month(day) = q + 1
    BY <1>1, <1>2, <1>4 DEF Month
  <1>6. FirstOf(q + 1) = q * n + 1 /\ q * n \in Int
    BY <1>1, <1>4 DEF FirstOf
  <1>7. q * n = n * q
    BY <1>1, <1>4
  <1>8. q * n <= a
    BY <1>1, <1>3, <1>4, <1>6, <1>7
  <1> QED BY <1>2, <1>4, <1>5, <1>6, <1>8

LEMMA MonthsInOrder ==
    ASSUME NEW d \in Nat \ {0}, NEW e \in Nat \ {0}, d <= e
    PROVE  Month(d) <= Month(e)
  <1>1. PICK n \in Nat \ {0} : n = DaysPerMonth
    BY RateAssumption
  <1>2. PICK a \in Nat, b \in Nat : a = d - 1 /\ b = e - 1 /\ a <= b
    OBVIOUS
  <1>3. a \div n <= b \div n /\ a \div n \in Nat /\ b \div n \in Nat
    BY <1>1, <1>2, Divides, DividesMonotone
  <1> QED BY <1>1, <1>2, <1>3 DEF Month

LEMMA BoundsOfMonth ==
    ASSUME NEW m \in Nat \ {0}, NEW p \in Nat \ {0}, m <= p
    PROVE  /\ FirstOf(m) \in Nat \ {0} /\ LastOf(m) \in Nat /\ FirstOf(m) <= LastOf(m)
           /\ FirstOf(p) \in Int /\ FirstOf(m) <= FirstOf(p)
  <1>1. PICK n \in Nat \ {0} : n = DaysPerMonth
    BY RateAssumption
  <1>2. PICK x \in Nat, y \in Nat : x = m - 1 /\ y = p - 1 /\ x <= y
    OBVIOUS
  <1>3. x * n \in Nat /\ y * n \in Nat /\ x * n <= y * n
    BY <1>1, <1>2, TimesMonotone
  <1>4. (x + 1) * n = x * n + n
    BY <1>1, <1>2
  <1>5. FirstOf(m) = x * n + 1 /\ LastOf(m) = (x + 1) * n /\ FirstOf(p) = y * n + 1
    BY <1>1, <1>2 DEF FirstOf, LastOf
  <1> QED BY <1>1, <1>3, <1>4, <1>5

\* The key of a unit of Latest.
LatestKey(s) == [kind |-> "latest", series |-> s, month |-> 0]

OfLatest(units, series) ==
    /\ Len(units) = Len(series)
    /\ \A i \in 1..Len(series) : units[i].key = LatestKey(series[i])

OfRange(units) ==
    \A unit \in ToSet(units) :
        /\ unit.key.kind = "range"
        /\ unit.fetchTo \in FirstOf(unit.key.month)..LastOf(unit.key.month)

LEMMA LatestUnitsOK ==
    ASSUME NEW series \in Seq(Series)
    PROVE  InPeriods(LatestUnits(series)) /\ OfLatest(LatestUnits(series), series)
  <1>1. PICK n \in Nat : n = Len(series) /\ DOMAIN series = 1..n
    OBVIOUS
  <1>2. PICK units : units = LatestUnits(series)
    OBVIOUS
  <1>3. units = [i \in 1..n |-> [key |-> LatestKey(series[i]),
                                 fetchTo |-> 0, permanent |-> FALSE]]
    BY <1>1, <1>2 DEF LatestUnits, LatestKey
  <1>4. \A i \in 1..n : /\ units[i] = [key |-> LatestKey(series[i]),
                                       fetchTo |-> 0, permanent |-> FALSE]
                        /\ units[i] \in Units
    <2>1. LastDay \in Nat
      BY RateAssumption
    <2>2. \A i \in 1..n : LatestKey(series[i]) \in Keys
      BY <1>1 DEF LatestKey, Keys
    <2> QED BY <1>3, <2>1, <2>2 DEF Units
  <1>5. units \in Seq(Units) /\ Len(units) = n /\ DOMAIN units = 1..n
    BY <1>3, <1>4
  <1>6. \A i \in 1..n : /\ units[i].key = LatestKey(series[i])
                        /\ units[i].key.kind = "latest" /\ units[i].key.month = 0
                        /\ units[i].fetchTo = 0
    <2> SUFFICES ASSUME NEW i \in 1..n
                 PROVE  /\ units[i].key = LatestKey(series[i])
                        /\ units[i].key.kind = "latest" /\ units[i].key.month = 0
                        /\ units[i].fetchTo = 0
      OBVIOUS
    <2>1. units[i].key = LatestKey(series[i]) /\ units[i].fetchTo = 0
      <3>1. PICK k, p : k = LatestKey(series[i]) /\ p = FALSE
        BY Zenon
      <3>2. units[i] = [key |-> k, fetchTo |-> 0, permanent |-> p]
        BY <1>4, <3>1, Zenon
      <3> QED BY <3>1, <3>2
    <2>2. LatestKey(series[i]).kind = "latest" /\ LatestKey(series[i]).month = 0
      BY DEF LatestKey
    <2> QED BY <2>1, <2>2
  <1> QED BY <1>1, <1>2, <1>5, <1>6 DEF InPeriods, OfLatest, SamePeriod

LEMMA RangeUnitsOK ==
    ASSUME NEW series \in Seq(Series), series # <<>>, today \in Days,
           NEW from \in Nat \ {0}, NEW to \in Nat \ {0}
    PROVE  /\ InPeriods(RangeUnits(series, from, to))
           /\ OfRange(RangeUnits(series, from, to))
  <1>1. PICK n \in Nat \ {0} : n = Len(series) /\ DOMAIN series = 1..n
    BY EmptySeq
  <1>2. today \in Nat \ {0} /\ today <= LastDay /\ LastDay \in Nat \ {0}
    BY RateAssumption DEF Days
  <1>3. PICK first \in Nat \ {0} : first = Month(from)
    BY MonthOfDay
  <1>4. PICK last \in Nat \ {0} :
          last = (IF to > today THEN Month(today) ELSE Month(to)) /\ last <= Month(today)
    <2>1. Month(today) \in Nat \ {0} /\ Month(to) \in Nat \ {0}
      BY <1>2, MonthOfDay
    <2>2. ~(to > today) => Month(to) <= Month(today)
      BY <1>2, MonthsInOrder
    <2> QED BY <2>1, <2>2
  <1>5. PICK size : size = IF last < first THEN 0 ELSE (last - first + 1) * n
    OBVIOUS
  <1>6. size \in Nat
    <2>1. CASE last < first
      BY <1>5, <2>1
    <2>2. CASE ~(last < first)
      <3>1. PICK x \in Nat : x = last - first + 1
        BY <2>2
      <3>2. x * n \in Nat
        BY <3>1
      <3> QED BY <1>5, <2>2, <3>1, <3>2
    <2> QED BY <2>1, <2>2
  <1>7. PICK month : month = [i \in 1..size |-> first + ((i - 1) \div n)]
    OBVIOUS
  <1>8. ASSUME NEW i \in 1..size
        PROVE  /\ month[i] \in Nat \ {0} /\ month[i] <= last
               /\ ((i - 1) % n) + 1 \in 1..n
    <2>1. PICK a \in Nat : a = i - 1 /\ a < size
      BY <1>6
    <2>2. a \div n \in Nat /\ a % n \in 0..(n - 1)
      BY Divides
    <2>3. ~(last < first)
      BY <1>5, <1>6, <2>1
    <2>4. PICK x \in Nat : x = last - first + 1 /\ size = x * n
      BY <1>5, <2>3
    <2>5. a \div n < x
      BY <2>1, <2>4, DividesBelow
    <2> QED BY <1>7, <2>1, <2>2, <2>4, <2>5
  <1>9. \A i, j \in 1..size : i <= j => month[i] <= month[j]
    <2> SUFFICES ASSUME NEW i \in 1..size, NEW j \in 1..size, i <= j
                 PROVE  month[i] <= month[j]
      OBVIOUS
    <2>1. PICK a \in Nat, b \in Nat : a = i - 1 /\ b = j - 1 /\ a <= b
      BY <1>6
    <2>2. a \div n <= b \div n /\ a \div n \in Nat /\ b \div n \in Nat
      BY <2>1, Divides, DividesMonotone
    <2> QED BY <1>7, <2>1, <2>2
  <1>10. PICK end : end = [i \in 1..size |->
                             IF LastOf(month[i]) > today THEN today ELSE LastOf(month[i])]
    OBVIOUS
  <1>11. ASSUME NEW i \in 1..size
         PROVE  /\ end[i] \in FirstOf(month[i])..LastOf(month[i])
                /\ end[i] \in 0..LastDay
                /\ month[i] \in 1..Month(LastDay)
    <2>1. Month(today) \in Nat \ {0} /\ FirstOf(Month(today)) <= today
      BY <1>2, MonthOfDay
    <2>2. month[i] \in Nat \ {0} /\ month[i] <= Month(today)
      BY <1>4, <1>8, <2>1
    <2>3. /\ FirstOf(month[i]) \in Nat \ {0} /\ LastOf(month[i]) \in Nat
          /\ FirstOf(month[i]) <= LastOf(month[i])
          /\ FirstOf(Month(today)) \in Int /\ FirstOf(month[i]) <= FirstOf(Month(today))
      BY <2>1, <2>2, BoundsOfMonth
    <2>4. FirstOf(month[i]) <= today
      BY <1>2, <2>1, <2>3
    <2>5. end[i] = IF LastOf(month[i]) > today THEN today ELSE LastOf(month[i])
      BY <1>10
    <2>6. Month(LastDay) \in Nat /\ Month(today) <= Month(LastDay)
      BY <1>2, MonthOfDay, MonthsInOrder
    <2>7. end[i] \in FirstOf(month[i])..LastOf(month[i]) /\ end[i] \in 0..LastDay
      BY <1>2, <2>3, <2>4, <2>5
    <2> QED BY <2>1, <2>2, <2>6, <2>7
  <1>12. PICK units : units = RangeUnits(series, from, to)
    OBVIOUS
  <1>13. units = [i \in 1..size |->
                    [key |-> [kind |-> "range", series |-> series[((i - 1) % n) + 1],
                              month |-> month[i]],
                     fetchTo |-> end[i], permanent |-> month[i] < Month(today)]]
    BY <1>1, <1>3, <1>4, <1>5, <1>7, <1>10, <1>12 DEF RangeUnits
  <1>14. ASSUME NEW i \in 1..size
         PROVE  /\ units[i] \in Units
                /\ units[i].key.kind = "range" /\ units[i].key.month = month[i]
                /\ units[i].fetchTo = end[i]
    <2>1. PICK s \in Series : s = series[((i - 1) % n) + 1]
      BY <1>1, <1>8
    <2>2. PICK p \in BOOLEAN : p = (month[i] < Month(today))
      <3>1. (month[i] < Month(today)) \in BOOLEAN
        OBVIOUS
      <3> QED BY <3>1, Zenon
    <2>3. units[i] = [key |-> [kind |-> "range", series |-> s, month |-> month[i]],
                      fetchTo |-> end[i], permanent |-> p]
      BY <1>13, <2>1, <2>2
    <2>4. [kind |-> "range", series |-> s, month |-> month[i]] \in Keys
      BY <1>11 DEF Keys
    <2> QED BY <1>11, <2>3, <2>4 DEF Units
  <1>15. units \in Seq(Units) /\ DOMAIN units = 1..size
    BY <1>6, <1>13, <1>14
  <1>16. \A i, j \in 1..size : month[i] = month[j] => end[i] = end[j]
    BY <1>10
  <1>17. InPeriods(units)
    BY <1>9, <1>14, <1>15, <1>16 DEF InPeriods, SamePeriod
  <1>18. OfRange(units)
    BY <1>11, <1>14, <1>15 DEF OfRange, ToSet
  <1> QED BY <1>12, <1>17, <1>18

-----------------------------------------------------------------------------
(* The steps of a call, field by field.                                     *)

\* Record w has the fields of v, but for the changed ones.
Kept(v, w, changed) == \A f \in CallFields \ changed : w[f] = v[f]

\* Call c takes a step, the others none.
Moves(c) ==
    /\ IsCall(call'[c])
    /\ \A d \in Callers \ {c} : call'[d] = call[d]

\* Call c is over, with nothing but an error.
EndsWith(c, op, e) ==
    /\ call'[c].pc = "done" /\ call'[c].op = op /\ call'[c].err = e
    /\ Kept(Idle, call'[c], {"pc", "op", "err"})

LEMMA MoveIs ==
    ASSUME Shapes, NEW c \in Callers, NEW v, IsCall(v), Becomes(c, v)
    PROVE  Moves(c) /\ call'[c] = v
  BY CallChanges DEF Moves

LEMMA FailedMove ==
    ASSUME Shapes, NEW c \in Callers, NEW e, Becomes(c, Failed(c, e))
    PROVE  Moves(c) /\ EndsWith(c, call[c].op, e)
  <1>1. PICK v : v = Failed(c, e)
    OBVIOUS
  <1>2. IsCall(v) /\ v.pc = "done" /\ v.op = call[c].op /\ v.err = e
        /\ Kept(Idle, v, {"pc", "op", "err"})
    BY <1>1, IdleShape DEF Failed, IsCall, CallFields, Kept
  <1>3. Moves(c) /\ call'[c] = v
    BY <1>1, <1>2, MoveIs
  <1> QED BY <1>2, <1>3 DEF EndsWith

\* resolve fails.
FailsBy(c, e) ==
    \/ /\ call[c].op = "latest"
       /\ call'[c].pc = "fallback" /\ call'[c].i = 1 /\ call'[c].err = e
       /\ call'[c].ready = {} /\ call'[c].batches = <<>>
       /\ Kept(call[c], call'[c],
               {"pc", "i", "err", "ready", "batches", "reply", "inserts"})
    \/ /\ call[c].op # "latest"
       /\ EndsWith(c, call[c].op, e)

LEMMA FailsMove ==
    ASSUME Shapes, NEW c \in Callers, NEW e, Fails(c, e)
    PROVE  Moves(c) /\ FailsBy(c, e)
  <1>1. CASE call[c].op = "latest"
    <2>1. PICK v : v = [At(c, "fallback") EXCEPT !.err = e, !.ready = {}, !.batches = <<>>,
                                                 !.reply = NoReply, !.inserts = {}]
      OBVIOUS
    <2>2. /\ IsCall(v) /\ v.pc = "fallback" /\ v.i = 1 /\ v.err = e /\ v.ready = {}
          /\ v.batches = <<>>
          /\ Kept(call[c], v, {"pc", "i", "err", "ready", "batches", "reply", "inserts"})
      BY <2>1 DEF Shapes, IsCall, CallFields, At, Kept
    <2>3. Becomes(c, v)
      BY <1>1, <2>1 DEF Fails
    <2>4. Moves(c) /\ call'[c] = v
      BY <2>2, <2>3, MoveIs
    <2> QED BY <1>1, <2>2, <2>4 DEF FailsBy
  <1>2. CASE call[c].op # "latest"
    BY <1>2, FailedMove DEF Fails, FailsBy
  <1> QED BY <1>1, <1>2

\* Latest gives up falling back.
GivesUpBy(c) ==
    \/ /\ call[c].err = "cold"
       /\ call'[c].pc = "states" /\ call'[c].i = 1 /\ call'[c].err = "none"
       /\ call'[c].ready = {} /\ call'[c].got = {}
       /\ Kept(call[c], call'[c], {"pc", "i", "err", "ready", "got"})
    \/ /\ call[c].err # "cold"
       /\ EndsWith(c, call[c].op, call[c].err)

LEMMA GiveUpMove ==
    ASSUME Shapes, NEW c \in Callers, GiveUp(c)
    PROVE  Moves(c) /\ GivesUpBy(c)
  <1>1. CASE call[c].err = "cold"
    <2>1. PICK v : v = [At(c, "states") EXCEPT !.got = {}, !.ready = {}, !.err = "none"]
      OBVIOUS
    <2>2. /\ IsCall(v) /\ v.pc = "states" /\ v.i = 1 /\ v.err = "none" /\ v.ready = {}
          /\ v.got = {}
          /\ Kept(call[c], v, {"pc", "i", "err", "ready", "got"})
      BY <2>1 DEF Shapes, IsCall, CallFields, At, Kept
    <2>3. Becomes(c, v)
      BY <1>1, <2>1 DEF GiveUp
    <2>4. Moves(c) /\ call'[c] = v
      BY <2>2, <2>3, MoveIs
    <2> QED BY <1>1, <2>2, <2>4 DEF GivesUpBy
  <1>2. CASE call[c].err # "cold"
    BY <1>2, FailedMove DEF GiveUp, GivesUpBy
  <1> QED BY <1>1, <1>2

\* A valid request q is taken up.
Starts(c, q) ==
    LET series == NormalizeSeries(q.series)
        units == IF q.op = "latest" THEN LatestUnits(series)
                 ELSE RangeUnits(series, q.from, q.to)
    IN  /\ series # <<>> /\ (q.op # "latest" => q.from <= q.to)
        /\ call'[c].op = q.op /\ call'[c].series = series /\ call'[c].units = units
        /\ call'[c].pc = IF units = <<>> THEN "read"
                         ELSE IF q.op = "revalidate" THEN "baseline" ELSE "states"
        /\ Kept(Idle, call'[c], {"pc", "op", "series", "from", "to", "units"})

LEMMA BeginMove ==
    ASSUME Shapes, NEW c \in Callers, Begin(c)
    PROVE  /\ Moves(c) /\ call[c].pc = "idle"
           /\ \E q \in Requests[c] : EndsWith(c, q.op, "invalid") \/ Starts(c, q)
  <1>1. PICK q \in Requests[c] :
          LET series == NormalizeSeries(q.series)
              valid == series # <<>> /\ (q.op # "latest" => q.from <= q.to)
              units == IF ~valid THEN <<>>
                       ELSE IF q.op = "latest" THEN LatestUnits(series)
                       ELSE RangeUnits(series, q.from, q.to)
          IN  Becomes(c, IF ~valid
                         THEN [Idle EXCEPT !.pc = "done", !.op = q.op, !.err = "invalid"]
                         ELSE [Idle EXCEPT
                 !.op = q.op, !.series = series, !.from = q.from, !.to = q.to,
                 !.units = units,
                 !.pc = IF units = <<>> THEN "read"
                        ELSE IF q.op = "revalidate" THEN "baseline" ELSE "states"])
    BY DEF Begin
  <1>2. PICK series : series = NormalizeSeries(q.series)
    OBVIOUS
  <1>3. CASE ~(series # <<>> /\ (q.op # "latest" => q.from <= q.to))
    <2>1. PICK v : v = [Idle EXCEPT !.pc = "done", !.op = q.op, !.err = "invalid"]
      OBVIOUS
    <2>2. IsCall(v) /\ v.pc = "done" /\ v.op = q.op /\ v.err = "invalid"
          /\ Kept(Idle, v, {"pc", "op", "err"})
      BY <2>1, IdleShape DEF IsCall, CallFields, Kept
    <2>3. Becomes(c, v)
      BY <1>1, <1>2, <1>3, <2>1
    <2>4. Moves(c) /\ call'[c] = v
      BY <2>2, <2>3, MoveIs
    <2>5. EndsWith(c, q.op, "invalid")
      BY <2>2, <2>4 DEF EndsWith
    <2> QED BY <2>4, <2>5 DEF Begin
  <1>4. CASE series # <<>> /\ (q.op # "latest" => q.from <= q.to)
    <2>1. PICK units : units = IF q.op = "latest" THEN LatestUnits(series)
                               ELSE RangeUnits(series, q.from, q.to)
      OBVIOUS
    <2>2. PICK place : place = IF units = <<>> THEN "read"
                               ELSE IF q.op = "revalidate" THEN "baseline" ELSE "states"
      OBVIOUS
    <2>3. PICK v : v = [Idle EXCEPT !.op = q.op, !.series = series, !.from = q.from,
                                    !.to = q.to, !.units = units, !.pc = place]
      OBVIOUS
    <2>4. /\ IsCall(v) /\ v.pc = place /\ v.op = q.op /\ v.series = series /\ v.units = units
          /\ Kept(Idle, v, {"pc", "op", "series", "from", "to", "units"})
      BY <2>3, IdleShape DEF IsCall, CallFields, Kept
    <2>5. Becomes(c, v)
      BY <1>1, <1>2, <1>4, <2>1, <2>2, <2>3
    <2>6. Moves(c) /\ call'[c] = v
      BY <2>4, <2>5, MoveIs
    <2>7. Starts(c, q)
      BY <1>2, <1>4, <2>1, <2>2, <2>4, <2>6 DEF Starts
    <2> QED BY <2>6, <2>7 DEF Begin
  <1> QED BY <1>3, <1>4

\* The cursor goes to the next of n items, or the call goes to another place.
Advances(c, n, place) ==
    IF call[c].i < n
    THEN call'[c].pc = call[c].pc /\ call'[c].i = call[c].i + 1
    ELSE call'[c].pc = place /\ call'[c].i = 1

LEMMA BaselineMove ==
    ASSUME Shapes, NEW c \in Callers, ReadBaseline(c)
    PROVE  /\ Moves(c) /\ call[c].pc = "baseline"
           /\ Advances(c, Len(call[c].units), "states")
           /\ LET k == call[c].units[call[c].i].key
              IN  call'[c].base = [call[c].base EXCEPT ![k] = row[k].done]
           /\ Kept(call[c], call'[c], {"pc", "i", "base"})
  <1>1. PICK k : k = call[c].units[call[c].i].key
    OBVIOUS
  <1>2. PICK b : b = [call[c].base EXCEPT ![k] = row[k].done]
    OBVIOUS
  <1>3. PICK next : next = [call[c] EXCEPT !.base = b]
    OBVIOUS
  <1>4. next = [call[c] EXCEPT !.base[k] = row[k].done]
    BY <1>2, <1>3 DEF Shapes, IsCall, CallFields
  <1>5. PICK more : more = (call[c].i < Len(call[c].units))
    OBVIOUS
  <1>6. PICK v : v = IF more THEN [next EXCEPT !.i = @ + 1]
                     ELSE [next EXCEPT !.pc = "states", !.i = 1]
    OBVIOUS
  <1>7. call[c].pc = "baseline" /\ Becomes(c, v)
    BY <1>1, <1>4, <1>5, <1>6 DEF ReadBaseline
  <1>8. IsCall(next) /\ next.base = b /\ next.pc = call[c].pc /\ next.i = call[c].i
        /\ Kept(call[c], next, {"base"})
    BY <1>3 DEF Shapes, IsCall, CallFields, Kept
  <1>9. /\ IsCall(v) /\ v.base = b /\ Kept(call[c], v, {"pc", "i", "base"})
        /\ IF more THEN v.pc = call[c].pc /\ v.i = call[c].i + 1
           ELSE v.pc = "states" /\ v.i = 1
    BY <1>6, <1>8 DEF IsCall, CallFields, Kept
  <1>10. Moves(c) /\ call'[c] = v
    BY <1>7, <1>9, MoveIs
  <1> QED BY <1>1, <1>2, <1>5, <1>7, <1>9, <1>10 DEF Advances

\* What States shows of a unit settles it.
Settles(c, unit) ==
    IF call[c].op = "revalidate" THEN row[unit.key].done > call[c].base[unit.key]
    ELSE Ready(unit, row[unit.key])

LEMMA StateMove ==
    ASSUME Shapes, NEW c \in Callers, ReadState(c)
    PROVE  /\ Moves(c) /\ call[c].pc = "states"
           /\ LET unit == call[c].units[call[c].i]
              IN  call'[c].ready = call[c].ready \cup
                                     (IF Settles(c, unit) THEN {unit.key} ELSE {})
           /\ \/ Advances(c, Len(call[c].units), "claim")
              \/ /\ Advances(c, Len(call[c].units), "read")
                 /\ KeysOf(call[c].units) \subseteq call'[c].ready
           /\ Kept(call[c], call'[c], {"pc", "i", "ready"})
  <1>1. PICK unit : unit = call[c].units[call[c].i]
    OBVIOUS
  <1>2. PICK ready : ready = call[c].ready \cup
                               (IF Settles(c, unit) THEN {unit.key} ELSE {})
    OBVIOUS
  <1>3. PICK more : more = (call[c].i < Len(call[c].units))
    OBVIOUS
  <1>4. PICK place : place = IF KeysOf(call[c].units) \subseteq ready
                             THEN "read" ELSE "claim"
    OBVIOUS
  <1>5. PICK v : v = IF more THEN [call[c] EXCEPT !.i = @ + 1, !.ready = ready]
                     ELSE [At(c, place) EXCEPT !.ready = ready]
    OBVIOUS
  <1>6. call[c].pc = "states" /\ Becomes(c, v)
    BY <1>1, <1>2, <1>3, <1>4, <1>5 DEF ReadState, Settles
  <1>7. /\ IsCall(v) /\ v.ready = ready /\ Kept(call[c], v, {"pc", "i", "ready"})
        /\ IF more THEN v.pc = call[c].pc /\ v.i = call[c].i + 1
           ELSE v.pc = place /\ v.i = 1
    BY <1>5 DEF Shapes, IsCall, CallFields, Kept, At
  <1>8. Moves(c) /\ call'[c] = v
    BY <1>6, <1>7, MoveIs
  <1> QED BY <1>1, <1>2, <1>3, <1>4, <1>6, <1>7, <1>8 DEF Advances

LEMMA ClaimMove ==
    ASSUME Shapes, NEW c \in Callers, Claim(c)
    PROVE  /\ Moves(c) /\ call[c].pc = "claim"
           /\ row' = [k \in Keys |-> IF k \in KeysOf(ClaimedUnits(c))
                                     THEN [row[k] EXCEPT !.holder = c, !.live = TRUE]
                                     ELSE row[k]]
           /\ \/ /\ ClaimedUnits(c) # <<>>
                 /\ call'[c].pc = "check" /\ call'[c].i = 1 /\ call'[c].ready = {}
                 /\ call'[c].batches = MakeBatches(ClaimedUnits(c))
                 /\ Kept(call[c], call'[c], {"pc", "i", "ready", "batches"})
              \/ ClaimedUnits(c) = <<>> /\ FailsBy(c, "cold")
              \/ /\ ClaimedUnits(c) = <<>>
                 /\ call'[c].pc = "states" /\ call'[c].i = 1 /\ call'[c].ready = {}
                 /\ Kept(call[c], call'[c], {"pc", "i", "ready"})
  <1>1. PICK claimed : claimed = ClaimedUnits(c)
    OBVIOUS
  <1>2. /\ call[c].pc = "claim"
        /\ row' = [k \in Keys |-> IF k \in KeysOf(claimed)
                                  THEN [row[k] EXCEPT !.holder = c, !.live = TRUE]
                                  ELSE row[k]]
        /\ IF claimed # <<>>
           THEN Becomes(c, [At(c, "check") EXCEPT
                              !.ready = {}, !.batches = MakeBatches(claimed)])
           ELSE IF AllLatest(call[c].units) THEN Fails(c, "cold")
           ELSE Becomes(c, [At(c, "states") EXCEPT !.ready = {}])
    BY <1>1 DEF Claim
  <1>3. CASE claimed # <<>>
    <2>1. PICK batches : batches = MakeBatches(claimed)
      OBVIOUS
    <2>2. PICK v : v = [At(c, "check") EXCEPT !.ready = {}, !.batches = batches]
      OBVIOUS
    <2>3. /\ IsCall(v) /\ v.pc = "check" /\ v.i = 1 /\ v.ready = {} /\ v.batches = batches
          /\ Kept(call[c], v, {"pc", "i", "ready", "batches"})
      BY <2>2 DEF Shapes, IsCall, CallFields, Kept, At
    <2>4. Moves(c) /\ call'[c] = v
      BY <1>2, <1>3, <2>1, <2>2, <2>3, MoveIs
    <2> QED BY <1>1, <1>2, <1>3, <2>1, <2>3, <2>4
  <1>4. CASE claimed = <<>> /\ Fails(c, "cold")
    BY <1>1, <1>2, <1>4, FailsMove
  <1>5. CASE claimed = <<>> /\ Becomes(c, [At(c, "states") EXCEPT !.ready = {}])
    <2>1. PICK v : v = [At(c, "states") EXCEPT !.ready = {}]
      OBVIOUS
    <2>2. /\ IsCall(v) /\ v.pc = "states" /\ v.i = 1 /\ v.ready = {}
          /\ Kept(call[c], v, {"pc", "i", "ready"})
      BY <2>1 DEF Shapes, IsCall, CallFields, Kept, At
    <2>3. Moves(c) /\ call'[c] = v
      BY <1>5, <2>1, <2>2, MoveIs
    <2> QED BY <1>1, <1>2, <1>5, <2>2, <2>3
  <1> QED BY <1>2, <1>3, <1>4, <1>5

LEMMA CheckMove ==
    ASSUME Shapes, NEW c \in Callers, CheckBlocked(c)
    PROVE  /\ Moves(c) /\ call[c].pc = "check" /\ call'[c].i = 1
           /\ \/ call'[c].pc = "fail" /\ call'[c].err = "limited"
              \/ call'[c].pc = "fetch" /\ call'[c].err = call[c].err
           /\ Kept(call[c], call'[c], {"pc", "i", "err"})
  <1>1. PICK v : v = IF blocked THEN [At(c, "fail") EXCEPT !.err = "limited"]
                     ELSE At(c, "fetch")
    OBVIOUS
  <1>2. /\ IsCall(v) /\ v.i = 1 /\ Kept(call[c], v, {"pc", "i", "err"})
        /\ \/ v.pc = "fail" /\ v.err = "limited"
           \/ v.pc = "fetch" /\ v.err = call[c].err
    BY <1>1 DEF Shapes, IsCall, CallFields, Kept, At
  <1>3. call[c].pc = "check" /\ Becomes(c, v)
    BY <1>1 DEF CheckBlocked
  <1> QED BY <1>2, <1>3, MoveIs

LEMMA BlockMove ==
    ASSUME Shapes, NEW c \in Callers, BlockProvider(c)
    PROVE  /\ Moves(c) /\ call[c].pc = "block" /\ call'[c].i = 1 /\ call'[c].pc = "fail"
           /\ Kept(call[c], call'[c], {"pc", "i"})
  <1>1. PICK v : v = At(c, "fail")
    OBVIOUS
  <1>2. IsCall(v) /\ v.i = 1 /\ v.pc = "fail" /\ Kept(call[c], v, {"pc", "i"})
    BY <1>1 DEF Shapes, IsCall, CallFields, Kept, At
  <1>3. call[c].pc = "block" /\ Becomes(c, v)
    BY <1>1 DEF BlockProvider
  <1> QED BY <1>2, <1>3, MoveIs

\* The provider's answer is accepted and is to be recorded.
Accepted(c, data, request, reply) ==
    LET result == Classify(request, reply)
    IN  /\ result.err = "none" /\ RequireLatestObservations(request, result.obs)
        /\ published' = data
        /\ changes' = IF data = published THEN changes ELSE changes + 1
        /\ fetches' = fetches + 1
        /\ call'[c].pc = "insert" /\ call'[c].i = 1
        /\ call'[c].reply = [obs |-> result.obs, stamp |-> fetches + 1,
                             answered |-> {entry.id : entry \in ToSet(reply.body)}]
        /\ Kept(call[c], call'[c], {"pc", "i", "reply"})

LEMMA FetchMove ==
    ASSUME Shapes, NEW c \in Callers, Fetch(c)
    PROVE  /\ Moves(c) /\ call[c].pc = "fetch"
           /\ LET request == RequestForBatch(call[c].batches[1])
              IN  \/ \E data \in Publications :
                     \E reply \in {Honest(data, request)} \cup Faulty(data, request) :
                        Accepted(c, data, request, reply)
                  \/ /\ call'[c].pc \in {"block", "fail"} /\ call'[c].i = 1
                     /\ call'[c].err \in {"limited", "failed"}
                     /\ Kept(call[c], call'[c], {"pc", "i", "err"})
                     /\ UNCHANGED provider
  <1>1. PICK request : request = RequestForBatch(call[c].batches[1])
    OBVIOUS
  <1>2. PICK data \in Publications :
        \E reply \in {Honest(data, request)} \cup Faulty(data, request) :
          LET result == Classify(request, reply)
              complete == RequireLatestObservations(request, result.obs)
          IN  \/ /\ result.err = "none" /\ complete
                 /\ published' = data
                 /\ changes' = IF data = published THEN changes ELSE changes + 1
                 /\ fetches' = fetches + 1
                 /\ Becomes(c, [At(c, "insert") EXCEPT !.reply =
                       [obs |-> result.obs, stamp |-> fetches + 1,
                        answered |-> {entry.id : entry \in ToSet(reply.body)}]])
              \/ /\ result.err = "limited"
                 /\ Becomes(c, [At(c, "block") EXCEPT !.err = "limited"])
                 /\ UNCHANGED provider
              \/ /\ result.err = "failed" \/ (result.err = "none" /\ ~complete)
                 /\ Becomes(c, [At(c, "fail") EXCEPT !.err = "failed"])
                 /\ UNCHANGED provider
    BY <1>1 DEF Fetch
  <1>3. PICK reply \in {Honest(data, request)} \cup Faulty(data, request) :
          LET result == Classify(request, reply)
              complete == RequireLatestObservations(request, result.obs)
          IN  \/ /\ result.err = "none" /\ complete
                 /\ published' = data
                 /\ changes' = IF data = published THEN changes ELSE changes + 1
                 /\ fetches' = fetches + 1
                 /\ Becomes(c, [At(c, "insert") EXCEPT !.reply =
                       [obs |-> result.obs, stamp |-> fetches + 1,
                        answered |-> {entry.id : entry \in ToSet(reply.body)}]])
              \/ /\ Becomes(c, [At(c, "block") EXCEPT !.err = "limited"])
                 /\ UNCHANGED provider
              \/ /\ Becomes(c, [At(c, "fail") EXCEPT !.err = "failed"])
                 /\ UNCHANGED provider
    BY <1>2
  <1>4. PICK result : result = Classify(request, reply)
    OBVIOUS
  <1>5. PICK recorded : recorded =
          [obs |-> result.obs, stamp |-> fetches + 1,
           answered |-> {entry.id : entry \in ToSet(reply.body)}]
    OBVIOUS
  <1>6. CASE /\ result.err = "none" /\ RequireLatestObservations(request, result.obs)
             /\ published' = data
             /\ changes' = IF data = published THEN changes ELSE changes + 1
             /\ fetches' = fetches + 1
             /\ Becomes(c, [At(c, "insert") EXCEPT !.reply = recorded])
    <2>1. PICK v : v = [At(c, "insert") EXCEPT !.reply = recorded]
      OBVIOUS
    <2>2. /\ IsCall(v) /\ v.pc = "insert" /\ v.i = 1 /\ v.reply = recorded
          /\ Kept(call[c], v, {"pc", "i", "reply"})
      BY <2>1 DEF Shapes, IsCall, CallFields, Kept, At
    <2>3. Moves(c) /\ call'[c] = v
      BY <1>6, <2>1, <2>2, MoveIs
    <2>4. Accepted(c, data, request, reply)
      BY <1>4, <1>5, <1>6, <2>2, <2>3 DEF Accepted
    <2> QED BY <1>1, <2>3, <2>4 DEF Fetch
  <1>7. ASSUME NEW place \in {"block", "fail"}, NEW e \in {"limited", "failed"},
               Becomes(c, [At(c, place) EXCEPT !.err = e]), UNCHANGED provider
        PROVE  /\ Moves(c) /\ call'[c].pc \in {"block", "fail"} /\ call'[c].i = 1
               /\ call'[c].err \in {"limited", "failed"}
               /\ Kept(call[c], call'[c], {"pc", "i", "err"})
    <2>1. PICK v : v = [At(c, place) EXCEPT !.err = e]
      OBVIOUS
    <2>2. /\ IsCall(v) /\ v.pc = place /\ v.i = 1 /\ v.err = e
          /\ Kept(call[c], v, {"pc", "i", "err"})
      BY <2>1 DEF Shapes, IsCall, CallFields, Kept, At
    <2>3. Moves(c) /\ call'[c] = v
      BY <1>7, <2>1, <2>2, MoveIs
    <2> QED BY <2>2, <2>3
  <1>8. \/ /\ result.err = "none" /\ RequireLatestObservations(request, result.obs)
           /\ published' = data
           /\ changes' = IF data = published THEN changes ELSE changes + 1
           /\ fetches' = fetches + 1
           /\ Becomes(c, [At(c, "insert") EXCEPT !.reply = recorded])
        \/ /\ Becomes(c, [At(c, "block") EXCEPT !.err = "limited"]) /\ UNCHANGED provider
        \/ /\ Becomes(c, [At(c, "fail") EXCEPT !.err = "failed"]) /\ UNCHANGED provider
    BY <1>3, <1>4, <1>5
  <1> QED BY <1>1, <1>6, <1>7, <1>8 DEF Fetch

LEMMA FailUnitMove ==
    ASSUME Shapes, NEW c \in Callers, FailUnit(c)
    PROVE  /\ Moves(c) /\ call[c].pc = "fail"
           /\ LET units == FlattenSeq(call[c].batches)
                  k == units[call[c].i].key
              IN  \/ row[k].holder # c /\ row' = row /\ FailsBy(c, "lost")
                  \/ /\ row[k].holder = c
                     /\ row' = [row EXCEPT ![k].holder = NoCall, ![k].live = FALSE,
                                           ![k].due = FALSE]
                     /\ \/ /\ call[c].i < Len(units)
                           /\ call'[c].i = call[c].i + 1 /\ Kept(call[c], call'[c], {"i"})
                        \/ /\ ~(call[c].i < Len(units))
                           /\ FailsBy(c, call[c].err)
  <1>1. PICK units, k : units = FlattenSeq(call[c].batches) /\ k = units[call[c].i].key
    OBVIOUS
  <1>2. /\ call[c].pc = "fail"
        /\ IF row[k].holder # c
           THEN Fails(c, "lost") /\ UNCHANGED row
           ELSE /\ row' = [row EXCEPT ![k].holder = NoCall, ![k].live = FALSE,
                                      ![k].due = FALSE]
                /\ IF call[c].i < Len(units)
                   THEN Becomes(c, [call[c] EXCEPT !.i = @ + 1])
                   ELSE Fails(c, call[c].err)
    BY <1>1 DEF FailUnit, RemainingUnits
  <1>3. CASE row[k].holder # c
    BY <1>1, <1>2, <1>3, FailsMove
  <1>4. CASE row[k].holder = c
    <2>1. CASE call[c].i < Len(units)
      <3>1. PICK v : v = [call[c] EXCEPT !.i = @ + 1]
        OBVIOUS
      <3>2. IsCall(v) /\ v.i = call[c].i + 1 /\ Kept(call[c], v, {"i"})
        BY <3>1 DEF Shapes, IsCall, CallFields, Kept
      <3>3. Moves(c) /\ call'[c] = v
        BY <1>2, <1>4, <2>1, <3>1, <3>2, MoveIs
      <3> QED BY <1>1, <1>2, <1>4, <2>1, <3>2, <3>3
    <2>2. CASE ~(call[c].i < Len(units))
      BY <1>1, <1>2, <1>4, <2>2, FailsMove
    <2> QED BY <2>1, <2>2
  <1> QED BY <1>3, <1>4

LEMMA InsertMove ==
    ASSUME Shapes, NEW c \in Callers, Insert(c)
    PROVE  /\ Moves(c) /\ call[c].pc = "insert"
           /\ LET request == RequestForBatch(call[c].batches[1])
                  obs == call[c].reply.obs
              IN  \/ \E e \in {"lost", "refused"} : FailsBy(c, e)
                  \/ /\ request.kind = "range" =>
                           \A o \in obs : o.day \in request.from..request.to
                     /\ call'[c].pc = "commit" /\ call'[c].i = 1
                     /\ call'[c].inserts = {o \in obs : Current(o.series, o.day) # o.value}
                     /\ Kept(call[c], call'[c], {"pc", "i", "inserts"})
  <1>1. PICK request, obs : request = RequestForBatch(call[c].batches[1])
                            /\ obs = call[c].reply.obs
    OBVIOUS
  <1>2. PICK inserts : inserts = {o \in obs : Current(o.series, o.day) # o.value}
    OBVIOUS
  <1>3. /\ call[c].pc = "insert"
        /\ \/ Fails(c, "lost")
           \/ Fails(c, "refused")
           \/ /\ request.kind = "range" =>
                    \A o \in obs : o.day \in request.from..request.to
              /\ Becomes(c, [At(c, "commit") EXCEPT !.inserts = inserts])
    BY <1>1, <1>2 DEF Insert
  <1>4. ASSUME NEW e \in {"lost", "refused"}, Fails(c, e)
        PROVE  Moves(c) /\ FailsBy(c, e)
    BY <1>4, FailsMove
  <1>5. CASE Fails(c, "lost") \/ Fails(c, "refused")
    <2>1. Moves(c) /\ \E e \in {"lost", "refused"} : FailsBy(c, e)
      BY <1>4, <1>5
    <2> QED BY <1>3, <2>1
  <1>6. CASE /\ request.kind = "range" =>
                    \A o \in obs : o.day \in request.from..request.to
             /\ Becomes(c, [At(c, "commit") EXCEPT !.inserts = inserts])
    <2>1. /\ Moves(c) /\ call'[c].pc = "commit" /\ call'[c].i = 1
          /\ call'[c].inserts = inserts /\ Kept(call[c], call'[c], {"pc", "i", "inserts"})
      <3>1. PICK v : v = [At(c, "commit") EXCEPT !.inserts = inserts]
        OBVIOUS
      <3>2. /\ IsCall(v) /\ v.pc = "commit" /\ v.i = 1 /\ v.inserts = inserts
            /\ Kept(call[c], v, {"pc", "i", "inserts"})
        BY <3>1 DEF Shapes, IsCall, CallFields, Kept, At
      <3>3. Moves(c) /\ call'[c] = v
        BY <1>6, <3>1, <3>2, MoveIs
      <3> QED BY <3>2, <3>3
    <2> QED BY <1>1, <1>2, <1>3, <1>6, <2>1
  <1> QED BY <1>3, <1>5, <1>6

\* A commit of call c, whose leases are still its own.
Commits(c) ==
    LET batch == call[c].batches[1]
        request == RequestForBatch(batch)
    IN  /\ imports' = imports \cup
              {[kind |-> request.kind, ids |-> ToSet(request.ids),
                from |-> request.from, to |-> request.to,
                answered |-> call[c].reply.answered, stamp |-> call[c].reply.stamp]}
        /\ history' = [s \in Series |-> [d \in Days |->
              IF {o \in call[c].inserts : o.series = s /\ o.day = d} = {}
              THEN history[s][d]
              ELSE Append(history[s][d],
                     (CHOOSE o \in {o \in call[c].inserts : o.series = s /\ o.day = d} :
                         TRUE).value)]]
        /\ row' = [k \in Keys |->
              IF k \in KeysOf(batch)
              THEN Completed(CHOOSE u \in ToSet(batch) : u.key = k, row[k], request,
                             call[c].reply.stamp)
              ELSE row[k]]
        /\ call'[c].pc = IF Len(call[c].batches) = 1 THEN "states" ELSE "fetch"
        /\ call'[c].i = 1 /\ call'[c].batches = Tail(call[c].batches)
        /\ Kept(call[c], call'[c], {"pc", "i", "batches", "reply", "inserts"})

LEMMA CommitMove ==
    ASSUME Shapes, NEW c \in Callers, Commit(c)
    PROVE  /\ Moves(c) /\ call[c].pc = "commit"
           /\ \/ ~Owned(c) /\ FailsBy(c, "lost") /\ UNCHANGED <<row, history, imports>>
              \/ Owned(c) /\ Commits(c)
  <1>1. CASE ~Owned(c)
    BY <1>1, FailsMove DEF Commit
  <1>2. CASE Owned(c)
    <2>1. PICK place : place = IF Len(call[c].batches) = 1 THEN "states" ELSE "fetch"
      OBVIOUS
    <2>2. PICK v : v = [At(c, place) EXCEPT !.batches = Tail(@), !.reply = NoReply,
                                            !.inserts = {}]
      OBVIOUS
    <2>3. /\ IsCall(v) /\ v.pc = place /\ v.i = 1 /\ v.batches = Tail(call[c].batches)
          /\ Kept(call[c], v, {"pc", "i", "batches", "reply", "inserts"})
      BY <2>2 DEF Shapes, IsCall, CallFields, Kept, At
    <2>4. Becomes(c, v)
      BY <1>2, <2>1, <2>2 DEF Commit
    <2>5. Moves(c) /\ call'[c] = v
      BY <2>3, <2>4, MoveIs
    <2>6. Commits(c)
      BY <1>2, <2>1, <2>3, <2>5 DEF Commit, Commits
    <2> QED BY <1>2, <2>5, <2>6 DEF Commit
  <1> QED BY <1>1, <1>2

LEMMA FallbackMove ==
    ASSUME Shapes, NEW c \in Callers, ReadFallback(c)
    PROVE  /\ Moves(c) /\ call[c].pc = "fallback"
           /\ \/ /\ call[c].i < Len(call[c].series)
                 /\ call'[c].i = call[c].i + 1 /\ call'[c].got = Reading(c, FALSE)
                 /\ Kept(call[c], call'[c], {"i", "got"})
              \/ /\ ~(call[c].i < Len(call[c].series))
                 /\ Cardinality(Reading(c, FALSE)) = Len(call[c].series)
                 /\ call'[c].pc = "flags" /\ call'[c].i = 1
                 /\ call'[c].got = Reading(c, FALSE)
                 /\ Kept(call[c], call'[c], {"pc", "i", "got"})
              \/ GivesUpBy(c)
  <1>1. PICK got : got = Reading(c, FALSE)
    OBVIOUS
  <1>2. /\ call[c].pc = "fallback"
        /\ IF call[c].i < Len(call[c].series)
           THEN Becomes(c, [call[c] EXCEPT !.i = @ + 1, !.got = got])
           ELSE IF Cardinality(got) = Len(call[c].series)
           THEN Becomes(c, [At(c, "flags") EXCEPT !.got = got])
           ELSE GiveUp(c)
    BY <1>1 DEF ReadFallback
  <1>3. CASE call[c].i < Len(call[c].series)
    <2>1. PICK v : v = [call[c] EXCEPT !.i = @ + 1, !.got = got]
      OBVIOUS
    <2>2. IsCall(v) /\ v.i = call[c].i + 1 /\ v.got = got /\ Kept(call[c], v, {"i", "got"})
      BY <2>1 DEF Shapes, IsCall, CallFields, Kept
    <2>3. Moves(c) /\ call'[c] = v
      BY <1>2, <1>3, <2>1, <2>2, MoveIs
    <2> QED BY <1>1, <1>2, <1>3, <2>2, <2>3
  <1>4. CASE ~(call[c].i < Len(call[c].series)) /\ Cardinality(got) = Len(call[c].series)
    <2>1. PICK v : v = [At(c, "flags") EXCEPT !.got = got]
      OBVIOUS
    <2>2. /\ IsCall(v) /\ v.pc = "flags" /\ v.i = 1 /\ v.got = got
          /\ Kept(call[c], v, {"pc", "i", "got"})
      BY <2>1 DEF Shapes, IsCall, CallFields, Kept, At
    <2>3. Moves(c) /\ call'[c] = v
      BY <1>2, <1>4, <2>1, <2>2, MoveIs
    <2> QED BY <1>1, <1>2, <1>4, <2>2, <2>3
  <1>5. CASE GiveUp(c)
    BY <1>2, <1>5, GiveUpMove
  <1> QED BY <1>2, <1>3, <1>4, <1>5

LEMMA FlagMove ==
    ASSUME Shapes, NEW c \in Callers, ReadFlag(c)
    PROVE  /\ Moves(c) /\ call[c].pc = "flags"
           /\ Advances(c, Len(call[c].units), "done")
           /\ LET unit == call[c].units[call[c].i]
              IN  call'[c].ready = call[c].ready \cup
                     (IF Ready(unit, row[unit.key]) THEN {unit.key} ELSE {})
           /\ Kept(call[c], call'[c], {"pc", "i", "ready"})
  <1>1. PICK unit : unit = call[c].units[call[c].i]
    OBVIOUS
  <1>2. PICK ready : ready = call[c].ready \cup
                               (IF Ready(unit, row[unit.key]) THEN {unit.key} ELSE {})
    OBVIOUS
  <1>3. PICK more : more = (call[c].i < Len(call[c].units))
    OBVIOUS
  <1>4. PICK next : next = [call[c] EXCEPT !.ready = ready]
    OBVIOUS
  <1>5. PICK v : v = IF more THEN [next EXCEPT !.i = @ + 1]
                     ELSE [next EXCEPT !.pc = "done", !.i = 1]
    OBVIOUS
  <1>6. next = [call[c] EXCEPT !.ready =
                  @ \cup (IF Ready(unit, row[unit.key]) THEN {unit.key} ELSE {})]
    BY <1>2, <1>4 DEF Shapes, IsCall, CallFields
  <1>7. call[c].pc = "flags" /\ Becomes(c, v)
    BY <1>1, <1>3, <1>5, <1>6 DEF ReadFlag
  <1>8. IsCall(next) /\ next.ready = ready /\ next.pc = call[c].pc /\ next.i = call[c].i
        /\ Kept(call[c], next, {"ready"})
    BY <1>4 DEF Shapes, IsCall, CallFields, Kept
  <1>9. /\ IsCall(v) /\ v.ready = ready /\ Kept(call[c], v, {"pc", "i", "ready"})
        /\ IF more THEN v.pc = call[c].pc /\ v.i = call[c].i + 1
           ELSE v.pc = "done" /\ v.i = 1
    BY <1>5, <1>8 DEF IsCall, CallFields, Kept
  <1>10. Moves(c) /\ call'[c] = v
    BY <1>7, <1>9, MoveIs
  <1> QED BY <1>1, <1>2, <1>3, <1>7, <1>9, <1>10 DEF Advances

LEMMA LatestMove ==
    ASSUME Shapes, NEW c \in Callers, ReadLatest(c)
    PROVE  /\ Moves(c) /\ call[c].pc = "read" /\ call[c].op = "latest"
           /\ Advances(c, Len(call[c].series), "done")
           /\ call'[c].got = Reading(c, TRUE)
           /\ Kept(call[c], call'[c], {"pc", "i", "got"})
  <1>1. PICK got : got = Reading(c, TRUE)
    OBVIOUS
  <1>2. PICK next : next = [call[c] EXCEPT !.got = got]
    OBVIOUS
  <1>3. PICK more : more = (call[c].i < Len(call[c].series))
    OBVIOUS
  <1>4. PICK v : v = IF more THEN [next EXCEPT !.i = @ + 1]
                     ELSE [next EXCEPT !.pc = "done", !.i = 1]
    OBVIOUS
  <1>5. call[c].pc = "read" /\ call[c].op = "latest" /\ Becomes(c, v)
    BY <1>1, <1>2, <1>3, <1>4 DEF ReadLatest
  <1>6. IsCall(next) /\ next.got = got /\ next.pc = call[c].pc /\ next.i = call[c].i
        /\ Kept(call[c], next, {"got"})
    BY <1>2 DEF Shapes, IsCall, CallFields, Kept
  <1>7. /\ IsCall(v) /\ v.got = got /\ Kept(call[c], v, {"pc", "i", "got"})
        /\ IF more THEN v.pc = call[c].pc /\ v.i = call[c].i + 1
           ELSE v.pc = "done" /\ v.i = 1
    BY <1>4, <1>6 DEF IsCall, CallFields, Kept
  <1>8. Moves(c) /\ call'[c] = v
    BY <1>5, <1>7, MoveIs
  <1> QED BY <1>1, <1>3, <1>5, <1>7, <1>8 DEF Advances

LEMMA RangeMove ==
    ASSUME Shapes, NEW c \in Callers, ReadRange(c)
    PROVE  /\ Moves(c) /\ call[c].pc = "read" /\ call[c].op # "latest"
           /\ call'[c].pc = "done" /\ call'[c].i = 1
           /\ Kept(call[c], call'[c], {"pc", "i", "got"})
  <1>1. PICK got : call[c].pc = "read" /\ call[c].op # "latest"
                   /\ Becomes(c, [At(c, "done") EXCEPT !.got = got])
    BY DEF ReadRange
  <1>2. PICK v : v = [At(c, "done") EXCEPT !.got = got]
    OBVIOUS
  <1>3. IsCall(v) /\ v.pc = "done" /\ v.i = 1 /\ Kept(call[c], v, {"pc", "i", "got"})
    BY <1>2 DEF Shapes, IsCall, CallFields, Kept, At
  <1> QED BY <1>1, <1>2, <1>3, MoveIs

LEMMA InterruptMove ==
    ASSUME Shapes, NEW c \in Callers, Interrupt(c)
    PROVE  /\ Moves(c)
           /\ call[c].pc \in {"baseline", "states", "claim", "check", "fetch", "block",
                              "fail", "insert", "commit"}
           /\ EndsWith(c, call[c].op, "interrupted") \/ FailsBy(c, "interrupted")
  BY FailedMove, FailsMove DEF Interrupt

LEMMA BreaksMove ==
    ASSUME Shapes, NEW c \in Callers, FallbackBreaks(c)
    PROVE  Moves(c) /\ call[c].pc \in {"fallback", "flags"} /\ GivesUpBy(c)
  BY GiveUpMove DEF FallbackBreaks

-----------------------------------------------------------------------------
(* Types.                                                                   *)

Holding == {"check", "fetch", "block", "fail", "insert", "commit"}
Resolving == {"baseline", "states", "claim"} \cup Holding

\* What a call asks for, and its units.
AskedOK(v) ==
    /\ v.op \in {"none", "latest", "range", "revalidate"}
    /\ v.series \in Seq(Series) /\ IsInjective(v.series)
    /\ InPeriods(v.units)
    /\ IF v.op = "latest" THEN OfLatest(v.units, v.series) ELSE OfRange(v.units)

\* Where a call is, its cursor is on something.
PlaceOK(v) ==
    /\ v.pc \in {"baseline", "states", "flags"} => v.i \in 1..Len(v.units)
    /\ v.pc \in Resolving => 1 \in 1..Len(v.units)
    /\ v.pc \in {"fallback", "flags"} => v.op = "latest"
    /\ v.pc = "fallback" \/ (v.pc = "read" /\ v.op = "latest") => v.i \in 1..Len(v.series)
    /\ v.pc \in {"fallback", "flags", "fail", "block"} => v.err # "none"
    /\ v.pc \in Holding => 1 \in DOMAIN v.batches
    /\ v.pc = "fail" => v.i \in DOMAIN FlattenSeq(v.batches)

\* A response to record answers the batch it was asked for.  It may hold a day
\* outside a month only until Complete looks at it.
ReplyOK(v) ==
    LET request == RequestForBatch(v.batches[1])
    IN  /\ v.reply.answered = ToSet(request.ids)
        /\ RequireLatestObservations(request, v.reply.obs)
        /\ \A o \in v.reply.obs :
              /\ o.series \in Series
              /\ \/ o.day \in Days /\ o.value \in Values
                 \/ /\ v.pc = "insert" /\ request.kind = "range"
                    /\ o.day \notin request.from..request.to

CallOK(v) ==
    /\ v.pc \in Places /\ v.err \in Errors /\ v.i \in Nat \ {0}
    /\ v.ready \subseteq Keys
    /\ v.base \in [Keys -> Nat]
    /\ AskedOK(v)
    /\ BatchesOf(v.batches, v.units)
    /\ PlaceOK(v)
    /\ v.pc \in {"insert", "commit"} => ReplyOK(v)

RowOK(k, r) ==
    /\ r \in Rows
    /\ r.covered # 0 => k.kind = "range" /\ r.covered \in FirstOf(k.month)..LastOf(k.month)

StoreOK ==
    /\ today \in Days
    /\ published \in [Series -> [Days -> Values \cup {0}]]
    /\ changes \in 0..MaxChanges /\ interrupts \in 0..MaxInterrupts /\ fetches \in Nat
    /\ \A k \in Keys : RowOK(k, row[k])
    /\ history \in [Series -> [Days -> Seq(Values)]]
    /\ blocked \in BOOLEAN

TypeInvariant == StoreOK /\ \A c \in Callers : CallOK(call[c])

LEMMA CallAsksSame ==
    ASSUME NEW v, NEW w, CallOK(v), w.op = v.op, w.series = v.series, w.units = v.units,
           w.pc \in Places, w.err \in Errors, w.i \in Nat \ {0}, w.ready \subseteq Keys,
           w.base \in [Keys -> Nat], BatchesOf(w.batches, w.units), PlaceOK(w),
           w.pc \in {"insert", "commit"} => ReplyOK(w)
    PROVE  CallOK(w)
  BY DEF CallOK, AskedOK

LEMMA NoUnits == InPeriods(<<>>) /\ OfLatest(<<>>, <<>>) /\ OfRange(<<>>)
  <1>1. <<>> \in Seq(Units) /\ DOMAIN <<>> = {} /\ Len(<<>>) = 0
    OBVIOUS
  <1> QED BY <1>1 DEF InPeriods, OfLatest, OfRange, ToSet

LEMMA NoBatches == \A units : BatchesOf(<<>>, units)
  <1>1. <<>> \in Seq(Seq(Units)) /\ DOMAIN <<>> = {}
    OBVIOUS
  <1> QED BY <1>1 DEF BatchesOf

\* A record that still is what Idle is, but for its place, operation and error.
LEMMA FreshOK ==
    ASSUME NEW w, w.pc \in {"idle", "done"}, w.err \in Errors,
           w.op \in {"none", "latest", "range", "revalidate"},
           Kept(Idle, w, {"pc", "op", "err"})
    PROVE  CallOK(w)
  <1>1. /\ w.series = <<>> /\ w.units = <<>> /\ w.i = 1 /\ w.ready = {}
        /\ w.base = [k \in Keys |-> 0] /\ w.batches = <<>>
    BY DEF Kept, CallFields, Idle
  <1>2. AskedOK(w)
    <2>1. <<>> \in Seq(Series) /\ IsInjective(<<>>)
      BY DEF IsInjective
    <2> QED BY <1>1, <2>1, NoUnits DEF AskedOK
  <1>3. PlaceOK(w)
    BY DEF PlaceOK, Resolving, Holding
  <1>4. BatchesOf(w.batches, w.units)
    BY <1>1, NoBatches
  <1>5. w.base \in [Keys -> Nat] /\ w.ready \subseteq Keys /\ w.i \in Nat \ {0}
    BY <1>1
  <1>6. w.pc \in Places
    BY DEF Places
  <1> QED BY <1>2, <1>3, <1>4, <1>5, <1>6 DEF CallOK

LEMMA EndsOK ==
    ASSUME NEW c, NEW e \in Errors, NEW op \in {"none", "latest", "range", "revalidate"},
           EndsWith(c, op, e)
    PROVE  CallOK(call'[c])
  BY FreshOK DEF EndsWith

LEMMA FailsOK ==
    ASSUME NEW c, NEW e \in Errors \ {"none"}, CallOK(call[c]),
           call[c].pc \in Resolving, FailsBy(c, e)
    PROVE  CallOK(call'[c])
  <1>1. CASE call[c].op # "latest"
    <2>1. EndsWith(c, call[c].op, e)
      BY <1>1 DEF FailsBy
    <2> QED BY <2>1, EndsOK DEF CallOK, AskedOK
  <1>2. CASE call[c].op = "latest"
    <2>1. /\ call'[c].pc = "fallback" /\ call'[c].i = 1 /\ call'[c].err = e
          /\ call'[c].ready = {} /\ call'[c].batches = <<>>
          /\ call'[c].op = call[c].op /\ call'[c].series = call[c].series
          /\ call'[c].units = call[c].units /\ call'[c].base = call[c].base
      BY <1>2 DEF FailsBy, EndsWith, Kept, CallFields
    <2>2. 1 \in 1..Len(call[c].series)
      BY <1>2 DEF CallOK, PlaceOK, AskedOK, OfLatest
    <2>3. PlaceOK(call'[c])
      BY <1>2, <2>1, <2>2 DEF PlaceOK, Resolving, Holding
    <2>4. call'[c].pc \in Places /\ call'[c].pc \notin {"insert", "commit"}
      BY <2>1 DEF Places
    <2> QED BY <2>1, <2>3, <2>4, NoBatches, CallAsksSame DEF CallOK
  <1> QED BY <1>1, <1>2

LEMMA GivesUpOK ==
    ASSUME NEW c, CallOK(call[c]), call[c].pc \in {"fallback", "flags"}, GivesUpBy(c)
    PROVE  CallOK(call'[c])
  <1>1. CASE call[c].err # "cold"
    <2>1. EndsWith(c, call[c].op, call[c].err)
      BY <1>1 DEF GivesUpBy
    <2> QED BY <2>1, EndsOK DEF CallOK, AskedOK
  <1>2. CASE call[c].err = "cold"
    <2>1. /\ call'[c].pc = "states" /\ call'[c].i = 1 /\ call'[c].err = "none"
          /\ call'[c].ready = {} /\ call'[c].batches = call[c].batches
          /\ call'[c].op = call[c].op /\ call'[c].series = call[c].series
          /\ call'[c].units = call[c].units /\ call'[c].base = call[c].base
      BY <1>2 DEF GivesUpBy, EndsWith, Kept, CallFields
    <2>2. 1 \in 1..Len(call[c].units)
      <3>1. Len(call[c].units) = Len(call[c].series) /\ Len(call[c].units) \in Nat
        BY DEF CallOK, PlaceOK, AskedOK, OfLatest, InPeriods
      <3>2. call[c].i \in 1..Len(call[c].units)
        BY <3>1 DEF CallOK, PlaceOK
      <3> QED BY <3>1, <3>2
    <2>3. PlaceOK(call'[c])
      BY <2>1, <2>2 DEF PlaceOK, Resolving, Holding
    <2>4. /\ call'[c].pc \in Places /\ call'[c].err \in Errors
          /\ call'[c].pc \notin {"insert", "commit"}
      BY <2>1 DEF Places, Errors
    <2> QED BY <2>1, <2>3, <2>4, CallAsksSame DEF CallOK
  <1> QED BY <1>1, <1>2

LEMMA BeginTypes ==
    ASSUME Shapes, StoreOK, NEW c \in Callers, Begin(c)
    PROVE  CallOK(call'[c])
  <1>1. PICK q \in Requests[c] : EndsWith(c, q.op, "invalid") \/ Starts(c, q)
    BY BeginMove
  <1>2. /\ q.op \in {"latest", "range", "revalidate"}
        /\ q.series \in SUBSET Nat /\ q.series \subseteq Series /\ IsFiniteSet(q.series)
        /\ q.from \in Nat /\ q.to \in Nat
        /\ q.op # "latest" => q.from > 0
    BY RateAssumption
  <1>3. CASE EndsWith(c, q.op, "invalid")
    <2>1. "invalid" \in Errors
      BY DEF Errors
    <2> QED BY <1>2, <1>3, <2>1, EndsOK
  <1>4. CASE Starts(c, q)
    <2>1. PICK series : series = NormalizeSeries(q.series)
      OBVIOUS
    <2>2. PICK units : units = IF q.op = "latest" THEN LatestUnits(series)
                               ELSE RangeUnits(series, q.from, q.to)
      OBVIOUS
    <2>3. /\ series # <<>> /\ (q.op # "latest" => q.from <= q.to)
          /\ call'[c].op = q.op /\ call'[c].series = series /\ call'[c].units = units
          /\ call'[c].pc = IF units = <<>> THEN "read"
                           ELSE IF q.op = "revalidate" THEN "baseline" ELSE "states"
          /\ Kept(Idle, call'[c], {"pc", "op", "series", "from", "to", "units"})
      BY <1>4, <2>1, <2>2 DEF Starts
    <2>4. /\ call'[c].i = 1 /\ call'[c].ready = {} /\ call'[c].base = [k \in Keys |-> 0]
          /\ call'[c].batches = <<>> /\ call'[c].err = "none"
      BY <2>3 DEF Kept, CallFields, Idle
    <2>5. series \in Seq(Series) /\ IsInjective(series)
      <3>1. /\ Cardinality(q.series) \in Nat
            /\ series \in [1..Cardinality(q.series) -> q.series] /\ IsInjective(series)
        BY <1>2, <2>1, AscendingLists DEF NormalizeSeries
      <3> QED BY <1>2, <3>1
    <2>6. InPeriods(units) /\ IF q.op = "latest" THEN OfLatest(units, series) ELSE OfRange(units)
      <3>1. CASE q.op = "latest"
        BY <2>2, <2>5, <3>1, LatestUnitsOK
      <3>2. CASE q.op # "latest"
        <4>1. q.from \in Nat \ {0} /\ q.to \in Nat \ {0} /\ today \in Days
          BY <1>2, <2>3, <3>2 DEF StoreOK
        <4> QED BY <2>2, <2>3, <2>5, <3>2, <4>1, RangeUnitsOK
      <3> QED BY <3>1, <3>2
    <2>7. AskedOK(call'[c])
      BY <1>2, <2>3, <2>5, <2>6 DEF AskedOK
    <2>8. PlaceOK(call'[c])
      <3>1. units # <<>> => 1 \in 1..Len(units)
        BY <2>6, EmptySeq DEF InPeriods
      <3>2. 1 \in 1..Len(series)
        BY <2>3, <2>5, EmptySeq
      <3> QED BY <2>3, <2>4, <3>1, <3>2 DEF PlaceOK, Resolving, Holding
    <2>9. /\ call'[c].pc \in {"read", "baseline", "states"} /\ call'[c].err \in Errors
          /\ call'[c].i \in Nat \ {0} /\ call'[c].ready \subseteq Keys
          /\ call'[c].base \in [Keys -> Nat]
      BY <2>3, <2>4 DEF Errors
    <2>10. BatchesOf(call'[c].batches, call'[c].units)
      BY <2>4, NoBatches
    <2>11. call'[c].pc \in Places /\ call'[c].pc \notin {"insert", "commit"}
      BY <2>9 DEF Places
    <2> QED BY <2>7, <2>8, <2>9, <2>10, <2>11 DEF CallOK
  <1> QED BY <1>1, <1>3, <1>4

LEMMA UnitAtCursor ==
    ASSUME NEW v, CallOK(v), v.i \in 1..Len(v.units)
    PROVE  /\ v.units[v.i] \in Units /\ v.units[v.i].key \in Keys
           /\ v.units[v.i] \in ToSet(v.units)
  <1>1. v.units \in Seq(Units) /\ DOMAIN v.units = 1..Len(v.units)
    BY DEF CallOK, AskedOK, InPeriods
  <1>2. v.units[v.i] \in Units
    BY <1>1
  <1> QED BY <1>1, <1>2, UnitMonths DEF ToSet

LEMMA AdvancesOK ==
    ASSUME NEW c, NEW n, NEW place, n \in Nat, call[c].i \in 1..n, Advances(c, n, place)
    PROVE  /\ call'[c].i \in Nat \ {0}
           /\ \/ call'[c].pc = call[c].pc /\ call'[c].i \in 1..n
              \/ call'[c].pc = place /\ call'[c].i = 1
  BY DEF Advances

LEMMA BaselineTypes ==
    ASSUME Shapes, TypeInvariant, NEW c \in Callers, ReadBaseline(c)
    PROVE  CallOK(call'[c])
  <1>1. CallOK(call[c]) /\ call[c].pc = "baseline"
    BY BaselineMove DEF TypeInvariant
  <1>2. /\ Advances(c, Len(call[c].units), "states")
        /\ call'[c].op = call[c].op /\ call'[c].series = call[c].series
        /\ call'[c].units = call[c].units /\ call'[c].ready = call[c].ready
        /\ call'[c].batches = call[c].batches /\ call'[c].err = call[c].err
    BY BaselineMove DEF Kept, CallFields
  <1>3. PICK k : k = call[c].units[call[c].i].key
    OBVIOUS
  <1>4. call'[c].base = [call[c].base EXCEPT ![k] = row[k].done]
    BY <1>3, BaselineMove
  <1>5. call[c].i \in 1..Len(call[c].units) /\ Len(call[c].units) \in Nat
    BY <1>1 DEF CallOK, PlaceOK, AskedOK, InPeriods
  <1>6. k \in Keys
    BY <1>1, <1>3, <1>5, UnitAtCursor
  <1>7. row[k].done \in Nat
    BY <1>6 DEF TypeInvariant, StoreOK, RowOK, Rows
  <1>8. call'[c].base \in [Keys -> Nat]
    BY <1>1, <1>4, <1>6, <1>7 DEF CallOK
  <1>9. /\ call'[c].i \in Nat \ {0} /\ call'[c].i \in 1..Len(call[c].units)
        /\ call'[c].pc \in {"baseline", "states"}
    BY <1>1, <1>2, <1>5, AdvancesOK
  <1>10. PlaceOK(call'[c])
    BY <1>1, <1>2, <1>5, <1>9 DEF CallOK, PlaceOK, Resolving, Holding
  <1>11. call'[c].pc \in Places /\ call'[c].pc \notin {"insert", "commit"}
    BY <1>9 DEF Places
  <1> QED BY <1>1, <1>2, <1>8, <1>9, <1>10, <1>11, CallAsksSame DEF CallOK

LEMMA StateTypes ==
    ASSUME Shapes, TypeInvariant, NEW c \in Callers, ReadState(c)
    PROVE  CallOK(call'[c])
  <1>1. CallOK(call[c]) /\ call[c].pc = "states"
    BY StateMove DEF TypeInvariant
  <1>2. /\ \/ Advances(c, Len(call[c].units), "claim")
           \/ Advances(c, Len(call[c].units), "read")
        /\ call'[c].op = call[c].op /\ call'[c].series = call[c].series
        /\ call'[c].units = call[c].units /\ call'[c].base = call[c].base
        /\ call'[c].batches = call[c].batches /\ call'[c].err = call[c].err
    BY StateMove DEF Kept, CallFields
  <1>3. call[c].i \in 1..Len(call[c].units) /\ Len(call[c].units) \in Nat
    BY <1>1 DEF CallOK, PlaceOK, AskedOK, InPeriods
  <1>4. call'[c].ready \subseteq Keys
    <2>1. PICK unit : unit = call[c].units[call[c].i]
      OBVIOUS
    <2>2. unit.key \in Keys
      BY <1>1, <1>3, <2>1, UnitAtCursor
    <2>3. call'[c].ready \subseteq call[c].ready \cup {unit.key}
      BY <2>1, StateMove
    <2> QED BY <1>1, <2>2, <2>3 DEF CallOK
  <1>5. /\ call'[c].i \in Nat \ {0}
        /\ \/ call'[c].pc = "states" /\ call'[c].i \in 1..Len(call[c].units)
           \/ call'[c].pc \in {"claim", "read"} /\ call'[c].i = 1
    BY <1>1, <1>2, <1>3, AdvancesOK
  <1>6. call[c].op = "latest" => 1 \in 1..Len(call[c].series)
    BY <1>1, <1>3 DEF CallOK, AskedOK, OfLatest
  <1>7. PlaceOK(call'[c])
    BY <1>1, <1>2, <1>3, <1>5, <1>6 DEF CallOK, PlaceOK, Resolving, Holding
  <1>8. call'[c].pc \in Places /\ call'[c].pc \notin {"insert", "commit"}
    BY <1>5 DEF Places
  <1> QED BY <1>1, <1>2, <1>4, <1>5, <1>7, <1>8, CallAsksSame DEF CallOK

\* What Claim claims are units of the call, in their order.
LEMMA ClaimedOK ==
    ASSUME NEW c, InPeriods(call[c].units)
    PROVE  /\ InPeriods(ClaimedUnits(c))
           /\ \A unit : unit \in ToSet(ClaimedUnits(c)) <=>
                 /\ unit \in ToSet(call[c].units)
                 /\ unit.key \notin call[c].ready
                 /\ Claimable(unit, row[unit.key], call[c].op = "revalidate")
  <1>1. PICK units, n : units = call[c].units /\ n \in Nat /\ n = Len(units)
                        /\ DOMAIN units = 1..n
    BY DEF InPeriods
  <1>2. PICK I : I = {i \in PendingUnits(c) :
                         Claimable(units[i], row[units[i].key], call[c].op = "revalidate")}
    OBVIOUS
  <1>3. \A i : i \in I <=> /\ i \in 1..n /\ units[i].key \notin call[c].ready
                           /\ Claimable(units[i], row[units[i].key], call[c].op = "revalidate")
    BY <1>1, <1>2 DEF PendingUnits
  <1>4. PICK m, order : /\ m \in Nat /\ order \in [1..m -> I] /\ Increasing(order)
                        /\ \A x \in I : \E j \in 1..m : order[j] = x
                        /\ Picked(units, I) = [j \in 1..m |-> units[order[j]]]
    <2>1. n \in Nat /\ I \in SUBSET (1..n)
      BY <1>1, <1>3
    <2>2. \E m, order : PicksBy(units, I, m, order)
      BY <2>1, PickedLists
    <2> QED BY <2>2 DEF PicksBy
  <1>5. PICK claimed : claimed = ClaimedUnits(c)
    OBVIOUS
  <1>6. claimed = [j \in 1..m |-> units[order[j]]]
    BY <1>1, <1>2, <1>4, <1>5 DEF ClaimedUnits
  <1>7. \A j \in 1..m : order[j] \in I /\ order[j] \in 1..n /\ claimed[j] = units[order[j]]
    BY <1>3, <1>4, <1>6
  <1>8. claimed \in Seq(Units) /\ DOMAIN claimed = 1..m
    <2>1. \A j \in 1..m : claimed[j] \in Units
      BY <1>1, <1>7 DEF InPeriods
    <2>2. m \in Nat
      BY <1>4
    <2> QED BY <1>6, <2>1, <2>2
  <1>9. InPeriods(claimed)
    <2> SUFFICES ASSUME NEW i \in 1..m, NEW j \in 1..m
                 PROVE  /\ i <= j => claimed[i].key.month <= claimed[j].key.month
                        /\ claimed[i].key.month = claimed[j].key.month =>
                              SamePeriod(claimed[i], claimed[j])
      BY <1>8 DEF InPeriods
    <2>1. i <= j => order[i] <= order[j]
      <3>1. order[i] \in Nat /\ order[j] \in Nat /\ i \in Nat /\ j \in Nat
        BY <1>1, <1>4, <1>7
      <3>2. i < j => order[i] < order[j]
        BY <1>4 DEF Increasing
      <3>3. i = j => order[i] = order[j]
        OBVIOUS
      <3> QED BY <3>1, <3>2, <3>3
    <2>2. order[i] \in DOMAIN units /\ order[j] \in DOMAIN units
      BY <1>1, <1>7
    <2> QED BY <1>1, <1>7, <2>1, <2>2 DEF InPeriods
  <1>10. ASSUME NEW unit
         PROVE  unit \in ToSet(claimed) <=>
                   /\ unit \in ToSet(units)
                   /\ unit.key \notin call[c].ready
                   /\ Claimable(unit, row[unit.key], call[c].op = "revalidate")
    <2>1. ASSUME unit \in ToSet(claimed)
          PROVE  /\ unit \in ToSet(units)
                 /\ unit.key \notin call[c].ready
                 /\ Claimable(unit, row[unit.key], call[c].op = "revalidate")
      <3>1. PICK j \in 1..m : claimed[j] = unit
        BY <1>8, <2>1 DEF ToSet
      <3> QED BY <1>1, <1>3, <1>7, <3>1 DEF ToSet
    <2>2. ASSUME /\ unit \in ToSet(units)
                 /\ unit.key \notin call[c].ready
                 /\ Claimable(unit, row[unit.key], call[c].op = "revalidate")
          PROVE  unit \in ToSet(claimed)
      <3>1. PICK i \in 1..n : units[i] = unit
        BY <1>1, <2>2 DEF ToSet
      <3>2. i \in I
        BY <1>3, <2>2, <3>1
      <3>3. PICK j \in 1..m : order[j] = i
        BY <1>4, <3>2
      <3> QED BY <1>7, <1>8, <3>1, <3>3 DEF ToSet
    <2> QED BY <2>1, <2>2
  <1> QED BY <1>1, <1>5, <1>9, <1>10

LEMMA ClaimTypes ==
    ASSUME Shapes, TypeInvariant, NEW c \in Callers, Claim(c)
    PROVE  CallOK(call'[c])
  <1>1. CallOK(call[c]) /\ call[c].pc = "claim" /\ call[c].pc \in Resolving
    BY ClaimMove DEF TypeInvariant, Resolving
  <1>2. 1 \in 1..Len(call[c].units)
    BY <1>1 DEF CallOK, PlaceOK
  <1>3. CASE FailsBy(c, "cold")
    BY <1>1, <1>3, FailsOK DEF Errors
  <1>4. CASE /\ call'[c].pc = "states" /\ call'[c].i = 1 /\ call'[c].ready = {}
             /\ Kept(call[c], call'[c], {"pc", "i", "ready"})
    <2>1. /\ call'[c].op = call[c].op /\ call'[c].series = call[c].series
          /\ call'[c].units = call[c].units /\ call'[c].base = call[c].base
          /\ call'[c].batches = call[c].batches /\ call'[c].err = call[c].err
      BY <1>4 DEF Kept, CallFields
    <2>2. PlaceOK(call'[c])
      BY <1>2, <1>4, <2>1 DEF PlaceOK, Resolving, Holding
    <2>3. call'[c].pc \in Places /\ call'[c].pc \notin {"insert", "commit"}
      BY <1>4 DEF Places
    <2> QED BY <1>1, <1>4, <2>1, <2>2, <2>3, CallAsksSame DEF CallOK
  <1>5. CASE /\ ClaimedUnits(c) # <<>>
             /\ call'[c].pc = "check" /\ call'[c].i = 1 /\ call'[c].ready = {}
             /\ call'[c].batches = MakeBatches(ClaimedUnits(c))
             /\ Kept(call[c], call'[c], {"pc", "i", "ready", "batches"})
    <2>1. /\ call'[c].op = call[c].op /\ call'[c].series = call[c].series
          /\ call'[c].units = call[c].units /\ call'[c].base = call[c].base
          /\ call'[c].err = call[c].err
      BY <1>5 DEF Kept, CallFields
    <2>2. PICK claimed, batches : claimed = ClaimedUnits(c) /\ batches = MakeBatches(claimed)
      OBVIOUS
    <2>3. InPeriods(claimed) /\ ToSet(claimed) \subseteq ToSet(call[c].units)
      BY <1>1, <2>2, ClaimedOK DEF CallOK, AskedOK
    <2>4. BatchesOf(batches, claimed) /\ \A x \in ToSet(claimed) : Parts(batches, x)
      BY <2>2, <2>3, MakesBatches
    <2>5. BatchesOf(batches, call[c].units)
      BY <2>3, <2>4 DEF BatchesOf
    <2>6. 1 \in DOMAIN batches
      <3>1. 1 \in DOMAIN claimed
        BY <1>5, <2>2, <2>3, EmptySeq DEF InPeriods
      <3>2. claimed[1] \in ToSet(claimed)
        BY <3>1 DEF ToSet
      <3>3. PICK b : b \in DOMAIN batches
        BY <2>4, <3>2 DEF Parts
      <3>4. batches \in Seq(Seq(Units))
        BY <2>4 DEF BatchesOf
      <3> QED BY <3>3, <3>4
    <2>7. PlaceOK(call'[c])
      BY <1>2, <1>5, <2>1, <2>2, <2>6 DEF PlaceOK, Resolving, Holding
    <2>8. call'[c].pc \in Places /\ call'[c].pc \notin {"insert", "commit"}
      BY <1>5 DEF Places
    <2> QED BY <1>1, <1>5, <2>1, <2>2, <2>5, <2>7, <2>8, CallAsksSame DEF CallOK
  <1> QED BY <1>3, <1>4, <1>5, ClaimMove

\* A batch a call holds starts the units it still has to complete or to fail.
LEMMA BatchesFlatten ==
    ASSUME NEW v, CallOK(v)
    PROVE  /\ FlattenSeq(v.batches) \in Seq(Units)
           /\ 1 \in DOMAIN v.batches => 1 \in DOMAIN FlattenSeq(v.batches)
           /\ \A k : (\E b \in DOMAIN v.batches : k \in KeysOf(v.batches[b])) <=>
                     k \in KeysOf(FlattenSeq(v.batches))
  <1>1. PICK batches, flat : batches = v.batches /\ flat = FlattenSeq(batches)
    OBVIOUS
  <1>2. /\ batches \in Seq(Seq(Units))
        /\ \A b \in DOMAIN batches : 1 \in DOMAIN batches[b]
    BY <1>1 DEF CallOK, BatchesOf
  <1>3. flat \in Seq(Units) /\ \A x : x \in ToSet(flat) <=> Parts(batches, x)
    BY <1>1, <1>2, FlattenKeeps
  <1>4. 1 \in DOMAIN batches => 1 \in DOMAIN flat
    <2> SUFFICES ASSUME 1 \in DOMAIN batches
                 PROVE  1 \in DOMAIN flat
      OBVIOUS
    <2>1. Parts(batches, batches[1][1])
      BY <1>2 DEF Parts
    <2>2. PICK j : j \in DOMAIN flat
      BY <1>3, <2>1 DEF ToSet
    <2> QED BY <1>3, <2>2
  <1>5. ASSUME NEW k, NEW b \in DOMAIN batches, k \in KeysOf(batches[b])
        PROVE  k \in KeysOf(flat)
    <2>1. PICK j \in DOMAIN batches[b] : batches[b][j].key = k
      BY <1>5 DEF KeysOf
    <2>2. batches[b][j] \in ToSet(flat)
      BY <1>3 DEF Parts
    <2> QED BY <2>1, <2>2 DEF ToSet, KeysOf
  <1>6. ASSUME NEW k, k \in KeysOf(flat)
        PROVE  \E b \in DOMAIN batches : k \in KeysOf(batches[b])
    <2>1. PICK j \in DOMAIN flat : flat[j].key = k
      BY <1>6 DEF KeysOf
    <2>2. Parts(batches, flat[j])
      BY <1>3 DEF ToSet
    <2> QED BY <2>1, <2>2 DEF Parts, KeysOf
  <1> QED BY <1>1, <1>3, <1>4, <1>5, <1>6

\* A holding call that goes to another such place, or fails its leases.
LEMMA HoldsOn ==
    ASSUME NEW v, NEW w, CallOK(v), v.pc \in Holding,
           w.pc \in {"check", "fetch", "block", "fail"}, w.i = 1,
           w.pc \in {"block", "fail"} => w.err # "none", w.err \in Errors,
           w.op = v.op, w.series = v.series, w.units = v.units, w.base = v.base,
           w.ready = v.ready, w.batches = v.batches
    PROVE  CallOK(w)
  <1>1. 1 \in DOMAIN v.batches /\ 1 \in 1..Len(v.units)
    BY DEF CallOK, PlaceOK, Resolving
  <1>2. 1 \in DOMAIN FlattenSeq(v.batches)
    BY <1>1, BatchesFlatten
  <1>3. PlaceOK(w)
    BY <1>1, <1>2 DEF PlaceOK
  <1>4. w.pc \in Places /\ w.pc \notin {"insert", "commit"} /\ w.i \in Nat \ {0}
    BY DEF Places
  <1> QED BY <1>3, <1>4, CallAsksSame DEF CallOK

LEMMA CheckTypes ==
    ASSUME Shapes, TypeInvariant, NEW c \in Callers, CheckBlocked(c) \/ BlockProvider(c)
    PROVE  CallOK(call'[c])
  <1>1. CASE CheckBlocked(c)
    <2>1. CallOK(call[c]) /\ call[c].pc \in Holding
      BY <1>1, CheckMove DEF TypeInvariant, Holding
    <2>2. /\ call'[c].i = 1 /\ call'[c].op = call[c].op /\ call'[c].series = call[c].series
          /\ call'[c].units = call[c].units /\ call'[c].base = call[c].base
          /\ call'[c].ready = call[c].ready /\ call'[c].batches = call[c].batches
          /\ \/ call'[c].pc = "fail" /\ call'[c].err = "limited"
             \/ call'[c].pc = "fetch" /\ call'[c].err = call[c].err
      BY <1>1, CheckMove DEF Kept, CallFields
    <2>3. call'[c].err \in Errors
      BY <2>1, <2>2 DEF CallOK, Errors
    <2> QED BY <2>1, <2>2, <2>3, HoldsOn
  <1>2. CASE BlockProvider(c)
    <2>1. CallOK(call[c]) /\ call[c].pc \in Holding /\ call[c].pc = "block"
      BY <1>2, BlockMove DEF TypeInvariant, Holding
    <2>2. /\ call'[c].i = 1 /\ call'[c].op = call[c].op /\ call'[c].series = call[c].series
          /\ call'[c].units = call[c].units /\ call'[c].base = call[c].base
          /\ call'[c].ready = call[c].ready /\ call'[c].batches = call[c].batches
          /\ call'[c].pc = "fail" /\ call'[c].err = call[c].err
      BY <1>2, BlockMove DEF Kept, CallFields
    <2>3. call'[c].err \in Errors /\ call'[c].err # "none"
      BY <2>1, <2>2 DEF CallOK, PlaceOK
    <2> QED BY <2>1, <2>2, <2>3, HoldsOn
  <1> QED BY <1>1, <1>2

LEMMA FailUnitTypes ==
    ASSUME Shapes, TypeInvariant, NEW c \in Callers, FailUnit(c)
    PROVE  CallOK(call'[c])
  <1>1. /\ CallOK(call[c]) /\ call[c].pc = "fail" /\ call[c].pc \in Resolving
        /\ call[c].err # "none" /\ call[c].err \in Errors
    BY FailUnitMove DEF TypeInvariant, CallOK, PlaceOK, Resolving, Holding
  <1>2. CASE FailsBy(c, "lost")
    BY <1>1, <1>2, FailsOK DEF Errors
  <1>3. CASE FailsBy(c, call[c].err)
    BY <1>1, <1>3, FailsOK
  <1>4. CASE /\ call[c].i < Len(FlattenSeq(call[c].batches))
             /\ call'[c].i = call[c].i + 1 /\ Kept(call[c], call'[c], {"i"})
    <2>1. /\ call'[c].pc = call[c].pc /\ call'[c].op = call[c].op
          /\ call'[c].series = call[c].series /\ call'[c].units = call[c].units
          /\ call'[c].base = call[c].base /\ call'[c].ready = call[c].ready
          /\ call'[c].batches = call[c].batches /\ call'[c].err = call[c].err
      BY <1>4 DEF Kept, CallFields
    <2>2. FlattenSeq(call[c].batches) \in Seq(Units) /\ call[c].i \in Nat \ {0}
      BY <1>1, BatchesFlatten DEF CallOK
    <2>3. call'[c].i \in DOMAIN FlattenSeq(call[c].batches) /\ call'[c].i \in Nat \ {0}
      BY <1>4, <2>2
    <2>4. PlaceOK(call'[c])
      BY <1>1, <2>1, <2>3 DEF CallOK, PlaceOK, Resolving, Holding
    <2> QED BY <1>1, <2>1, <2>3, <2>4, CallAsksSame DEF CallOK
  <1> QED BY <1>2, <1>3, <1>4, FailUnitMove

LEMMA InsertTypes ==
    ASSUME Shapes, TypeInvariant, NEW c \in Callers, Insert(c)
    PROVE  CallOK(call'[c])
  <1>1. CallOK(call[c]) /\ call[c].pc = "insert" /\ call[c].pc \in Resolving
    BY InsertMove DEF TypeInvariant, Resolving, Holding
  <1>2. ASSUME NEW e \in {"lost", "refused"}, FailsBy(c, e)
        PROVE  CallOK(call'[c])
    <2>1. e \in Errors \ {"none"}
      BY DEF Errors
    <2> QED BY <1>1, <1>2, <2>1, FailsOK
  <1>3. PICK request : request = RequestForBatch(call[c].batches[1])
    OBVIOUS
  <1>4. CASE /\ request.kind = "range" =>
                   \A o \in call[c].reply.obs : o.day \in request.from..request.to
             /\ call'[c].pc = "commit" /\ call'[c].i = 1
             /\ Kept(call[c], call'[c], {"pc", "i", "inserts"})
    <2>1. /\ call'[c].op = call[c].op /\ call'[c].series = call[c].series
          /\ call'[c].units = call[c].units /\ call'[c].base = call[c].base
          /\ call'[c].ready = call[c].ready /\ call'[c].batches = call[c].batches
          /\ call'[c].err = call[c].err /\ call'[c].reply = call[c].reply
      BY <1>4 DEF Kept, CallFields
    <2>2. ReplyOK(call'[c])
      BY <1>1, <1>3, <1>4, <2>1 DEF CallOK, ReplyOK
    <2>3. PlaceOK(call'[c])
      BY <1>1, <1>4, <2>1 DEF CallOK, PlaceOK, Resolving, Holding
    <2>4. call'[c].pc \in Places /\ call'[c].i \in Nat \ {0}
      BY <1>4 DEF Places
    <2> QED BY <1>1, <2>1, <2>2, <2>3, <2>4, CallAsksSame DEF CallOK
  <1> QED BY <1>2, <1>3, <1>4, InsertMove

LEMMA CommitTypes ==
    ASSUME Shapes, TypeInvariant, NEW c \in Callers, Commit(c)
    PROVE  CallOK(call'[c])
  <1>1. /\ CallOK(call[c]) /\ call[c].pc = "commit" /\ call[c].pc \in Resolving
        /\ call[c].pc \in Holding
    BY CommitMove DEF TypeInvariant, Resolving, Holding
  <1>2. CASE FailsBy(c, "lost")
    BY <1>1, <1>2, FailsOK DEF Errors
  <1>3. CASE Commits(c)
    <2>1. /\ call'[c].pc = IF Len(call[c].batches) = 1 THEN "states" ELSE "fetch"
          /\ call'[c].i = 1 /\ call'[c].batches = Tail(call[c].batches)
          /\ call'[c].op = call[c].op /\ call'[c].series = call[c].series
          /\ call'[c].units = call[c].units /\ call'[c].base = call[c].base
          /\ call'[c].ready = call[c].ready /\ call'[c].err = call[c].err
      BY <1>3 DEF Commits, Kept, CallFields
    <2>2. PICK batches : batches = call[c].batches
      OBVIOUS
    <2>3. /\ batches \in Seq(Seq(Units)) /\ 1 \in DOMAIN batches
          /\ 1 \in 1..Len(call[c].units) /\ BatchesOf(batches, call[c].units)
      BY <1>1, <2>2 DEF CallOK, PlaceOK, BatchesOf
    <2>4. /\ Tail(batches) \in Seq(Seq(Units)) /\ Len(Tail(batches)) = Len(batches) - 1
          /\ DOMAIN Tail(batches) = 1..(Len(batches) - 1)
          /\ \A b \in 1..(Len(batches) - 1) :
                b + 1 \in DOMAIN batches /\ Tail(batches)[b] = batches[b + 1]
      BY <2>3
    <2>5. BatchesOf(Tail(batches), call[c].units)
      BY <2>3, <2>4 DEF BatchesOf
    <2>6. Len(batches) # 1 => 1 \in DOMAIN Tail(batches)
      BY <2>3, <2>4
    <2>7. PlaceOK(call'[c])
      BY <2>1, <2>2, <2>3, <2>6 DEF PlaceOK, Resolving, Holding
    <2>8. /\ call'[c].pc \in Places /\ call'[c].i \in Nat \ {0}
          /\ call'[c].pc \notin {"insert", "commit"}
      BY <2>1 DEF Places
    <2> QED BY <1>1, <2>1, <2>2, <2>5, <2>7, <2>8, CallAsksSame DEF CallOK
  <1> QED BY <1>2, <1>3, CommitMove

LEMMA ReadTypes ==
    ASSUME Shapes, TypeInvariant, NEW c \in Callers,
           ReadFallback(c) \/ ReadFlag(c) \/ ReadLatest(c) \/ ReadRange(c)
    PROVE  CallOK(call'[c])
  <1>1. CallOK(call[c])
    BY DEF TypeInvariant
  <1>2. CASE ReadFallback(c)
    <2>0. call[c].series \in Seq(Series) /\ call[c].pc = "fallback"
      BY <1>1, <1>2, FallbackMove DEF CallOK, AskedOK
    <2>1. /\ call[c].pc = "fallback" /\ call[c].op = "latest" /\ call[c].err # "none"
          /\ call[c].i \in 1..Len(call[c].series) /\ Len(call[c].series) \in Nat
          /\ Len(call[c].units) = Len(call[c].series)
      <3>1. call[c].op = "latest" /\ call[c].err # "none" /\ call[c].i \in 1..Len(call[c].series)
        BY <1>1, <2>0 DEF CallOK, PlaceOK
      <3>2. Len(call[c].units) = Len(call[c].series)
        BY <1>1, <3>1 DEF CallOK, AskedOK, OfLatest
      <3>3. Len(call[c].series) \in Nat
        BY <2>0
      <3> QED BY <2>0, <3>1, <3>2, <3>3
    <2>2. CASE GivesUpBy(c)
      BY <1>1, <2>1, <2>2, GivesUpOK
    <2>3. CASE ~GivesUpBy(c)
      <3>1. /\ call'[c].op = call[c].op /\ call'[c].series = call[c].series
            /\ call'[c].units = call[c].units /\ call'[c].base = call[c].base
            /\ call'[c].ready = call[c].ready /\ call'[c].batches = call[c].batches
            /\ call'[c].err = call[c].err
            /\ \/ /\ call[c].i < Len(call[c].series)
                  /\ call'[c].pc = "fallback" /\ call'[c].i = call[c].i + 1
               \/ call'[c].pc = "flags" /\ call'[c].i = 1
        BY <1>2, <2>1, <2>3, FallbackMove DEF Kept, CallFields
      <3>2. call'[c].i \in 1..Len(call[c].series) /\ call'[c].i \in Nat \ {0}
        BY <2>1, <3>1
      <3>3. PlaceOK(call'[c])
        BY <2>1, <3>1, <3>2 DEF PlaceOK, Resolving, Holding
      <3>4. call'[c].pc \in Places /\ call'[c].pc \notin {"insert", "commit"}
        BY <3>1 DEF Places
      <3> QED BY <1>1, <3>1, <3>2, <3>3, <3>4, CallAsksSame DEF CallOK
    <2> QED BY <2>2, <2>3
  <1>3. CASE ReadFlag(c)
    <2>1. /\ call[c].pc = "flags" /\ call[c].op = "latest" /\ call[c].err # "none"
          /\ call[c].i \in 1..Len(call[c].units) /\ Len(call[c].units) \in Nat
      BY <1>1, <1>3, FlagMove DEF CallOK, PlaceOK, AskedOK, InPeriods
    <2>2. /\ call'[c].op = call[c].op /\ call'[c].series = call[c].series
          /\ call'[c].units = call[c].units /\ call'[c].base = call[c].base
          /\ call'[c].batches = call[c].batches /\ call'[c].err = call[c].err
          /\ Advances(c, Len(call[c].units), "done")
      BY <1>3, FlagMove DEF Kept, CallFields
    <2>3. call'[c].ready \subseteq Keys
      <3>1. PICK unit : unit = call[c].units[call[c].i]
        OBVIOUS
      <3>2. unit.key \in Keys
        BY <1>1, <2>1, <3>1, UnitAtCursor
      <3>3. call'[c].ready \subseteq call[c].ready \cup {unit.key}
        BY <1>3, <3>1, FlagMove
      <3> QED BY <1>1, <3>2, <3>3 DEF CallOK
    <2>4. /\ call'[c].i \in Nat \ {0}
          /\ \/ call'[c].pc = "flags" /\ call'[c].i \in 1..Len(call[c].units)
             \/ call'[c].pc = "done"
      BY <2>1, <2>2, AdvancesOK
    <2>5. PlaceOK(call'[c])
      BY <2>1, <2>2, <2>4 DEF PlaceOK, Resolving, Holding
    <2>6. call'[c].pc \in Places /\ call'[c].pc \notin {"insert", "commit"}
      BY <2>4 DEF Places
    <2> QED BY <1>1, <2>2, <2>3, <2>4, <2>5, <2>6, CallAsksSame DEF CallOK
  <1>4. CASE ReadLatest(c)
    <2>0. /\ call[c].pc = "read" /\ call[c].op = "latest" /\ call[c].series \in Seq(Series)
      BY <1>1, <1>4, LatestMove DEF CallOK, AskedOK
    <2>1. /\ call[c].pc = "read" /\ call[c].op = "latest"
          /\ call[c].i \in 1..Len(call[c].series) /\ Len(call[c].series) \in Nat
      <3>1. call[c].i \in 1..Len(call[c].series)
        BY <1>1, <2>0 DEF CallOK, PlaceOK
      <3> QED BY <2>0, <3>1
    <2>2. /\ call'[c].op = call[c].op /\ call'[c].series = call[c].series
          /\ call'[c].units = call[c].units /\ call'[c].base = call[c].base
          /\ call'[c].batches = call[c].batches /\ call'[c].err = call[c].err
          /\ call'[c].ready = call[c].ready
          /\ Advances(c, Len(call[c].series), "done")
      BY <1>4, LatestMove DEF Kept, CallFields
    <2>3. /\ call'[c].i \in Nat \ {0}
          /\ \/ call'[c].pc = "read" /\ call'[c].i \in 1..Len(call[c].series)
             \/ call'[c].pc = "done"
      BY <2>1, <2>2, AdvancesOK
    <2>4. PlaceOK(call'[c])
      BY <2>1, <2>2, <2>3 DEF PlaceOK, Resolving, Holding
    <2>5. call'[c].pc \in Places /\ call'[c].pc \notin {"insert", "commit"}
      BY <2>3 DEF Places
    <2> QED BY <1>1, <2>2, <2>3, <2>4, <2>5, CallAsksSame DEF CallOK
  <1>5. CASE ReadRange(c)
    <2>1. /\ call'[c].op = call[c].op /\ call'[c].series = call[c].series
          /\ call'[c].units = call[c].units /\ call'[c].base = call[c].base
          /\ call'[c].batches = call[c].batches /\ call'[c].err = call[c].err
          /\ call'[c].ready = call[c].ready /\ call'[c].pc = "done" /\ call'[c].i = 1
      BY <1>5, RangeMove DEF Kept, CallFields
    <2>2. PlaceOK(call'[c])
      BY <2>1 DEF PlaceOK, Resolving, Holding
    <2>3. /\ call'[c].pc \in Places /\ call'[c].pc \notin {"insert", "commit"}
          /\ call'[c].i \in Nat \ {0}
      BY <2>1 DEF Places
    <2> QED BY <1>1, <2>1, <2>2, <2>3, CallAsksSame DEF CallOK
  <1> QED BY <1>2, <1>3, <1>4, <1>5

LEMMA BreakTypes ==
    ASSUME Shapes, TypeInvariant, NEW c \in Callers, FallbackBreaks(c) \/ Interrupt(c)
    PROVE  CallOK(call'[c])
  <1>1. CallOK(call[c]) /\ call[c].op \in {"none", "latest", "range", "revalidate"}
    BY DEF TypeInvariant, CallOK, AskedOK
  <1>2. CASE FallbackBreaks(c)
    BY <1>1, <1>2, BreaksMove, GivesUpOK
  <1>3. CASE Interrupt(c)
    <2>1. "interrupted" \in Errors \ {"none"}
      BY DEF Errors
    <2>2. call[c].pc \in Resolving
      BY <1>3, InterruptMove DEF Resolving, Holding
    <2> QED BY <1>1, <1>3, <2>1, <2>2, InterruptMove, EndsOK, FailsOK
  <1> QED BY <1>2, <1>3

-----------------------------------------------------------------------------
(* What an accepted response of the provider holds.                         *)

LEMMA RequestOf ==
    ASSUME NEW batch \in Seq(Units), 1 \in DOMAIN batch
    PROVE  LET request == RequestForBatch(batch)
           IN  /\ request.kind = batch[1].key.kind /\ request.to = batch[1].fetchTo
               /\ request.to \in 0..LastDay
               /\ request.kind = "range" => request.from = FirstOf(batch[1].key.month)
               /\ request.ids \in Seq(Series) /\ DOMAIN request.ids = DOMAIN batch
               /\ \A i \in DOMAIN batch : request.ids[i] = batch[i].key.series
               /\ IsFiniteSet(ToSet(request.ids))
  <1>1. PICK request : request = RequestForBatch(batch)
    OBVIOUS
  <1>2. /\ request.kind = batch[1].key.kind /\ request.to = batch[1].fetchTo
        /\ request.kind = "range" => request.from = FirstOf(batch[1].key.month)
        /\ request.ids = [i \in DOMAIN batch |-> batch[i].key.series]
    BY <1>1 DEF RequestForBatch
  <1>3. \A i \in DOMAIN batch : batch[i].key.series \in Series /\ batch[i] \in Units
    <2>1. \A unit \in Units : unit.key.series \in Series
      <3>1. \A k \in Keys : k.series \in Series
        BY DEF Keys
      <3> QED BY <3>1 DEF Units
    <2> QED BY <2>1
  <1>4. PICK n \in Nat : n = Len(batch) /\ DOMAIN batch = 1..n
    OBVIOUS
  <1>5. request.ids \in [1..n -> Series]
    BY <1>2, <1>3, <1>4
  <1>6. request.to \in 0..LastDay
    BY <1>2, <1>3 DEF Units
  <1>7. IsFiniteSet(ToSet(request.ids))
    <2>1. request.ids \in Surjection(1..n, ToSet(request.ids))
      BY <1>5 DEF Surjection, ToSet
    <2>2. IsFiniteSet(1..n)
      BY FS_Interval
    <2> QED BY <2>1, <2>2, FS_Surjection
  <1> QED BY <1>1, <1>2, <1>4, <1>5, <1>6, <1>7

\* A finite set as a sequence.
LEMMA SequenceOfSet ==
    ASSUME NEW S, IsFiniteSet(S)
    PROVE  SetToSeq(S) \in Seq(S)
  <1>1. PICK n \in Nat : n = Cardinality(S)
    BY FS_CardinalityType
  <1>2. PICK f : f \in Bijection(1..n, S)
    BY <1>1, FS_CardinalityType DEF ExistsBijection
  <1>3. f \in [1..n -> S] /\ IsInjective(f)
    BY <1>2 DEF Bijection, Injection, IsInjective
  <1>4. SetToSeq(S) \in [1..n -> S]
    BY <1>1, <1>3 DEF SetToSeq
  <1> QED BY <1>4

Publishable == [Series -> [Days -> Values \cup {0}]]

LEMMA PublishedItems ==
    ASSUME NEW data \in Publishable, NEW s \in Series, NEW request
    PROVE  PublishedFor(data, s, request) \in Seq([day : Days, value : Values])
  <1>1. PICK wanted : wanted =
          {d \in Days : /\ data[s][d] # 0
                        /\ IF request.kind = "range" THEN d \in request.from..request.to
                           ELSE \A e \in (d + 1)..LastDay : data[s][e] = 0}
    OBVIOUS
  <1>2. PICK f : f = [d \in wanted |-> [day |-> d, value |-> data[s][d]]]
    OBVIOUS
  <1>3. PICK items : items = {[day |-> d, value |-> data[s][d]] : d \in wanted}
    OBVIOUS
  <1>4. PublishedFor(data, s, request) = SetToSeq(items)
    BY <1>1, <1>3 DEF PublishedFor
  <1>5. \A d \in wanted : d \in Days /\ data[s][d] \in Values
    BY <1>1 DEF Publishable
  <1>6. items \subseteq [day : Days, value : Values]
    BY <1>3, <1>5
  <1>7. IsFiniteSet(items)
    <2>1. IsFiniteSet(Days)
      BY RateAssumption, FS_Interval DEF Days
    <2>2. IsFiniteSet(wanted)
      BY <1>1, <2>1, FS_Subset
    <2>3. f \in Surjection(wanted, items)
      BY <1>2, <1>3 DEF Surjection
    <2> QED BY <2>2, <2>3, FS_Surjection
  <1>8. SetToSeq(items) \in Seq(items)
    BY <1>7, SequenceOfSet
  <1>9. SetToSeq(items) \in Seq([day : Days, value : Values])
    <2>1. PICK S : S = [day : Days, value : Values]
      OBVIOUS
    <2>2. items \subseteq S
      BY <1>6, <2>1
    <2>3. SetToSeq(items) \in Seq(S)
      BY <1>8, <2>2
    <2> QED BY <2>1, <2>3
  <1> QED BY <1>4, <1>9

\* The items of any answer: published ones, one that is no price and, asked for a
\* period, one of the day after it.
Items(request) ==
    [day : Days, value : Values] \cup {[day |-> request.to, value |-> 0]}
        \cup (IF request.kind = "range" THEN {[day |-> request.to + 1, value |-> 1]} ELSE {})

Entries(request) == [id : Series, error : BOOLEAN, obs : Seq(Items(request))]

LEMMA HonestBody ==
    ASSUME NEW data \in Publishable, NEW request, request.ids \in Seq(Series)
    PROVE  /\ Honest(data, request).body \in Seq(Entries(request))
           /\ DOMAIN Honest(data, request).body = DOMAIN request.ids
  <1>1. PICK items : items = [day : Days, value : Values]
    OBVIOUS
  <1>2. items \subseteq Items(request)
    BY <1>1 DEF Items
  <1>3. PICK body : body = [i \in DOMAIN request.ids |->
                              [id |-> request.ids[i], error |-> FALSE,
                               obs |-> PublishedFor(data, request.ids[i], request)]]
    OBVIOUS
  <1>4. \A s \in Series : PublishedFor(data, s, request) \in Seq(Items(request))
    <2> SUFFICES ASSUME NEW s \in Series
                 PROVE  PublishedFor(data, s, request) \in Seq(Items(request))
      OBVIOUS
    <2>1. PublishedFor(data, s, request) \in Seq(items)
      BY <1>1, PublishedItems
    <2> QED BY <1>2, <2>1
  <1>5. \A i \in DOMAIN request.ids : body[i] \in Entries(request)
    BY <1>3, <1>4 DEF Entries
  <1>6. PICK n \in Nat : DOMAIN request.ids = 1..n
    OBVIOUS
  <1>7. body \in [1..n -> Entries(request)]
    BY <1>3, <1>5, <1>6
  <1> QED BY <1>3, <1>6, <1>7 DEF Honest

LEMMA AnyBody ==
    ASSUME NEW data \in Publishable, NEW request, request.ids \in Seq(Series),
           1 \in DOMAIN request.ids,
           NEW reply \in {Honest(data, request)} \cup Faulty(data, request)
    PROVE  reply.body \in Seq(Entries(request))
  <1>1. PICK good, body, entry : /\ good = Honest(data, request) /\ body = good.body
                                 /\ entry = body[1]
    OBVIOUS
  <1>2. body \in Seq(Entries(request)) /\ 1 \in DOMAIN body
    BY <1>1, HonestBody
  <1>3. entry \in Entries(request) /\ Tail(body) \in Seq(Entries(request))
    BY <1>1, <1>2
  <1>4. CASE \E b : /\ reply = [good EXCEPT !.body = b]
                    /\ \/ b \in {Tail(body), Append(body, entry)}
                       \/ b = <<[entry EXCEPT !.error = TRUE]>> \o Tail(body)
                       \/ \E obs \in Seq(Items(request)) :
                             b = <<[entry EXCEPT !.obs = obs]>> \o Tail(body)
    <2>1. PICK b : /\ reply = [good EXCEPT !.body = b]
                   /\ \/ b \in {Tail(body), Append(body, entry)}
                      \/ b = <<[entry EXCEPT !.error = TRUE]>> \o Tail(body)
                      \/ \E obs \in Seq(Items(request)) :
                            b = <<[entry EXCEPT !.obs = obs]>> \o Tail(body)
      BY <1>4
    <2>2. reply.body = b
      BY <1>1, <2>1 DEF Honest
    <2>3. \A e \in Entries(request) : <<e>> \o Tail(body) \in Seq(Entries(request))
      BY <1>3
    <2>4. [entry EXCEPT !.error = TRUE] \in Entries(request)
      BY <1>3 DEF Entries
    <2>5. \A obs \in Seq(Items(request)) : [entry EXCEPT !.obs = obs] \in Entries(request)
      BY <1>3 DEF Entries
    <2>6. Append(body, entry) \in Seq(Entries(request))
      BY <1>2, <1>3
    <2> QED BY <1>3, <2>1, <2>2, <2>3, <2>4, <2>5, <2>6
  <1>5. CASE reply \in {good, [good EXCEPT !.transport = FALSE], [good EXCEPT !.status = 401],
                        [good EXCEPT !.status = 500], [good EXCEPT !.json = FALSE],
                        [good EXCEPT !.status = 429, !.resets[2] = 1]}
    <2>1. reply.body = good.body
      <3>1. CASE reply = [good EXCEPT !.status = 429, !.resets[2] = 1]
        BY <1>1, <3>1 DEF Honest
      <3>2. CASE reply = [good EXCEPT !.transport = FALSE]
        BY <1>1, <3>2 DEF Honest
      <3>3. CASE reply = [good EXCEPT !.status = 401] \/ reply = [good EXCEPT !.status = 500]
        BY <1>1, <3>3 DEF Honest
      <3>4. CASE reply = [good EXCEPT !.json = FALSE]
        BY <1>1, <3>4 DEF Honest
      <3> QED BY <1>5, <3>1, <3>2, <3>3, <3>4
    <2> QED BY <1>1, <1>2, <2>1
  <1>6. /\ <<>> \in Seq(Items(request)) /\ entry.obs \o entry.obs \in Seq(Items(request))
        /\ <<[day |-> request.to, value |-> 0]>> \in Seq(Items(request))
        /\ request.kind = "range" =>
              <<[day |-> request.to + 1, value |-> 1]>> \in Seq(Items(request))
    <2>1. entry.obs \in Seq(Items(request))
      BY <1>3 DEF Entries
    <2>2. [day |-> request.to, value |-> 0] \in Items(request)
      BY DEF Items
    <2>3. request.kind = "range" => [day |-> request.to + 1, value |-> 1] \in Items(request)
      BY DEF Items
    <2> QED BY <2>1, <2>2, <2>3
  <1>7. CASE reply \in Faulty(data, request)
    <2> DEFINE honest == Honest(data, request)
               first == honest.body[1]
               Changed(obs) == <<[first EXCEPT !.obs = obs]>> \o Tail(honest.body)
               bodies == {Tail(honest.body), Append(honest.body, first),
                          <<[first EXCEPT !.error = TRUE]>> \o Tail(honest.body),
                          Changed(<<>>), Changed(first.obs \o first.obs),
                          Changed(<<[day |-> request.to, value |-> 0]>>)}
                         \cup (IF request.kind = "range"
                               THEN {Changed(<<[day |-> request.to + 1, value |-> 1]>>)}
                               ELSE {})
    <2>1. Faulty(data, request) =
            {[honest EXCEPT !.body = b] : b \in bodies}
            \cup {[honest EXCEPT !.transport = FALSE], [honest EXCEPT !.status = 401],
                  [honest EXCEPT !.status = 500], [honest EXCEPT !.json = FALSE],
                  [honest EXCEPT !.status = 429, !.resets[2] = 1]}
      BY DEF Faulty
    <2>2. honest = good /\ first = entry /\ honest.body = body
      BY <1>1
    <2>3. \A obs : Changed(obs) = <<[entry EXCEPT !.obs = obs]>> \o Tail(body)
      BY <2>2
    <2>4. \A b \in bodies : \/ b \in {Tail(body), Append(body, entry)}
                            \/ b = <<[entry EXCEPT !.error = TRUE]>> \o Tail(body)
                            \/ \E obs \in Seq(Items(request)) : b = Changed(obs)
      <3> HIDE DEF Changed
      <3> QED BY <1>6, <2>2
    <2> HIDE DEF Changed, bodies
    <2>5. CASE \E b \in bodies : reply = [honest EXCEPT !.body = b]
      <3>1. PICK b \in bodies : reply = [honest EXCEPT !.body = b]
        BY <2>5
      <3>2. reply = [good EXCEPT !.body = b]
        BY <2>2, <3>1
      <3>3. CASE \E obs \in Seq(Items(request)) : b = Changed(obs)
        BY <1>4, <2>3, <3>2, <3>3
      <3> QED BY <1>4, <2>4, <3>2, <3>3
    <2>6. CASE reply \in {[honest EXCEPT !.transport = FALSE], [honest EXCEPT !.status = 401],
                         [honest EXCEPT !.status = 500], [honest EXCEPT !.json = FALSE],
                         [honest EXCEPT !.status = 429, !.resets[2] = 1]}
      BY <1>5, <2>2, <2>6
    <2> QED BY <1>7, <2>1, <2>5, <2>6
  <1> QED BY <1>1, <1>5, <1>7

LEMMA AcceptedReply ==
    ASSUME NEW data \in Publishable, NEW request, request.ids \in Seq(Series),
           1 \in DOMAIN request.ids, IsFiniteSet(ToSet(request.ids)), request.to \in Int,
           NEW reply \in {Honest(data, request)} \cup Faulty(data, request),
           Classify(request, reply).err = "none"
    PROVE  /\ {entry.id : entry \in ToSet(reply.body)} = ToSet(request.ids)
           /\ \A o \in Classify(request, reply).obs :
                 /\ o.series \in Series
                 /\ \/ o.day \in Days /\ o.value \in Values
                    \/ request.kind = "range" /\ o.day \notin request.from..request.to
  <1>1. /\ AcceptBody(reply.body, ToSet(request.ids))
        /\ Classify(request, reply).obs = Observed(reply.body)
    BY DEF Classify, Refusal
  <1>2. PICK body : body = reply.body
    OBVIOUS
  <1>3. body \in Seq(Entries(request))
    BY <1>2, AnyBody
  <1>4. \A entry \in ToSet(body) :
           /\ entry \in Entries(request) /\ entry.id \in ToSet(request.ids)
           /\ \A item \in ToSet(entry.obs) : item.value > 0
    <2>1. \A entry \in ToSet(body) : entry \in Entries(request)
      BY <1>3 DEF ToSet
    <2> QED BY <1>1, <1>2, <2>1 DEF AcceptBody
  <1>5. \A entry \in ToSet(body) : \A item \in ToSet(entry.obs) :
           \/ item.day \in Days /\ item.value \in Values
           \/ request.kind = "range" /\ item.day \notin request.from..request.to
    <2> SUFFICES ASSUME NEW entry \in ToSet(body), NEW item \in ToSet(entry.obs)
                 PROVE  \/ item.day \in Days /\ item.value \in Values
                        \/ request.kind = "range" /\ item.day \notin request.from..request.to
      OBVIOUS
    <2>1. entry.obs \in Seq(Items(request)) /\ item.value > 0
      BY <1>4 DEF Entries
    <2>2. item \in Items(request)
      BY <2>1 DEF ToSet
    <2>3. \/ item \in [day : Days, value : Values]
          \/ item = [day |-> request.to, value |-> 0]
          \/ request.kind = "range" /\ item = [day |-> request.to + 1, value |-> 1]
      BY <2>2 DEF Items
    <2>4. request.to + 1 \notin request.from..request.to
      OBVIOUS
    <2> QED BY <2>1, <2>3, <2>4
  <1>6. {entry.id : entry \in ToSet(body)} = ToSet(request.ids)
    <2>1. PICK ids : ids = {entry.id : entry \in ToSet(body)}
      OBVIOUS
    <2>2. ids \in SUBSET ToSet(request.ids)
      BY <1>4, <2>1
    <2>3. Cardinality(ids) = Cardinality(ToSet(request.ids))
      BY <1>1, <1>2, <2>1 DEF AcceptBody
    <2> QED BY <2>1, <2>2, <2>3, FS_Subset
  <1>7. \A o \in Observed(body) :
           \E entry \in ToSet(body) : \E item \in ToSet(entry.obs) :
              o.series = entry.id /\ o.day = item.day /\ o.value = item.value
    BY DEF Observed
  <1>8. \A s \in ToSet(request.ids) : s \in Series
    BY DEF ToSet
  <1> QED BY <1>1, <1>2, <1>4, <1>5, <1>6, <1>7, <1>8

LEMMA PublicationsOK ==
    ASSUME StoreOK, NEW data \in Publications
    PROVE  /\ data \in Publishable
           /\ data # published => changes < MaxChanges
  <1>1. published \in Publishable /\ today \in Days
    BY DEF StoreOK, Publishable
  <1>2. CASE data = published
    BY <1>1, <1>2
  <1>3. CASE data # published
    <2>1. PICK x \in {y \in Volatile : y[2] <= today /\ changes < MaxChanges}, v \in Values :
             data = [published EXCEPT ![x[1]][x[2]] = v]
      BY <1>3 DEF Publications
    <2>2. x[1] \in Series /\ x[2] \in Nat \ {0} /\ x[2] <= today /\ changes < MaxChanges
      BY <2>1, RateAssumption
    <2>3. x[2] \in Days
      BY <1>1, <2>2, RateAssumption DEF Days
    <2> QED BY <1>1, <2>1, <2>2, <2>3 DEF Publishable
  <1> QED BY <1>2, <1>3

\* The first batch of a holding call.
LEMMA FirstBatch ==
    ASSUME NEW v, CallOK(v), v.pc \in Holding
    PROVE  /\ v.batches[1] \in Seq(Units) /\ 1 \in DOMAIN v.batches[1]
           /\ \A j \in DOMAIN v.batches[1] : /\ v.batches[1][j] \in ToSet(v.units)
                                             /\ SamePeriod(v.batches[1][1], v.batches[1][j])
  <1>1. 1 \in DOMAIN v.batches /\ BatchesOf(v.batches, v.units)
    BY DEF CallOK, PlaceOK
  <1> QED BY <1>1 DEF BatchesOf

LEMMA FetchTypes ==
    ASSUME Shapes, TypeInvariant, NEW c \in Callers, Fetch(c)
    PROVE  /\ CallOK(call'[c])
           /\ published' \in Publishable /\ changes' \in 0..MaxChanges /\ fetches' \in Nat
  <1>1. CallOK(call[c]) /\ call[c].pc = "fetch" /\ call[c].pc \in Holding /\ StoreOK
    BY FetchMove DEF TypeInvariant, Holding
  <1>2. PICK request : request = RequestForBatch(call[c].batches[1])
    OBVIOUS
  <1>3. /\ published \in Publishable /\ changes \in 0..MaxChanges /\ fetches \in Nat
        /\ MaxChanges \in Nat
    BY <1>1, RateAssumption DEF StoreOK, Publishable
  <1>4. CASE /\ call'[c].pc \in {"block", "fail"} /\ call'[c].i = 1
             /\ call'[c].err \in {"limited", "failed"}
             /\ Kept(call[c], call'[c], {"pc", "i", "err"})
             /\ UNCHANGED provider
    <2>1. /\ call'[c].op = call[c].op /\ call'[c].series = call[c].series
          /\ call'[c].units = call[c].units /\ call'[c].base = call[c].base
          /\ call'[c].ready = call[c].ready /\ call'[c].batches = call[c].batches
      BY <1>4 DEF Kept, CallFields
    <2>2. call'[c].err \in Errors /\ call'[c].err # "none"
      BY <1>4 DEF Errors
    <2>3. CallOK(call'[c])
      BY <1>1, <1>4, <2>1, <2>2, HoldsOn
    <2> QED BY <1>3, <1>4, <2>3 DEF provider
  <1>5. CASE \E data \in Publications :
             \E reply \in {Honest(data, request)} \cup Faulty(data, request) :
                Accepted(c, data, request, reply)
    <2>1. PICK data \in Publications :
             \E reply \in {Honest(data, request)} \cup Faulty(data, request) :
                Accepted(c, data, request, reply)
      BY <1>5
    <2>2. PICK reply \in {Honest(data, request)} \cup Faulty(data, request) :
             Accepted(c, data, request, reply)
      BY <2>1
    <2>3. /\ Classify(request, reply).err = "none"
          /\ RequireLatestObservations(request, Classify(request, reply).obs)
          /\ published' = data
          /\ changes' = IF data = published THEN changes ELSE changes + 1
          /\ fetches' = fetches + 1
          /\ call'[c].pc = "insert" /\ call'[c].i = 1
          /\ call'[c].reply.obs = Classify(request, reply).obs
          /\ call'[c].reply.answered = {entry.id : entry \in ToSet(reply.body)}
          /\ call'[c].op = call[c].op /\ call'[c].series = call[c].series
          /\ call'[c].units = call[c].units /\ call'[c].base = call[c].base
          /\ call'[c].ready = call[c].ready /\ call'[c].batches = call[c].batches
          /\ call'[c].err = call[c].err
      BY <2>2 DEF Accepted, Kept, CallFields
    <2>4. data \in Publishable /\ (data # published => changes < MaxChanges)
      BY <1>1, PublicationsOK
    <2>5. /\ request.ids \in Seq(Series) /\ 1 \in DOMAIN request.ids
          /\ IsFiniteSet(ToSet(request.ids)) /\ request.to \in Int
      <3>1. call[c].batches[1] \in Seq(Units) /\ 1 \in DOMAIN call[c].batches[1]
        BY <1>1, FirstBatch
      <3> QED BY <1>2, <3>1, RequestOf, RateAssumption
    <2>6. /\ {entry.id : entry \in ToSet(reply.body)} = ToSet(request.ids)
          /\ \A o \in Classify(request, reply).obs :
                /\ o.series \in Series
                /\ \/ o.day \in Days /\ o.value \in Values
                   \/ request.kind = "range" /\ o.day \notin request.from..request.to
      BY <2>3, <2>4, <2>5, AcceptedReply
    <2>7. ReplyOK(call'[c])
      BY <1>2, <2>3, <2>6 DEF ReplyOK
    <2>8. PlaceOK(call'[c])
      BY <1>1, <2>3 DEF CallOK, PlaceOK, Resolving, Holding
    <2>9. call'[c].pc \in Places /\ call'[c].i \in Nat \ {0}
      BY <2>3 DEF Places
    <2>10. CallOK(call'[c])
      BY <1>1, <2>3, <2>7, <2>8, <2>9, CallAsksSame DEF CallOK
    <2>11. changes' \in 0..MaxChanges /\ fetches' \in Nat
      BY <1>3, <2>3, <2>4
    <2> QED BY <2>3, <2>4, <2>10, <2>11
  <1> QED BY <1>2, <1>4, <1>5, FetchMove

-----------------------------------------------------------------------------
(* The store.                                                               *)

LEMMA RowShape ==
    ASSUME NEW k, NEW r, RowOK(k, r), NEW q, IsRow(q),
           q.holder \in Callers \cup {NoCall}, q.live \in BOOLEAN, q.due \in BOOLEAN,
           q.done = r.done, q.fresh \in {"null", "live", "over"}, q.covered = r.covered,
           q.stamp = r.stamp
    PROVE  RowOK(k, q)
  <1>1. q = [f \in RowFields |-> q[f]]
    BY DEF IsRow
  <1>2. q \in Rows
    BY <1>1 DEF RowOK, Rows, RowFields
  <1> QED BY <1>2 DEF RowOK

LEMMA RowIs ==
    ASSUME NEW k, NEW r, RowOK(k, r)
    PROVE  /\ IsRow(r) /\ r.holder \in Callers \cup {NoCall} /\ r.live \in BOOLEAN
           /\ r.due \in BOOLEAN /\ r.done \in Nat /\ r.fresh \in {"null", "live", "over"}
           /\ r.covered \in 0..LastDay /\ r.stamp \in Nat
  BY DEF RowOK, Rows, IsRow, RowFields

LEMMA ClaimRows ==
    ASSUME Shapes, TypeInvariant, NEW c \in Callers, Claim(c), NEW k \in Keys
    PROVE  RowOK(k, row'[k])
  <1>1. RowOK(k, row[k])
    BY DEF TypeInvariant, StoreOK
  <1>2. \/ row'[k] = row[k]
        \/ row'[k] = [row[k] EXCEPT !.holder = c, !.live = TRUE]
    BY ClaimMove
  <1>3. CASE row'[k] = [row[k] EXCEPT !.holder = c, !.live = TRUE]
    <2>1. /\ row[k] = [f \in RowFields |-> row[k][f]] /\ row[k].due \in BOOLEAN
          /\ row[k].fresh \in {"null", "live", "over"}
      BY <1>1, RowIs DEF IsRow
    <2>2. /\ IsRow(row'[k]) /\ row'[k].holder = c /\ row'[k].live = TRUE
          /\ row'[k].due = row[k].due /\ row'[k].done = row[k].done
          /\ row'[k].fresh = row[k].fresh /\ row'[k].covered = row[k].covered
          /\ row'[k].stamp = row[k].stamp
      BY <1>3, <2>1 DEF IsRow, RowFields
    <2> QED BY <1>1, <2>1, <2>2, RowShape
  <1> QED BY <1>1, <1>2, <1>3

LEMMA FailUnitRows ==
    ASSUME Shapes, TypeInvariant, NEW c \in Callers, FailUnit(c), NEW k \in Keys
    PROVE  RowOK(k, row'[k])
  <1>1. RowOK(k, row[k])
    BY DEF TypeInvariant, StoreOK
  <1>2. \/ row'[k] = row[k]
        \/ row'[k] = [row[k] EXCEPT !.holder = NoCall, !.live = FALSE, !.due = FALSE]
    <2>1. PICK key : \/ row' = row
                     \/ row' = [row EXCEPT ![key].holder = NoCall, ![key].live = FALSE,
                                           ![key].due = FALSE]
      BY FailUnitMove
    <2> QED BY <2>1 DEF Shapes
  <1>3. CASE row'[k] = [row[k] EXCEPT !.holder = NoCall, !.live = FALSE, !.due = FALSE]
    <2>1. /\ row[k] = [f \in RowFields |-> row[k][f]]
          /\ row[k].fresh \in {"null", "live", "over"}
      BY <1>1, RowIs DEF IsRow
    <2>2. /\ IsRow(row'[k]) /\ row'[k].holder = NoCall /\ row'[k].live = FALSE
          /\ row'[k].due = FALSE /\ row'[k].done = row[k].done
          /\ row'[k].fresh = row[k].fresh /\ row'[k].covered = row[k].covered
          /\ row'[k].stamp = row[k].stamp
      BY <1>3, <2>1 DEF IsRow, RowFields
    <2> QED BY <1>1, <2>1, <2>2, RowShape
  <1> QED BY <1>1, <1>2, <1>3

\* A completed unit: its period is that of its batch.
LEMMA UnitOfBatch ==
    ASSUME NEW v, CallOK(v), v.pc \in Holding, NEW k \in KeysOf(v.batches[1])
    PROVE  LET unit == CHOOSE u \in ToSet(v.batches[1]) : u.key = k
               request == RequestForBatch(v.batches[1])
           IN  /\ unit \in ToSet(v.batches[1]) /\ unit \in ToSet(v.units) /\ unit \in Units
               /\ unit.key = k /\ k \in Keys
               /\ request.kind = k.kind /\ request.to = unit.fetchTo
               /\ request.kind = "range" => request.from = FirstOf(k.month)
               /\ request.to \in 0..LastDay
               /\ k.series \in ToSet(request.ids)
  <1>1. PICK batch : batch = v.batches[1]
    OBVIOUS
  <1>2. /\ batch \in Seq(Units) /\ 1 \in DOMAIN batch
        /\ \A j \in DOMAIN batch : /\ batch[j] \in ToSet(v.units)
                                   /\ SamePeriod(batch[1], batch[j])
    BY <1>1, FirstBatch
  <1>3. PICK request : request = RequestForBatch(batch)
    OBVIOUS
  <1>4. /\ request.kind = batch[1].key.kind /\ request.to = batch[1].fetchTo
        /\ request.to \in 0..LastDay
        /\ request.kind = "range" => request.from = FirstOf(batch[1].key.month)
        /\ DOMAIN request.ids = DOMAIN batch
        /\ \A i \in DOMAIN batch : request.ids[i] = batch[i].key.series
    BY <1>2, <1>3, RequestOf
  <1>5. PICK unit : unit = CHOOSE u \in ToSet(batch) : u.key = k
    OBVIOUS
  <1>6. unit \in ToSet(batch) /\ unit.key = k
    <2>1. PICK i \in DOMAIN batch : batch[i].key = k
      BY <1>1 DEF KeysOf
    <2>2. batch[i] \in ToSet(batch)
      BY <2>1 DEF ToSet
    <2> QED BY <1>5, <2>1, <2>2
  <1>7. PICK j \in DOMAIN batch : unit = batch[j]
    BY <1>6 DEF ToSet
  <1>8. unit \in Units /\ unit \in ToSet(v.units) /\ SamePeriod(batch[1], unit)
    BY <1>2, <1>7
  <1>9. k \in Keys
    BY <1>6, <1>8, UnitMonths
  <1>10. k.series \in ToSet(request.ids)
    BY <1>4, <1>6, <1>7 DEF ToSet
  <1> QED BY <1>1, <1>3, <1>4, <1>5, <1>6, <1>8, <1>9, <1>10 DEF SamePeriod

\* What becomes of the row of a unit that is completed.
LEMMA CommitRow ==
    ASSUME Shapes, TypeInvariant, NEW c \in Callers, call[c].pc = "commit", Commits(c),
           NEW k \in Keys
    PROVE  \/ row'[k] = row[k] /\ k \notin KeysOf(call[c].batches[1])
           \/ LET unit == CHOOSE u \in ToSet(call[c].batches[1]) : u.key = k
                  request == RequestForBatch(call[c].batches[1])
              IN  /\ k \in KeysOf(call[c].batches[1])
                  /\ row'[k] = Completed(unit, row[k], request, call[c].reply.stamp)
  BY DEF Commits

LEMMA CommitRows ==
    ASSUME Shapes, TypeInvariant, StampsOK, NEW c \in Callers, call[c].pc = "commit",
           Commits(c), NEW k \in Keys
    PROVE  RowOK(k, row'[k])
  <1>1. RowOK(k, row[k]) /\ CallOK(call[c]) /\ call[c].pc \in Holding
    BY DEF TypeInvariant, StoreOK, Holding
  <1>2. CASE row'[k] = row[k]
    BY <1>1, <1>2
  <1>3. CASE row'[k] # row[k]
    <2>1. PICK unit, request, stamp :
            /\ unit = CHOOSE u \in ToSet(call[c].batches[1]) : u.key = k
            /\ request = RequestForBatch(call[c].batches[1]) /\ stamp = call[c].reply.stamp
      OBVIOUS
    <2>2. k \in KeysOf(call[c].batches[1]) /\ row'[k] = Completed(unit, row[k], request, stamp)
      BY <1>3, <2>1, CommitRow
    <2>3. /\ unit \in Units /\ unit.key = k /\ request.to = unit.fetchTo
          /\ unit \in ToSet(call[c].units) /\ request.to \in 0..LastDay
      BY <1>1, <2>1, <2>2, UnitOfBatch
    <2>4. stamp \in Nat
      <3>1. stamp \in 1..fetches /\ fetches \in Nat
        BY <2>1 DEF StampsOK, Recording, Shapes
      <3> QED BY <3>1
    <2>5. row[k].done \in Nat /\ row[k].covered \in 0..LastDay
      BY <1>1, RowIs
    <2>6. PICK q : q = row'[k]
      OBVIOUS
    <2>7. /\ IsRow(q) /\ q.holder = NoCall /\ q.live = FALSE /\ q.due = TRUE
          /\ q.done = row[k].done + 1 /\ q.fresh \in {"null", "live", "over"}
          /\ q.covered = IF unit.key.kind = "range" /\ row[k].covered < request.to
                         THEN request.to ELSE row[k].covered
          /\ q.stamp = stamp
      <3>1. q = Completed(unit, row[k], request, stamp)
        BY <2>2, <2>6
      <3>2. q.fresh = IF unit.key.kind = "latest" \/ ~unit.permanent THEN "live" ELSE "null"
        BY <3>1 DEF Completed, IsRow, RowFields
      <3>3. /\ IsRow(q) /\ q.holder = NoCall /\ q.live = FALSE /\ q.due = TRUE
            /\ q.done = row[k].done + 1 /\ q.stamp = stamp
            /\ q.covered = IF unit.key.kind = "range" /\ row[k].covered < request.to
                           THEN request.to ELSE row[k].covered
        BY <3>1 DEF Completed, IsRow, RowFields
      <3>4. q.fresh \in {"null", "live", "over"}
        BY <3>2
      <3> QED BY <3>3, <3>4
    <2>8. q.done \in Nat /\ q.covered \in 0..LastDay
      BY <2>3, <2>5, <2>7
    <2>9. q \in Rows
      BY <2>4, <2>7, <2>8 DEF Rows, IsRow, RowFields
    <2>10. k.kind = "range" => request.to \in FirstOf(k.month)..LastOf(k.month)
      <3> SUFFICES ASSUME k.kind = "range"
                   PROVE  request.to \in FirstOf(k.month)..LastOf(k.month)
        OBVIOUS
      <3>1. call[c].op # "latest"
        <4> SUFFICES ASSUME call[c].op = "latest"
                     PROVE  FALSE
          OBVIOUS
        <4>1. OfLatest(call[c].units, call[c].series) /\ call[c].units \in Seq(Units)
          BY <1>1 DEF CallOK, AskedOK, InPeriods
        <4>2. PICK i \in DOMAIN call[c].units : call[c].units[i] = unit
          BY <2>3 DEF ToSet
        <4>3. i \in 1..Len(call[c].series)
          BY <4>1, <4>2 DEF OfLatest
        <4>4. unit.key = LatestKey(call[c].series[i])
          BY <4>1, <4>2, <4>3 DEF OfLatest
        <4> QED BY <2>3, <4>4 DEF LatestKey
      <3>2. OfRange(call[c].units)
        BY <1>1, <3>1 DEF CallOK, AskedOK
      <3> QED BY <2>3, <3>2 DEF OfRange
    <2>11. q.covered # 0 => k.kind = "range" /\ q.covered \in FirstOf(k.month)..LastOf(k.month)
      BY <1>1, <2>3, <2>7, <2>10 DEF RowOK
    <2> QED BY <2>6, <2>9, <2>11 DEF RowOK
  <1> QED BY <1>2, <1>3

\* What a commit appends is what its response holds.
LEMMA CommitHistory ==
    ASSUME Shapes, TypeInvariant, NEW c \in Callers, call[c].pc = "commit", InsertsOK(c),
           Commits(c)
    PROVE  history' \in [Series -> [Days -> Seq(Values)]]
  <1>1. /\ history \in [Series -> [Days -> Seq(Values)]]
        /\ ReplyOK(call[c]) /\ call[c].inserts \subseteq call[c].reply.obs
    BY DEF TypeInvariant, StoreOK, CallOK, InsertsOK
  <1>2. \A o \in call[c].inserts : o.value \in Values
    BY <1>1 DEF ReplyOK
  <1>3. history' = [s \in Series |-> [d \in Days |-> history'[s][d]]]
    BY DEF Commits
  <1>4. ASSUME NEW s \in Series, NEW d \in Days
        PROVE  history'[s][d] \in Seq(Values)
    <2>1. history[s][d] \in Seq(Values)
      BY <1>1
    <2>2. PICK new : new = {o \in call[c].inserts : o.series = s /\ o.day = d}
      OBVIOUS
    <2>3. history'[s][d] = IF new = {} THEN history[s][d]
                           ELSE Append(history[s][d], (CHOOSE o \in new : TRUE).value)
      BY <2>2 DEF Commits
    <2>4. new # {} => (CHOOSE o \in new : TRUE).value \in Values
      BY <1>2, <2>2
    <2> QED BY <2>1, <2>3, <2>4
  <1> QED BY <1>3, <1>4

\* The rows by the steps of the clock.
LEMMA ClockRows ==
    ASSUME Shapes, TypeInvariant, NEW k \in Keys,
           WaitsEnd \/ (\E key \in Keys : FreshnessEnds(key)) \/ NextDay \/ UNCHANGED vars
    PROVE  /\ RowOK(k, row'[k])
           /\ row'[k].done = row[k].done /\ row'[k].covered = row[k].covered
           /\ row'[k].holder = row[k].holder /\ (row'[k].live => row[k].live)
  <1>1. RowOK(k, row[k]) /\ IsRow(row[k])
    BY RowIs DEF TypeInvariant, StoreOK
  <1>2. \/ row' = row
        \/ \E key \in Keys : \/ row' = [row EXCEPT ![key].live = FALSE]
                             \/ row' = [row EXCEPT ![key].due = TRUE]
                             \/ row' = [row EXCEPT ![key].fresh = "over"]
    BY DEF WaitsEnd, BlockEnds, LeaseLapses, BackoffEnds, FreshnessEnds, NextDay, vars, store
  <1>3. \/ row'[k] = row[k]
        \/ row'[k] = [row[k] EXCEPT !.live = FALSE]
        \/ row'[k] = [row[k] EXCEPT !.due = TRUE]
        \/ row'[k] = [row[k] EXCEPT !.fresh = "over"]
    BY <1>2 DEF Shapes
  <1>4. CASE row'[k] = row[k]
    BY <1>1, <1>4
  <1>5. CASE row'[k] # row[k]
    <2>1. /\ row[k] = [f \in RowFields |-> row[k][f]] /\ row[k].due \in BOOLEAN
          /\ row[k].fresh \in {"null", "live", "over"} /\ row[k].live \in BOOLEAN
          /\ row[k].holder \in Callers \cup {NoCall}
      BY <1>1, RowIs DEF IsRow
    <2>2. /\ IsRow(row'[k]) /\ row'[k].holder = row[k].holder
          /\ row'[k].done = row[k].done /\ row'[k].covered = row[k].covered
          /\ row'[k].stamp = row[k].stamp
          /\ row'[k].live = row[k].live \/ row'[k].live = FALSE
          /\ row'[k].due = row[k].due \/ row'[k].due = TRUE
          /\ row'[k].fresh = row[k].fresh \/ row'[k].fresh = "over"
      <3>1. CASE row'[k] = [row[k] EXCEPT !.live = FALSE]
        BY <2>1, <3>1 DEF IsRow, RowFields
      <3>2. CASE row'[k] = [row[k] EXCEPT !.due = TRUE]
        BY <2>1, <3>2 DEF IsRow, RowFields
      <3>3. CASE row'[k] = [row[k] EXCEPT !.fresh = "over"]
        BY <2>1, <3>3 DEF IsRow, RowFields
      <3> QED BY <1>3, <1>5, <3>1, <3>2, <3>3
    <2>3. /\ row'[k].live \in BOOLEAN /\ row'[k].due \in BOOLEAN
          /\ row'[k].fresh \in {"null", "live", "over"}
          /\ row'[k].holder \in Callers \cup {NoCall}
      BY <2>1, <2>2
    <2>4. RowOK(k, row'[k])
      BY <1>1, <2>2, <2>3, RowShape
    <2>5. row'[k].live => row[k].live
      BY <2>2
    <2> QED BY <2>2, <2>4, <2>5
  <1> QED BY <1>4, <1>5

\* The steps of a call that leave the rows and the observations alone.
Quiet(c) ==
    \/ Begin(c) \/ ReadBaseline(c) \/ ReadState(c) \/ CheckBlocked(c) \/ BlockProvider(c)
    \/ Insert(c) \/ ReadFallback(c) \/ ReadFlag(c) \/ ReadLatest(c) \/ ReadRange(c)
    \/ FallbackBreaks(c) \/ Interrupt(c)

LEMMA QuietKeeps ==
    ASSUME NEW c, Quiet(c)
    PROVE  /\ row' = row /\ history' = history /\ imports' = imports /\ fetches' = fetches
           /\ today' = today /\ published' = published /\ changes' = changes
  BY DEF Quiet, Begin, ReadBaseline, ReadState, CheckBlocked, BlockProvider, Insert,
         ReadFallback, ReadFlag, ReadLatest, ReadRange, FallbackBreaks, Interrupt, store,
         provider

LEMMA QuietMoves ==
    ASSUME Shapes, NEW c \in Callers,
           Quiet(c) \/ Claim(c) \/ Fetch(c) \/ FailUnit(c) \/ Commit(c)
    PROVE  Moves(c)
  BY BeginMove, BaselineMove, StateMove, CheckMove, BlockMove, InsertMove, FallbackMove,
     FlagMove, LatestMove, RangeMove, BreaksMove, InterruptMove, ClaimMove, FetchMove,
     FailUnitMove, CommitMove DEF Quiet

LEMMA CallTypes ==
    ASSUME Shapes, TypeInvariant, NEW c \in Callers,
           Quiet(c) \/ Claim(c) \/ Fetch(c) \/ FailUnit(c) \/ Commit(c)
    PROVE  \A d \in Callers : CallOK(call'[d])
  <1>1. CallOK(call'[c])
    <2>1. CASE Begin(c)
      BY <2>1, BeginTypes DEF TypeInvariant
    <2>2. CASE ReadBaseline(c) \/ ReadState(c) \/ CheckBlocked(c) \/ BlockProvider(c)
      BY <2>2, BaselineTypes, StateTypes, CheckTypes
    <2>3. CASE Insert(c) \/ ReadFallback(c) \/ ReadFlag(c) \/ ReadLatest(c) \/ ReadRange(c)
      BY <2>3, InsertTypes, ReadTypes
    <2>4. CASE FallbackBreaks(c) \/ Interrupt(c)
      BY <2>4, BreakTypes
    <2>5. CASE Claim(c) \/ Fetch(c) \/ FailUnit(c) \/ Commit(c)
      BY <2>5, ClaimTypes, FetchTypes, FailUnitTypes, CommitTypes
    <2> QED BY <2>1, <2>2, <2>3, <2>4, <2>5 DEF Quiet
  <1>2. Moves(c)
    BY QuietMoves
  <1>3. ASSUME NEW d \in Callers \ {c}
        PROVE  CallOK(call'[d])
    <2>1. call'[d] = call[d]
      BY <1>2 DEF Moves
    <2> QED BY <2>1 DEF TypeInvariant
  <1> QED BY <1>1, <1>3

LEMMA StepTypes ==
    ASSUME RateInvariant, TypeInvariant, NEW c \in Callers,
           Quiet(c) \/ Claim(c) \/ Fetch(c) \/ FailUnit(c) \/ Commit(c)
    PROVE  TypeInvariant'
  <1>1. Shapes /\ StampsOK /\ InsertsOK(c) /\ StoreOK
    BY DEF RateInvariant, TypeInvariant
  <1>2. \A d \in Callers : CallOK(call'[d])
    BY <1>1, CallTypes
  <1>3. MaxInterrupts \in Nat /\ interrupts \in 0..MaxInterrupts
    BY <1>1, RateAssumption DEF StoreOK
  <1>4. /\ today' = today /\ blocked' \in BOOLEAN /\ interrupts' \in 0..MaxInterrupts
    <2>1. today' = today
      BY DEF Quiet, Begin, ReadBaseline, ReadState, CheckBlocked, BlockProvider, Insert,
             ReadFallback, ReadFlag, ReadLatest, ReadRange, FallbackBreaks, Interrupt,
             Claim, Fetch, FailUnit, Commit
    <2>2. blocked' = blocked \/ \E future \in BOOLEAN : blocked' = (blocked \/ future)
      BY DEF Quiet, Begin, ReadBaseline, ReadState, CheckBlocked, BlockProvider, Insert,
             ReadFallback, ReadFlag, ReadLatest, ReadRange, FallbackBreaks, Interrupt,
             Claim, Fetch, FailUnit, Commit, store
    <2>3. \/ interrupts' = interrupts
          \/ interrupts < MaxInterrupts /\ interrupts' = interrupts + 1
      BY DEF Quiet, Begin, ReadBaseline, ReadState, CheckBlocked, BlockProvider, Insert,
             ReadFallback, ReadFlag, ReadLatest, ReadRange, FallbackBreaks, Interrupt,
             Claim, Fetch, FailUnit, Commit
    <2>4. blocked' \in BOOLEAN
      <3>1. blocked \in BOOLEAN
        BY <1>1 DEF StoreOK
      <3> QED BY <2>2, <3>1, Zenon
    <2> QED BY <1>3, <2>1, <2>3, <2>4
  <1>5. CASE Quiet(c)
    <2>1. /\ row' = row /\ history' = history /\ fetches' = fetches
          /\ published' = published /\ changes' = changes
      BY <1>5, QuietKeeps
    <2> QED BY <1>1, <1>2, <1>4, <2>1 DEF TypeInvariant, StoreOK
  <1>6. CASE Fetch(c)
    <2>1. row' = row /\ history' = history
      BY <1>6 DEF Fetch, store
    <2>2. published' \in Publishable /\ changes' \in 0..MaxChanges /\ fetches' \in Nat
      BY <1>1, <1>6, FetchTypes
    <2> QED BY <1>1, <1>2, <1>4, <2>1, <2>2 DEF TypeInvariant, StoreOK, Publishable
  <1>7. CASE Claim(c) \/ FailUnit(c)
    <2>1. /\ history' = history /\ fetches' = fetches
          /\ published' = published /\ changes' = changes
      BY <1>7 DEF Claim, FailUnit, provider
    <2>2. \A k \in Keys : RowOK(k, row'[k])
      BY <1>1, <1>7, ClaimRows, FailUnitRows
    <2> QED BY <1>1, <1>2, <1>4, <2>1, <2>2 DEF TypeInvariant, StoreOK
  <1>8. CASE Commit(c)
    <2>1. /\ fetches' = fetches /\ published' = published /\ changes' = changes
          /\ call[c].pc = "commit"
      BY <1>8 DEF Commit, provider
    <2>2. CASE Commits(c)
      <3>1. \A k \in Keys : RowOK(k, row'[k])
        BY <1>1, <2>1, <2>2, CommitRows
      <3>2. history' \in [Series -> [Days -> Seq(Values)]]
        BY <1>1, <2>1, <2>2, CommitHistory
      <3> QED BY <1>1, <1>2, <1>4, <2>1, <3>1, <3>2 DEF TypeInvariant, StoreOK
    <2>3. CASE row' = row /\ history' = history
      BY <1>1, <1>2, <1>4, <2>1, <2>3 DEF TypeInvariant, StoreOK
    <2> QED BY <1>1, <1>8, <2>2, <2>3, CommitMove
  <1> QED BY <1>5, <1>6, <1>7, <1>8

LEMMA ClockTypes ==
    ASSUME RateInvariant, TypeInvariant,
           WaitsEnd \/ (\E key \in Keys : FreshnessEnds(key)) \/ NextDay \/ UNCHANGED vars
    PROVE  TypeInvariant'
  <1>1. Shapes /\ StoreOK
    BY DEF RateInvariant, TypeInvariant
  <1>2. \A k \in Keys : RowOK(k, row'[k])
    BY <1>1, ClockRows
  <1>3. /\ call' = call /\ history' = history /\ published' = published
        /\ changes' = changes /\ interrupts' = interrupts /\ fetches' = fetches
        /\ blocked' = blocked \/ blocked' = FALSE
        /\ today' = today \/ (today < LastDay /\ today' = today + 1)
    BY DEF WaitsEnd, BlockEnds, LeaseLapses, BackoffEnds, FreshnessEnds, NextDay, vars,
           store, provider
  <1>4. today' \in Days
    BY <1>1, <1>3, RateAssumption DEF StoreOK, Days
  <1>5. blocked' \in BOOLEAN
    BY <1>1, <1>3 DEF StoreOK
  <1> QED BY <1>1, <1>2, <1>3, <1>4, <1>5 DEF TypeInvariant, StoreOK

LEMMA InitTypes ==
    ASSUME Init
    PROVE  TypeInvariant
  <1>1. PICK v : v = CHOOSE x \in Values : TRUE
    OBVIOUS
  <1>2. v \in Values
    BY <1>1, RateAssumption
  <1>3. PICK warm \in BOOLEAN :
          /\ today = FirstDay
          /\ published = [s \in Series |-> [d \in Days |-> IF d = 1 THEN v ELSE 0]]
          /\ changes = 0
          /\ row = [k \in Keys |-> IF warm /\ k.kind = "latest" /\ k.series \in WarmSeries
                                   THEN [NoRow EXCEPT !.done = 1, !.fresh = "live"]
                                   ELSE NoRow]
          /\ history = [s \in Series |-> [d \in Days |->
                           IF warm /\ s \in WarmSeries /\ d = 1 THEN <<v>> ELSE <<>>]]
          /\ blocked = FALSE
          /\ call = [c \in Callers |-> Idle]
          /\ fetches = 0 /\ interrupts = 0
    BY <1>1 DEF Init
  <1>4. today \in Days
    BY <1>3, RateAssumption DEF Days
  <1>5. published \in [Series -> [Days -> Values \cup {0}]]
    BY <1>2, <1>3
  <1>6. history \in [Series -> [Days -> Seq(Values)]]
    BY <1>2, <1>3
  <1>7. \A k \in Keys : RowOK(k, row[k])
    <2>1. NoRow \in Rows /\ [NoRow EXCEPT !.done = 1, !.fresh = "live"] \in Rows
      <3>1. 0 \in 0..LastDay
        BY RateAssumption
      <3>2. NoRow \in Rows
        BY <3>1 DEF NoRow, Rows
      <3>3. PICK q : q = [NoRow EXCEPT !.done = 1, !.fresh = "live"]
        OBVIOUS
      <3>4. /\ IsRow(q) /\ q.holder = NoCall /\ q.live = FALSE /\ q.due = TRUE /\ q.done = 1
            /\ q.fresh = "live" /\ q.covered = 0 /\ q.stamp = 0
        BY <3>3 DEF NoRow, IsRow, RowFields
      <3>5. /\ q.holder \in Callers \cup {NoCall} /\ q.live \in BOOLEAN /\ q.due \in BOOLEAN
            /\ q.done \in Nat /\ q.fresh \in {"null", "live", "over"}
            /\ q.covered \in 0..LastDay /\ q.stamp \in Nat
        <4>1. q.live \in BOOLEAN /\ q.due \in BOOLEAN
          BY <3>4, Zenon
        <4>2. /\ q.holder \in Callers \cup {NoCall} /\ q.fresh \in {"null", "live", "over"}
              /\ q.covered \in 0..LastDay
          BY <3>1, <3>4, Zenon
        <4>3. q.done \in Nat /\ q.stamp \in Nat
          BY <3>4
        <4> QED BY <4>1, <4>2, <4>3
      <3>6. q \in Rows
        BY <3>4, <3>5 DEF Rows, IsRow, RowFields
      <3> QED BY <3>2, <3>3, <3>6
    <2>2. NoRow.covered = 0 /\ [NoRow EXCEPT !.done = 1, !.fresh = "live"].covered = 0
      BY DEF NoRow
    <2>3. \A k \in Keys : \/ row[k] = NoRow
                          \/ row[k] = [NoRow EXCEPT !.done = 1, !.fresh = "live"]
      BY <1>3
    <2> QED BY <2>1, <2>2, <2>3 DEF RowOK
  <1>8. CallOK(Idle)
    <2>1. Idle.pc = "idle" /\ Idle.op = "none" /\ Idle.err = "none"
      BY DEF Idle
    <2>2. Kept(Idle, Idle, {"pc", "op", "err"})
      BY DEF Kept
    <2> QED BY <2>1, <2>2, FreshOK DEF Errors
  <1>9. \A c \in Callers : CallOK(call[c])
    BY <1>3, <1>8
  <1>10. changes \in 0..MaxChanges /\ interrupts \in 0..MaxInterrupts /\ fetches \in Nat
    BY <1>3, RateAssumption
  <1> QED BY <1>3, <1>4, <1>5, <1>6, <1>7, <1>9, <1>10 DEF TypeInvariant, StoreOK

\* The steps of Next, told apart by what they do to the store.
LEMMA NextIs ==
    ASSUME [Next]_vars
    PROVE  \/ \E c \in Callers : Quiet(c) \/ Claim(c) \/ Fetch(c) \/ FailUnit(c) \/ Commit(c)
           \/ WaitsEnd \/ (\E k \in Keys : FreshnessEnds(k)) \/ NextDay \/ UNCHANGED vars
  BY DEF Next, Step, Ended, Quiet

LEMMA TypesKept == Spec => [](RateInvariant /\ TypeInvariant)
  <1>1. RateInvariant /\ TypeInvariant /\ [Next]_vars => TypeInvariant'
    BY NextIs, StepTypes, ClockTypes
  <1>2. Init => TypeInvariant
    BY InitTypes
  <1> QED BY <1>1, <1>2, RatesKept, PTL DEF Spec

\* Whatever is requested, published and interrupted, the rows satisfy the checks of
\* sie_exchange_rate_fetch_coordination, stored observations are positive, and
\* the cursor of every call is on a unit, a series or a lease of its own.
THEOREM RateTypesCorrect == Spec => []TypeOK
  <1>1. RateInvariant /\ TypeInvariant => TypeOK
    <2> SUFFICES ASSUME RateInvariant, TypeInvariant
                 PROVE  TypeOK
      OBVIOUS
    <2>1. Shapes /\ StoreOK
      BY DEF RateInvariant, TypeInvariant
    <2>2. row \in [Keys -> Rows]
      <3>1. \A k \in Keys : row[k] \in Rows
        BY <2>1 DEF StoreOK, RowOK
      <3> QED BY <2>1, <3>1 DEF Shapes
    <2>3. \A k \in Keys : row[k].covered # 0 =>
             k.kind = "range" /\ row[k].covered \in FirstOf(k.month)..LastOf(k.month)
      BY <2>1 DEF StoreOK, RowOK
    <2>4. \A s \in Series, d \in Days : ToSet(history[s][d]) \subseteq Values
      <3> SUFFICES ASSUME NEW s \in Series, NEW d \in Days
                   PROVE  ToSet(history[s][d]) \subseteq Values
        OBVIOUS
      <3>1. history[s][d] \in Seq(Values)
        BY <2>1 DEF StoreOK
      <3> QED BY <3>1 DEF ToSet
    <2>5. ASSUME NEW c \in Callers
          PROVE  /\ call[c].pc \in Places /\ call[c].err \in Errors
                 /\ ToSet(call[c].units) \subseteq Units
                 /\ call[c].ready \subseteq Keys
      <3>1. CallOK(call[c])
        BY DEF TypeInvariant
      <3>2. call[c].units \in Seq(Units)
        BY <3>1 DEF CallOK, AskedOK, InPeriods
      <3>3. ToSet(call[c].units) \subseteq Units
        BY <3>2 DEF ToSet
      <3> QED BY <3>1, <3>3 DEF CallOK
    <2> QED BY <2>1, <2>2, <2>3, <2>4, <2>5 DEF TypeOK, StoreOK
  <1> QED BY <1>1, TypesKept, PTL

-----------------------------------------------------------------------------
(* Leases.                                                                  *)

\* Why call v may leave the row of key k leased to it.
Leaves(v, k) ==
    \/ /\ v.pc \in {"check", "fetch", "block", "insert", "commit"}
       /\ \E b \in DOMAIN v.batches : k \in KeysOf(v.batches[b])
    \/ /\ v.pc = "fail"
       /\ \E j \in DOMAIN FlattenSeq(v.batches) :
             v.i <= j /\ FlattenSeq(v.batches)[j].key = k
    \/ /\ v.pc \in {"fallback", "flags", "done"}
       /\ v.err \in {"lost", "refused", "interrupted"}

\* A lease that has not lapsed is that of a unit its holder has yet to complete
\* or to fail, or of a call the store failed.
LeasesOK ==
    \A k \in Keys : row[k].live =>
        row[k].holder \in Callers /\ Leaves(call[row[k].holder], k)

LEMMA FailureLeaves ==
    ASSUME NEW c, NEW e \in {"lost", "refused", "interrupted"},
           FailsBy(c, e) \/ EndsWith(c, call[c].op, e), NEW k
    PROVE  Leaves(call'[c], k)
  <1>1. call'[c].pc \in {"fallback", "flags", "done"} /\ call'[c].err = e
    BY DEF FailsBy, EndsWith
  <1> QED BY <1>1 DEF Leaves

LEMMA SameRowsLeases ==
    ASSUME LeasesOK, NEW c \in Callers, Moves(c), row' = row,
           \A k \in Keys : Leaves(call[c], k) => Leaves(call'[c], k)
    PROVE  LeasesOK'
  <1> SUFFICES ASSUME NEW k \in Keys, row'[k].live
               PROVE  row'[k].holder \in Callers /\ Leaves(call'[row'[k].holder], k)
    BY DEF LeasesOK
  <1>1. PICK h : h = row[k].holder
    OBVIOUS
  <1>2. h \in Callers /\ Leaves(call[h], k) /\ row'[k].holder = h
    BY <1>1 DEF LeasesOK
  <1>3. CASE h = c
    BY <1>2, <1>3
  <1>4. CASE h # c
    <2>1. call'[h] = call[h]
      BY <1>2, <1>4 DEF Moves
    <2> QED BY <1>2, <2>1
  <1> QED BY <1>3, <1>4

\* A holding call goes on with its batches, to be recorded or to be failed.
LEMMA HeldOn ==
    ASSUME NEW v, NEW w, NEW k, CallOK(v), CallOK(w),
           v.pc \in {"check", "fetch", "block", "insert"}, Leaves(v, k),
           w.pc \in {"fetch", "block", "fail", "insert", "commit"},
           w.i = 1, w.batches = v.batches
    PROVE  Leaves(w, k)
  <1>1. \E b \in DOMAIN v.batches : k \in KeysOf(v.batches[b])
    BY DEF Leaves
  <1>2. CASE w.pc # "fail"
    BY <1>1, <1>2 DEF Leaves
  <1>3. CASE w.pc = "fail"
    <2>1. k \in KeysOf(FlattenSeq(w.batches)) /\ FlattenSeq(w.batches) \in Seq(Units)
      BY <1>1, BatchesFlatten
    <2>2. PICK j \in DOMAIN FlattenSeq(w.batches) : FlattenSeq(w.batches)[j].key = k
      BY <2>1 DEF KeysOf
    <2>3. 1 <= j
      BY <2>1, <2>2
    <2> QED BY <1>3, <2>2, <2>3 DEF Leaves
  <1> QED BY <1>2, <1>3

LEMMA QuietLeases ==
    ASSUME Shapes, TypeInvariant, LeasesOK, NEW c \in Callers, Quiet(c)
    PROVE  LeasesOK'
  <1>1. Moves(c) /\ row' = row
    BY QuietMoves, QuietKeeps
  <1>2. CallOK(call[c]) /\ CallOK(call'[c])
    BY CallTypes DEF TypeInvariant
  <1> SUFFICES ASSUME NEW k \in Keys, Leaves(call[c], k)
               PROVE  Leaves(call'[c], k)
    BY <1>1, SameRowsLeases
  <1>3. call[c].pc \notin {"idle", "baseline", "states", "claim", "read"}
    BY DEF Leaves
  <1>4. CASE Begin(c) \/ ReadBaseline(c) \/ ReadState(c) \/ ReadLatest(c) \/ ReadRange(c)
    BY <1>3, <1>4, BeginMove, BaselineMove, StateMove, LatestMove, RangeMove
  <1>5. CASE CheckBlocked(c) \/ BlockProvider(c)
    <2>1. /\ call[c].pc \in {"check", "block"} /\ call'[c].pc \in {"fetch", "fail"}
          /\ call'[c].i = 1 /\ call'[c].batches = call[c].batches
      BY <1>5, CheckMove, BlockMove DEF Kept, CallFields
    <2> QED BY <1>2, <2>1, HeldOn
  <1>6. CASE Insert(c)
    <2>1. CASE \E e \in {"lost", "refused"} : FailsBy(c, e)
      BY <2>1, FailureLeaves
    <2>2. CASE ~\E e \in {"lost", "refused"} : FailsBy(c, e)
      <3>1. /\ call[c].pc = "insert" /\ call'[c].pc = "commit" /\ call'[c].i = 1
            /\ call'[c].batches = call[c].batches
        BY <1>6, <2>2, InsertMove DEF Kept, CallFields
      <3> QED BY <1>2, <3>1, HeldOn
    <2> QED BY <2>1, <2>2
  <1>7. CASE Interrupt(c)
    BY <1>7, InterruptMove, FailureLeaves
  <1>8. CASE ReadFallback(c) \/ ReadFlag(c) \/ FallbackBreaks(c)
    <2>1. call[c].pc \in {"fallback", "flags"}
      BY <1>8, FallbackMove, FlagMove, BreaksMove
    <2>2. call[c].err \in {"lost", "refused", "interrupted"}
      BY <2>1 DEF Leaves
    <2>3. call'[c].pc \in {"fallback", "flags", "done"} /\ call'[c].err = call[c].err
      <3>1. CASE GivesUpBy(c)
        BY <2>2, <3>1 DEF GivesUpBy, EndsWith
      <3>2. CASE ReadFallback(c) /\ ~GivesUpBy(c)
        BY <2>1, <3>2, FallbackMove DEF Kept, CallFields
      <3>3. CASE ReadFlag(c)
        BY <2>1, <3>3, FlagMove DEF Kept, CallFields, Advances
      <3> QED BY <1>8, <3>1, <3>2, <3>3, BreaksMove
    <2> QED BY <2>2, <2>3 DEF Leaves
  <1> QED BY <1>4, <1>5, <1>6, <1>7, <1>8 DEF Quiet

LEMMA FetchLeases ==
    ASSUME Shapes, TypeInvariant, LeasesOK, NEW c \in Callers, Fetch(c)
    PROVE  LeasesOK'
  <1>1. Moves(c) /\ row' = row
    BY FetchMove DEF Fetch, store
  <1>2. CallOK(call[c]) /\ CallOK(call'[c])
    BY CallTypes DEF TypeInvariant
  <1>3. /\ call[c].pc = "fetch" /\ call'[c].pc \in {"block", "fail", "insert"}
        /\ call'[c].i = 1 /\ call'[c].batches = call[c].batches
    BY FetchMove DEF Accepted, Kept, CallFields
  <1>4. \A k \in Keys : Leaves(call[c], k) => Leaves(call'[c], k)
    BY <1>2, <1>3, HeldOn
  <1> QED BY <1>1, <1>4, SameRowsLeases

LEMMA ClaimLeases ==
    ASSUME Shapes, TypeInvariant, LeasesOK, NEW c \in Callers, Claim(c)
    PROVE  LeasesOK'
  <1> SUFFICES ASSUME NEW k \in Keys, row'[k].live
               PROVE  row'[k].holder \in Callers /\ Leaves(call'[row'[k].holder], k)
    BY DEF LeasesOK
  <1>1. /\ Moves(c) /\ call[c].pc = "claim"
        /\ row'[k] = IF k \in KeysOf(ClaimedUnits(c))
                     THEN [row[k] EXCEPT !.holder = c, !.live = TRUE] ELSE row[k]
    BY ClaimMove
  <1>2. CASE k \notin KeysOf(ClaimedUnits(c))
    <2>1. row'[k] = row[k]
      BY <1>1, <1>2
    <2>2. PICK h : h = row[k].holder
      OBVIOUS
    <2>3. h \in Callers /\ Leaves(call[h], k)
      BY <2>1, <2>2 DEF LeasesOK
    <2>4. h # c
      BY <1>1, <2>3 DEF Leaves
    <2>5. call'[h] = call[h]
      BY <1>1, <2>3, <2>4 DEF Moves
    <2> QED BY <2>1, <2>2, <2>3, <2>5
  <1>3. CASE k \in KeysOf(ClaimedUnits(c))
    <2>1. PICK claimed : claimed = ClaimedUnits(c)
      OBVIOUS
    <2>2. row'[k].holder = c
      <3>1. row[k] = [f \in RowFields |-> row[k][f]]
        BY DEF Shapes, IsRow
      <3> QED BY <1>1, <1>3, <3>1 DEF RowFields
    <2>3. PICK i \in DOMAIN claimed : claimed[i].key = k
      BY <1>3, <2>1 DEF KeysOf
    <2>4. claimed # <<>> /\ claimed[i] \in ToSet(claimed)
      BY <2>3 DEF ToSet
    <2>5. call'[c].pc = "check" /\ call'[c].batches = MakeBatches(claimed)
      BY <2>1, <2>4, ClaimMove
    <2>6. InPeriods(claimed)
      <3>1. InPeriods(call[c].units)
        BY DEF TypeInvariant, CallOK, AskedOK
      <3> QED BY <2>1, <3>1, ClaimedOK
    <2>7. Parts(call'[c].batches, claimed[i])
      BY <2>4, <2>5, <2>6, MakesBatches
    <2>8. \E b \in DOMAIN call'[c].batches : k \in KeysOf(call'[c].batches[b])
      BY <2>3, <2>7 DEF Parts, KeysOf
    <2> QED BY <2>2, <2>5, <2>8 DEF Leaves
  <1> QED BY <1>2, <1>3

LEMMA FailUnitLeases ==
    ASSUME Shapes, TypeInvariant, LeasesOK, NEW c \in Callers, FailUnit(c)
    PROVE  LeasesOK'
  <1>1. Moves(c) /\ call[c].pc = "fail" /\ CallOK(call[c])
    BY FailUnitMove DEF TypeInvariant
  <1>2. PICK units, key : units = FlattenSeq(call[c].batches) /\ key = units[call[c].i].key
    OBVIOUS
  <1>3. CASE row' = row /\ FailsBy(c, "lost")
    BY <1>1, <1>3, FailureLeaves, SameRowsLeases
  <1>4. CASE /\ row[key].holder = c
             /\ row' = [row EXCEPT ![key].holder = NoCall, ![key].live = FALSE,
                                   ![key].due = FALSE]
             /\ \/ /\ call[c].i < Len(units)
                   /\ call'[c].i = call[c].i + 1 /\ Kept(call[c], call'[c], {"i"})
                \/ /\ ~(call[c].i < Len(units))
                   /\ FailsBy(c, call[c].err)
    <2> SUFFICES ASSUME NEW k \in Keys, row'[k].live
                 PROVE  row'[k].holder \in Callers /\ Leaves(call'[row'[k].holder], k)
      BY DEF LeasesOK
    <2>1. k # key /\ row'[k] = row[k]
      <3>1. CASE k = key
        <4>1. row[k] = [f \in RowFields |-> row[k][f]]
          BY DEF Shapes, IsRow
        <4>2. row'[k] = [row[k] EXCEPT !.holder = NoCall, !.live = FALSE, !.due = FALSE]
          BY <1>4, <3>1 DEF Shapes
        <4> QED BY <4>1, <4>2 DEF RowFields
      <3>2. CASE k # key
        BY <1>4, <3>2 DEF Shapes
      <3> QED BY <3>1, <3>2
    <2>2. PICK h : h = row[k].holder
      OBVIOUS
    <2>3. h \in Callers /\ Leaves(call[h], k) /\ row'[k].holder = h
      BY <2>1, <2>2 DEF LeasesOK
    <2>4. CASE h # c
      <3>1. call'[h] = call[h]
        BY <1>1, <2>3, <2>4 DEF Moves
      <3> QED BY <2>3, <3>1
    <2>5. CASE h = c
      <3>1. PICK j \in DOMAIN units : call[c].i <= j /\ units[j].key = k
        BY <1>1, <1>2, <2>3, <2>5 DEF Leaves
      <3>2. units \in Seq(Units) /\ call[c].i \in Nat
        BY <1>1, <1>2, BatchesFlatten DEF CallOK
      <3>3. j # call[c].i
        BY <1>2, <2>1, <3>1
      <3>4. call[c].i + 1 <= j /\ j <= Len(units)
        BY <3>1, <3>2, <3>3
      <3>5. call'[c].i = call[c].i + 1 /\ Kept(call[c], call'[c], {"i"})
        BY <1>4, <3>2, <3>4
      <3>6. call'[c].pc = "fail" /\ call'[c].batches = call[c].batches
        BY <1>1, <3>5 DEF Kept, CallFields
      <3>7. Leaves(call'[c], k)
        BY <1>2, <3>1, <3>4, <3>5, <3>6 DEF Leaves
      <3> QED BY <2>3, <2>5, <3>7
    <2> QED BY <2>4, <2>5
  <1> QED BY <1>2, <1>3, <1>4, FailUnitMove

LEMMA CommitLeases ==
    ASSUME Shapes, TypeInvariant, LeasesOK, NEW c \in Callers, Commit(c)
    PROVE  LeasesOK'
  <1>1. Moves(c) /\ call[c].pc = "commit" /\ CallOK(call[c])
    BY CommitMove DEF TypeInvariant
  <1>2. CASE row' = row /\ FailsBy(c, "lost")
    BY <1>1, <1>2, FailureLeaves, SameRowsLeases
  <1>3. CASE Commits(c)
    <2> SUFFICES ASSUME NEW k \in Keys, row'[k].live
                 PROVE  row'[k].holder \in Callers /\ Leaves(call'[row'[k].holder], k)
      BY DEF LeasesOK
    <2>1. k \notin KeysOf(call[c].batches[1]) /\ row'[k] = row[k]
      <3>1. \A unit, r, request, stamp : ~Completed(unit, r, request, stamp).live
        BY DEF Completed
      <3> QED BY <1>1, <1>3, <3>1, CommitRow
    <2>2. PICK h : h = row[k].holder
      OBVIOUS
    <2>3. h \in Callers /\ Leaves(call[h], k) /\ row'[k].holder = h
      BY <2>1, <2>2 DEF LeasesOK
    <2>4. CASE h # c
      <3>1. call'[h] = call[h]
        BY <1>1, <2>3, <2>4 DEF Moves
      <3> QED BY <2>3, <3>1
    <2>5. CASE h = c
      <3>1. PICK batches : batches = call[c].batches
        OBVIOUS
      <3>2. PICK b \in DOMAIN batches : k \in KeysOf(batches[b])
        BY <1>1, <2>3, <2>5, <3>1 DEF Leaves
      <3>3. b # 1 /\ batches \in Seq(Seq(Units))
        BY <1>1, <2>1, <3>1, <3>2 DEF CallOK, BatchesOf
      <3>4. /\ Len(batches) # 1 /\ b - 1 \in DOMAIN Tail(batches)
            /\ Tail(batches)[b - 1] = batches[b]
        BY <3>2, <3>3
      <3>5. call'[c].pc = "fetch" /\ call'[c].batches = Tail(batches)
        BY <1>3, <3>1, <3>4 DEF Commits
      <3>6. Leaves(call'[c], k)
        BY <3>2, <3>4, <3>5 DEF Leaves
      <3> QED BY <2>3, <2>5, <3>6
    <2> QED BY <2>4, <2>5
  <1> QED BY <1>2, <1>3, CommitMove

LEMMA ClockLeases ==
    ASSUME Shapes, TypeInvariant, LeasesOK,
           WaitsEnd \/ (\E key \in Keys : FreshnessEnds(key)) \/ NextDay \/ UNCHANGED vars
    PROVE  LeasesOK'
  <1> SUFFICES ASSUME NEW k \in Keys, row'[k].live
               PROVE  row'[k].holder \in Callers /\ Leaves(call'[row'[k].holder], k)
    BY DEF LeasesOK
  <1>1. row'[k].holder = row[k].holder /\ row[k].live
    BY ClockRows
  <1>2. call' = call
    BY TimeParts
  <1> QED BY <1>1, <1>2 DEF LeasesOK

LEMMA LeasesKept == Spec => [](RateInvariant /\ TypeInvariant /\ LeasesOK)
  <1>1. Init => LeasesOK
    <2> SUFFICES ASSUME Init, NEW k \in Keys
                 PROVE  ~row[k].live
      BY DEF LeasesOK
    <2>1. row[k] = NoRow \/ row[k] = [NoRow EXCEPT !.done = 1, !.fresh = "live"]
      BY DEF Init
    <2>2. NoRow.live = FALSE
      BY DEF NoRow
    <2>3. [NoRow EXCEPT !.done = 1, !.fresh = "live"].live = FALSE
      BY DEF NoRow
    <2> QED BY <2>1, <2>2, <2>3
  <1>2. RateInvariant /\ TypeInvariant /\ LeasesOK /\ [Next]_vars => LeasesOK'
    <2> SUFFICES ASSUME RateInvariant, TypeInvariant, LeasesOK, [Next]_vars
                 PROVE  LeasesOK'
      OBVIOUS
    <2>1. Shapes
      BY DEF RateInvariant
    <2> QED BY <2>1, NextIs, QuietLeases, ClaimLeases, FetchLeases, FailUnitLeases,
               CommitLeases, ClockLeases
  <1> QED BY <1>1, <1>2, TypesKept, PTL DEF Spec

\* However claims, takeovers, failures and commits interleave, a lease that others
\* wait for is that of a unit its holder is about to complete or to fail: only a
\* call the store failed leaves one to lapse (fetchClaimed fails the batch that
\* was refused and every batch after it).
THEOREM LeasesAreGivenBack == Spec => []NoLeaseLeftBehind
  <1>1. TypeInvariant /\ LeasesOK => NoLeaseLeftBehind
    <2> SUFFICES ASSUME TypeInvariant, LeasesOK, NEW k \in Keys, row[k].live
                 PROVE  \/ k \in KeysOf(FlattenSeq(call[row[k].holder].batches))
                        \/ call[row[k].holder].err \in {"lost", "refused", "interrupted"}
      BY DEF NoLeaseLeftBehind
    <2>1. PICK h : h = row[k].holder
      OBVIOUS
    <2>2. h \in Callers /\ Leaves(call[h], k)
      BY <2>1 DEF LeasesOK
    <2>3. CallOK(call[h])
      BY <2>2 DEF TypeInvariant
    <2>4. CASE \E b \in DOMAIN call[h].batches : k \in KeysOf(call[h].batches[b])
      BY <2>1, <2>3, <2>4, BatchesFlatten
    <2>5. CASE \E j \in DOMAIN FlattenSeq(call[h].batches) :
                  FlattenSeq(call[h].batches)[j].key = k
      BY <2>1, <2>5 DEF KeysOf
    <2> QED BY <2>1, <2>2, <2>4, <2>5 DEF Leaves
  <1> QED BY <1>1, LeasesKept, PTL

-----------------------------------------------------------------------------
(* What a range rests on.                                                   *)

\* Row r has what call v waits for of a unit.
Settled(v, unit, r) ==
    /\ v.op = "latest" => r.done > 0
    /\ v.op = "range" => r.covered >= unit.fetchTo
    /\ v.op = "revalidate" => r.done > v.base[unit.key]

\* What call v found ready is settled for good, and it reads only when all is.
ReadyOK(v, rows) ==
    /\ v.pc = "baseline" => v.ready = {}
    /\ \A unit \in ToSet(v.units) : unit.key \in v.ready => Settled(v, unit, rows[unit.key])
    /\ v.pc = "read" \/ (v.pc = "done" /\ v.op # "latest") =>
          \A unit \in ToSet(v.units) : Settled(v, unit, rows[unit.key])

\* What rows tell of responses only grows.
Grows(r, q) == /\ q.done \in Nat /\ q.done >= r.done
               /\ q.covered \in Nat /\ q.covered >= r.covered

Growing == \A k \in Keys : Grows(row[k], row'[k])

\* Only a commit changes what a row tells of the responses recorded.
LEMMA RowsStay ==
    ASSUME Shapes, TypeInvariant, NEW c \in Callers,
           Quiet(c) \/ Claim(c) \/ Fetch(c) \/ FailUnit(c) \/ row' = row,
           NEW k \in Keys
    PROVE  row'[k].done = row[k].done /\ row'[k].covered = row[k].covered
  <1>1. row[k] = [f \in RowFields |-> row[k][f]]
    BY DEF Shapes, IsRow
  <1>2. CASE Quiet(c) \/ Fetch(c) \/ row' = row
    <2>1. row' = row
      BY <1>2, QuietKeeps DEF Fetch, store
    <2> QED BY <2>1
  <1>3. CASE Claim(c)
    <2>1. row'[k] = row[k] \/ row'[k] = [row[k] EXCEPT !.holder = c, !.live = TRUE]
      BY <1>3, ClaimMove
    <2> QED BY <1>1, <2>1 DEF RowFields
  <1>4. CASE FailUnit(c)
    <2>1. PICK key : \/ row' = row
                     \/ row' = [row EXCEPT ![key].holder = NoCall, ![key].live = FALSE,
                                           ![key].due = FALSE]
      BY <1>4, FailUnitMove
    <2>2. \/ row'[k] = row[k]
          \/ row'[k] = [row[k] EXCEPT !.holder = NoCall, !.live = FALSE, !.due = FALSE]
      BY <2>1 DEF Shapes
    <2> QED BY <1>1, <2>2 DEF RowFields
  <1> QED BY <1>2, <1>3, <1>4

\* A completed row, by what it tells of responses.
LEMMA RowsCompleted ==
    ASSUME Shapes, TypeInvariant, NEW c \in Callers, call[c].pc = "commit", Commits(c),
           NEW k \in Keys
    PROVE  \/ row'[k] = row[k] /\ k \notin KeysOf(call[c].batches[1])
           \/ LET request == RequestForBatch(call[c].batches[1])
              IN  /\ k \in KeysOf(call[c].batches[1])
                  /\ row'[k].done = row[k].done + 1
                  /\ row'[k].covered = IF k.kind = "range" /\ row[k].covered < request.to
                                       THEN request.to ELSE row[k].covered
  <1>1. CASE row'[k] = row[k] /\ k \notin KeysOf(call[c].batches[1])
    BY <1>1
  <1>2. CASE ~(row'[k] = row[k] /\ k \notin KeysOf(call[c].batches[1]))
    <2>1. PICK unit, request, stamp :
            /\ unit = CHOOSE u \in ToSet(call[c].batches[1]) : u.key = k
            /\ request = RequestForBatch(call[c].batches[1]) /\ stamp = call[c].reply.stamp
      OBVIOUS
    <2>2. k \in KeysOf(call[c].batches[1]) /\ row'[k] = Completed(unit, row[k], request, stamp)
      BY <1>2, <2>1, CommitRow
    <2>3. CallOK(call[c]) /\ call[c].pc \in Holding
      BY DEF TypeInvariant, Holding
    <2>4. unit.key = k
      BY <2>1, <2>2, <2>3, UnitOfBatch
    <2>5. /\ row'[k].done = row[k].done + 1
          /\ row'[k].covered = IF unit.key.kind = "range" /\ row[k].covered < request.to
                               THEN request.to ELSE row[k].covered
      BY <2>2 DEF Completed
    <2> QED BY <2>1, <2>2, <2>4, <2>5
  <1> QED BY <1>1, <1>2

LEMMA CommitRequest ==
    ASSUME TypeInvariant, NEW c \in Callers, call[c].pc = "commit"
    PROVE  LET request == RequestForBatch(call[c].batches[1])
           IN  /\ request.to \in 0..LastDay /\ request.to \in Nat
               /\ call[c].reply.answered = ToSet(request.ids)
               /\ \A k \in KeysOf(call[c].batches[1]) :
                     /\ request.kind = k.kind
                     /\ request.kind = "range" => request.from = FirstOf(k.month)
                     /\ k.series \in ToSet(request.ids)
  <1>1. CallOK(call[c]) /\ call[c].pc \in Holding
    BY DEF TypeInvariant, Holding
  <1>2. PICK request : request = RequestForBatch(call[c].batches[1])
    OBVIOUS
  <1>3. call[c].batches[1] \in Seq(Units) /\ 1 \in DOMAIN call[c].batches[1]
    BY <1>1, FirstBatch
  <1>4. request.to \in 0..LastDay
    BY <1>2, <1>3, RequestOf
  <1>5. call[c].reply.answered = ToSet(request.ids)
    BY <1>1, <1>2 DEF CallOK, ReplyOK
  <1>6. \A k \in KeysOf(call[c].batches[1]) :
           /\ request.kind = k.kind
           /\ request.kind = "range" => request.from = FirstOf(k.month)
           /\ k.series \in ToSet(request.ids)
    BY <1>1, <1>2, UnitOfBatch
  <1>7. request.to \in Nat
    BY <1>4, RateAssumption
  <1> QED BY <1>2, <1>4, <1>5, <1>6, <1>7

LEMMA RowsGrow ==
    ASSUME Shapes, TypeInvariant, [Next]_vars
    PROVE  Growing
  <1> SUFFICES ASSUME NEW k \in Keys
               PROVE  Grows(row[k], row'[k])
    BY DEF Growing
  <1>1. row[k].done \in Nat /\ row[k].covered \in Nat
    <2>1. RowOK(k, row[k])
      BY DEF TypeInvariant, StoreOK
    <2>2. row[k].done \in Nat /\ row[k].covered \in 0..LastDay
      BY <2>1, RowIs
    <2> QED BY <2>2, RateAssumption
  <1>2. CASE row'[k].done = row[k].done /\ row'[k].covered = row[k].covered
    BY <1>1, <1>2 DEF Grows
  <1>3. ASSUME NEW c \in Callers, Commit(c)
        PROVE  Grows(row[k], row'[k])
    <2>1. CASE row' = row
      BY <1>1, <2>1 DEF Grows
    <2>2. CASE Commits(c) /\ call[c].pc = "commit"
      <3>1. PICK request : request = RequestForBatch(call[c].batches[1])
        OBVIOUS
      <3>2. request.to \in Nat
        BY <2>2, <3>1, CommitRequest
      <3>3. \/ row'[k] = row[k]
            \/ /\ row'[k].done = row[k].done + 1
               /\ row'[k].covered = IF k.kind = "range" /\ row[k].covered < request.to
                                    THEN request.to ELSE row[k].covered
        BY <2>2, <3>1, RowsCompleted
      <3> QED BY <1>1, <3>2, <3>3 DEF Grows
    <2> QED BY <1>3, <2>1, <2>2, CommitMove
  <1>4. ASSUME NEW c \in Callers, Quiet(c) \/ Claim(c) \/ Fetch(c) \/ FailUnit(c)
        PROVE  row'[k].done = row[k].done /\ row'[k].covered = row[k].covered
    BY <1>4, RowsStay
  <1>5. CASE WaitsEnd \/ (\E key \in Keys : FreshnessEnds(key)) \/ NextDay \/ UNCHANGED vars
    BY <1>2, <1>5, ClockRows
  <1> QED BY <1>2, <1>3, <1>4, <1>5, NextIs

LEMMA ReadyGrows ==
    ASSUME TypeInvariant, Growing, NEW v, ReadyOK(v, row),
           v.units \in Seq(Units), v.base \in [Keys -> Nat]
    PROVE  ReadyOK(v, row')
  <1>1. \A unit \in ToSet(v.units) :
           /\ unit.key \in Keys /\ unit.fetchTo \in Nat /\ v.base[unit.key] \in Nat
           /\ row[unit.key].done \in Nat /\ row[unit.key].covered \in Nat
    <2> SUFFICES ASSUME NEW unit \in ToSet(v.units)
                 PROVE  /\ unit.key \in Keys /\ unit.fetchTo \in Nat
                        /\ v.base[unit.key] \in Nat
                        /\ row[unit.key].done \in Nat /\ row[unit.key].covered \in Nat
      OBVIOUS
    <2>1. unit \in Units
      BY DEF ToSet
    <2>2. unit.key \in Keys /\ unit.fetchTo \in 0..LastDay
      BY <2>1 DEF Units
    <2>3. PICK r : r = row[unit.key]
      OBVIOUS
    <2>4. RowOK(unit.key, r)
      BY <2>2, <2>3 DEF TypeInvariant, StoreOK
    <2>5. r.done \in Nat /\ r.covered \in 0..LastDay
      BY <2>4, RowIs
    <2> QED BY <2>2, <2>3, <2>5, RateAssumption
  <1>2. \A unit \in ToSet(v.units) :
           Settled(v, unit, row[unit.key]) => Settled(v, unit, row'[unit.key])
    <2> SUFFICES ASSUME NEW unit \in ToSet(v.units), Settled(v, unit, row[unit.key])
                 PROVE  Settled(v, unit, row'[unit.key])
      OBVIOUS
    <2>1. PICK r, q : r = row[unit.key] /\ q = row'[unit.key]
      OBVIOUS
    <2>2. Grows(r, q)
      BY <1>1, <2>1 DEF Growing
    <2> QED BY <1>1, <2>1, <2>2 DEF Settled, Grows
  <1> QED BY <1>2 DEF ReadyOK

\* A call that found nothing ready yet, or has nothing to find.
LEMMA NothingReady ==
    ASSUME NEW w, NEW rows, w.ready = {},
           w.pc \notin {"read", "done"} \/ w.units = <<>>
    PROVE  ReadyOK(w, rows)
  <1>1. w.units = <<>> => ToSet(w.units) = {}
    BY DEF ToSet
  <1> QED BY <1>1 DEF ReadyOK

LEMMA SameReady ==
    ASSUME NEW v, NEW w, NEW rows, ReadyOK(v, rows), w.ready = v.ready, w.op = v.op,
           w.units = v.units, w.base = v.base,
           w.pc \notin {"baseline", "read", "done"} \/ v.pc = "read" \/ w.op = "latest",
           w.pc \notin {"baseline", "read"} \/ v.pc = "read",
           w.pc # "baseline"
    PROVE  ReadyOK(w, rows)
  BY DEF ReadyOK, Settled

LEMMA FailureReady ==
    ASSUME NEW c, NEW op, NEW e, FailsBy(c, e) \/ EndsWith(c, op, e), NEW rows
    PROVE  ReadyOK(call'[c], rows)
  <1>1. /\ call'[c].ready = {}
        /\ call'[c].pc \notin {"read", "done"} \/ call'[c].units = <<>>
    BY DEF FailsBy, EndsWith, Kept, CallFields, Idle
  <1> QED BY <1>1, NothingReady

LEMMA GiveUpReady ==
    ASSUME NEW c, GivesUpBy(c), NEW rows
    PROVE  ReadyOK(call'[c], rows)
  <1>1. CASE call[c].err = "cold"
    BY <1>1, NothingReady DEF GivesUpBy
  <1>2. CASE call[c].err # "cold"
    BY <1>2, FailureReady DEF GivesUpBy
  <1> QED BY <1>1, <1>2

\* What States shows as ready settles the unit.
LEMMA ReadySettles ==
    ASSUME NEW v, CallOK(v), v.op # "revalidate", NEW unit \in ToSet(v.units), NEW r,
           r.done \in Nat, r.covered \in Nat, Ready(unit, r)
    PROVE  Settled(v, unit, r)
  <1>1. v.op = "latest" => unit.key.kind = "latest"
    <2> SUFFICES ASSUME v.op = "latest"
                 PROVE  unit.key.kind = "latest"
      OBVIOUS
    <2>1. OfLatest(v.units, v.series) /\ v.units \in Seq(Units)
      BY DEF CallOK, AskedOK, InPeriods
    <2>2. PICK i \in DOMAIN v.units : v.units[i] = unit
      BY DEF ToSet
    <2>3. i \in 1..Len(v.series)
      BY <2>1, <2>2 DEF OfLatest
    <2>4. unit.key = LatestKey(v.series[i])
      BY <2>1, <2>2, <2>3 DEF OfLatest
    <2> QED BY <2>4 DEF LatestKey
  <1>2. v.op = "range" => unit.key.kind = "range"
    <2> SUFFICES ASSUME v.op = "range"
                 PROVE  unit.key.kind = "range"
      OBVIOUS
    <2>1. OfRange(v.units)
      BY DEF CallOK, AskedOK
    <2> QED BY <2>1 DEF OfRange
  <1> QED BY <1>1, <1>2 DEF Ready, Settled

\* Units with one key are of one period.
LEMMA OneReady ==
    ASSUME NEW v, NEW w, NEW rows, CallOK(v), ReadyOK(v, rows), w.op = v.op,
           w.units = v.units, w.base = v.base, NEW unit \in ToSet(v.units),
           \/ w.ready = v.ready
           \/ w.ready = v.ready \cup {unit.key} /\ Settled(v, unit, rows[unit.key])
    PROVE  \A u \in ToSet(w.units) : u.key \in w.ready => Settled(w, u, rows[u.key])
  <1> SUFFICES ASSUME NEW u \in ToSet(v.units), u.key \in w.ready
               PROVE  Settled(v, u, rows[u.key])
    BY DEF Settled
  <1>1. CASE u.key \in v.ready
    BY <1>1 DEF ReadyOK
  <1>2. CASE u.key \notin v.ready
    <2>1. u.key = unit.key /\ Settled(v, unit, rows[unit.key])
      BY <1>2
    <2>2. InPeriods(v.units)
      BY DEF CallOK, AskedOK
    <2>3. PICK i \in DOMAIN v.units, j \in DOMAIN v.units :
             v.units[i] = u /\ v.units[j] = unit
      BY DEF ToSet
    <2>4. u.fetchTo = unit.fetchTo
      BY <2>1, <2>2, <2>3 DEF InPeriods, SamePeriod
    <2> QED BY <2>1, <2>4 DEF Settled
  <1> QED BY <1>1, <1>2

LEMMA RowNumbers ==
    ASSUME TypeInvariant, NEW k \in Keys
    PROVE  row[k].done \in Nat /\ row[k].covered \in Nat
  <1>1. RowOK(k, row[k])
    BY DEF TypeInvariant, StoreOK
  <1>2. row[k].done \in Nat /\ row[k].covered \in 0..LastDay
    BY <1>1, RowIs
  <1> QED BY <1>2, RateAssumption

LEMMA StateReady ==
    ASSUME Shapes, TypeInvariant, NEW c \in Callers, ReadyOK(call[c], row), ReadState(c)
    PROVE  ReadyOK(call'[c], row)
  <1>1. CallOK(call[c]) /\ call[c].pc = "states"
    BY StateMove DEF TypeInvariant
  <1>2. call[c].i \in 1..Len(call[c].units) /\ Len(call[c].units) \in Nat
    BY <1>1 DEF CallOK, PlaceOK, AskedOK, InPeriods
  <1>3. PICK unit : unit = call[c].units[call[c].i]
    OBVIOUS
  <1>4. unit \in ToSet(call[c].units) /\ unit.key \in Keys
    BY <1>1, <1>2, <1>3, UnitAtCursor
  <1>5. /\ call'[c].op = call[c].op /\ call'[c].units = call[c].units
        /\ call'[c].base = call[c].base
    BY StateMove DEF Kept, CallFields
  <1>6. \/ call'[c].ready = call[c].ready
        \/ /\ call'[c].ready = call[c].ready \cup {unit.key}
           /\ Settled(call[c], unit, row[unit.key])
    <2>1. call'[c].ready = call[c].ready \cup (IF Settles(c, unit) THEN {unit.key} ELSE {})
      BY <1>3, StateMove
    <2>2. Settles(c, unit) => Settled(call[c], unit, row[unit.key])
      <3> SUFFICES ASSUME Settles(c, unit)
                   PROVE  Settled(call[c], unit, row[unit.key])
        OBVIOUS
      <3>1. CASE call[c].op = "revalidate"
        BY <3>1 DEF Settles, Settled
      <3>2. CASE call[c].op # "revalidate"
        <4>1. Ready(unit, row[unit.key])
          BY <3>2 DEF Settles
        <4>2. row[unit.key].done \in Nat /\ row[unit.key].covered \in Nat
          BY <1>4, RowNumbers
        <4> QED BY <1>1, <1>4, <3>2, <4>1, <4>2, ReadySettles
      <3> QED BY <3>1, <3>2
    <2> QED BY <2>1, <2>2
  <1>7. \A u \in ToSet(call'[c].units) :
           u.key \in call'[c].ready => Settled(call'[c], u, row[u.key])
    BY <1>1, <1>4, <1>5, <1>6, OneReady
  <1>8. \/ call'[c].pc \in {"states", "claim"}
        \/ call'[c].pc = "read" /\ KeysOf(call[c].units) \subseteq call'[c].ready
    <2>1. \/ Advances(c, Len(call[c].units), "claim")
          \/ /\ Advances(c, Len(call[c].units), "read")
             /\ KeysOf(call[c].units) \subseteq call'[c].ready
      BY StateMove
    <2> QED BY <1>1, <2>1 DEF Advances
  <1>9. call'[c].pc = "read" =>
           \A u \in ToSet(call'[c].units) : Settled(call'[c], u, row[u.key])
    <2>1. \A u \in ToSet(call[c].units) : u.key \in KeysOf(call[c].units)
      BY DEF ToSet, KeysOf
    <2> QED BY <1>5, <1>7, <1>8, <2>1
  <1> QED BY <1>7, <1>8, <1>9 DEF ReadyOK

LEMMA FlagReady ==
    ASSUME Shapes, TypeInvariant, NEW c \in Callers, ReadyOK(call[c], row), ReadFlag(c)
    PROVE  ReadyOK(call'[c], row)
  <1>1. CallOK(call[c]) /\ call[c].pc = "flags"
    BY FlagMove DEF TypeInvariant
  <1>2. /\ call[c].i \in 1..Len(call[c].units) /\ Len(call[c].units) \in Nat
        /\ call[c].op = "latest"
    BY <1>1 DEF CallOK, PlaceOK, AskedOK, InPeriods
  <1>3. PICK unit : unit = call[c].units[call[c].i]
    OBVIOUS
  <1>4. unit \in ToSet(call[c].units) /\ unit.key \in Keys
    BY <1>1, <1>2, <1>3, UnitAtCursor
  <1>5. /\ call'[c].op = call[c].op /\ call'[c].units = call[c].units
        /\ call'[c].base = call[c].base
    BY FlagMove DEF Kept, CallFields
  <1>6. \/ call'[c].ready = call[c].ready
        \/ /\ call'[c].ready = call[c].ready \cup {unit.key}
           /\ Settled(call[c], unit, row[unit.key])
    <2>1. call'[c].ready = call[c].ready \cup
             (IF Ready(unit, row[unit.key]) THEN {unit.key} ELSE {})
      BY <1>3, FlagMove
    <2>2. row[unit.key].done \in Nat /\ row[unit.key].covered \in Nat
      BY <1>4, RowNumbers
    <2>3. Ready(unit, row[unit.key]) => Settled(call[c], unit, row[unit.key])
      BY <1>1, <1>2, <1>4, <2>2, ReadySettles
    <2> QED BY <2>1, <2>3
  <1>7. \A u \in ToSet(call'[c].units) :
           u.key \in call'[c].ready => Settled(call'[c], u, row[u.key])
    BY <1>1, <1>4, <1>5, <1>6, OneReady
  <1>8. call'[c].pc \in {"flags", "done"}
    BY <1>1, FlagMove DEF Advances
  <1> QED BY <1>2, <1>5, <1>7, <1>8 DEF ReadyOK

LEMMA StepReady ==
    ASSUME Shapes, TypeInvariant, NEW c \in Callers, ReadyOK(call[c], row),
           Quiet(c) \/ Claim(c) \/ Fetch(c) \/ FailUnit(c) \/ Commit(c)
    PROVE  ReadyOK(call'[c], row)
  <1>1. CASE Begin(c)
    <2>1. PICK q : EndsWith(c, q.op, "invalid") \/ Starts(c, q)
      BY <1>1, BeginMove
    <2>2. CASE EndsWith(c, q.op, "invalid")
      BY <2>2, FailureReady
    <2>3. CASE Starts(c, q)
      <3>1. /\ call'[c].ready = {}
            /\ call'[c].pc \notin {"read", "done"} \/ call'[c].units = <<>>
        BY <2>3 DEF Starts, Kept, CallFields, Idle
      <3> QED BY <3>1, NothingReady
    <2> QED BY <2>1, <2>2, <2>3
  <1>2. CASE ReadBaseline(c)
    <2>1. /\ call[c].pc = "baseline" /\ call'[c].pc \in {"baseline", "states"}
          /\ call'[c].ready = call[c].ready
      BY <1>2, BaselineMove DEF Kept, CallFields, Advances
    <2> QED BY <2>1, NothingReady DEF ReadyOK
  <1>3. CASE ReadState(c) \/ ReadFlag(c)
    BY <1>3, StateReady, FlagReady
  <1>4. CASE \/ FallbackBreaks(c) \/ Interrupt(c) \/ GivesUpBy(c)
             \/ \E e : FailsBy(c, e)
    BY <1>4, BreaksMove, InterruptMove, GiveUpReady, FailureReady
  <1>5. CASE CheckBlocked(c) \/ BlockProvider(c) \/ Fetch(c)
    <2>1. /\ call'[c].pc \in {"fetch", "fail", "block", "insert"}
          /\ call'[c].op = call[c].op /\ call'[c].units = call[c].units
          /\ call'[c].base = call[c].base /\ call'[c].ready = call[c].ready
      <3>1. CASE CheckBlocked(c) \/ BlockProvider(c)
        BY <3>1, CheckMove, BlockMove DEF Kept, CallFields
      <3>2. CASE Fetch(c)
        <4>1. /\ call'[c].pc \in {"fail", "block", "insert"}
              /\ Kept(call[c], call'[c], {"pc", "i", "err", "reply"})
          BY <3>2, FetchMove DEF Accepted, Kept
        <4> QED BY <4>1 DEF Kept, CallFields
      <3> QED BY <1>5, <3>1, <3>2
    <2> QED BY <2>1, SameReady
  <1>6. CASE Insert(c) \/ FailUnit(c) \/ Commit(c)
    <2>1. CASE \A e : ~FailsBy(c, e)
      <3>1. /\ call'[c].pc \in {"commit", "fail", "states", "fetch"}
            /\ call'[c].op = call[c].op /\ call'[c].units = call[c].units
            /\ call'[c].base = call[c].base /\ call'[c].ready = call[c].ready
        <4>1. CASE Insert(c)
          BY <2>1, <4>1, InsertMove DEF Kept, CallFields
        <4>2. CASE FailUnit(c)
          <5>1. call[c].pc = "fail" /\ Kept(call[c], call'[c], {"i"})
            BY <2>1, <4>2, FailUnitMove
          <5> QED BY <5>1 DEF Kept, CallFields
        <4>3. CASE Commit(c)
          <5>1. Commits(c)
            BY <2>1, <4>3, CommitMove
          <5>2. /\ call'[c].pc \in {"states", "fetch"}
                /\ Kept(call[c], call'[c], {"pc", "i", "batches", "reply", "inserts"})
            BY <5>1 DEF Commits
          <5> QED BY <5>2 DEF Kept, CallFields
        <4> QED BY <1>6, <4>1, <4>2, <4>3
      <3> QED BY <3>1, SameReady
    <2> QED BY <1>4, <2>1
  <1>7. CASE Claim(c)
    <2>1. CASE call'[c].ready = {} /\ call'[c].pc \in {"check", "states"}
      BY <2>1, NothingReady
    <2> QED BY <1>4, <1>7, <2>1, ClaimMove
  <1>8. CASE ReadFallback(c)
    <2>1. CASE ~GivesUpBy(c)
      <3>1. /\ call'[c].pc \in {"fallback", "flags"}
            /\ call'[c].op = call[c].op /\ call'[c].units = call[c].units
            /\ call'[c].base = call[c].base /\ call'[c].ready = call[c].ready
        BY <1>8, <2>1, FallbackMove DEF Kept, CallFields
      <3> QED BY <3>1, SameReady
    <2> QED BY <1>4, <2>1
  <1>9. CASE ReadLatest(c) \/ ReadRange(c)
    <2>1. /\ call[c].pc = "read" /\ call'[c].pc \in {"read", "done"}
          /\ call'[c].op = call[c].op /\ call'[c].units = call[c].units
          /\ call'[c].base = call[c].base /\ call'[c].ready = call[c].ready
      BY <1>9, LatestMove, RangeMove DEF Kept, CallFields, Advances
    <2> QED BY <2>1, SameReady
  <1> QED BY <1>1, <1>2, <1>3, <1>4, <1>5, <1>6, <1>7, <1>8, <1>9 DEF Quiet

\* Every response is recorded once, under a stamp of its own.
ImportsOK ==
    /\ IsFiniteSet(imports)
    /\ \A import \in imports : import.to \in Nat /\ import.stamp \in 1..fetches
    /\ \A c \in Callers : Recording(c) =>
          \A import \in imports : import.stamp # call[c].reply.stamp
    /\ \A c, d \in Callers : c # d /\ Recording(c) /\ Recording(d) =>
          call[c].reply.stamp # call[d].reply.stamp

\* A month was asked for as often as its row was completed, and up to the day
\* the row covers.
ResponsesOK ==
    \A k \in Keys : k.kind = "range" =>
        /\ Cardinality(ResponsesFor(k)) >= row[k].done
        /\ row[k].covered > 0 =>
              \E import \in ResponsesFor(k) : import.to >= row[k].covered

LEMMA ImportsStay ==
    ASSUME ImportsOK, NEW c \in Callers, Moves(c), imports' = imports, fetches' = fetches,
           call'[c].pc \in {"insert", "commit"} =>
               Recording(c) /\ call'[c].reply = call[c].reply
    PROVE  ImportsOK'
  <1>1. \A d \in Callers : call'[d].pc \in {"insert", "commit"} =>
           Recording(d) /\ call'[d].reply = call[d].reply
    BY DEF Moves, Recording
  <1>2. \A d \in Callers : Recording(d)' => Recording(d) /\ call'[d].reply = call[d].reply
    BY <1>1 DEF Recording
  <1> QED BY <1>2 DEF ImportsOK

LEMMA StepImports ==
    ASSUME Shapes, TypeInvariant, StampsOK, ImportsOK, NEW c \in Callers,
           Quiet(c) \/ Claim(c) \/ Fetch(c) \/ FailUnit(c) \/ Commit(c)
    PROVE  ImportsOK'
  <1>1. Moves(c) /\ fetches \in Nat
    BY QuietMoves DEF Shapes
  <1>2. CASE Insert(c)
    <2>1. imports' = imports /\ fetches' = fetches
      BY <1>2, QuietKeeps DEF Quiet
    <2>2. call'[c].pc \in {"insert", "commit"} =>
             Recording(c) /\ call'[c].reply = call[c].reply
      <3>1. Recording(c)
        BY <1>2, InsertMove DEF Recording
      <3>2. CASE \E e : FailsBy(c, e)
        BY <3>2 DEF FailsBy, EndsWith
      <3>3. CASE Kept(call[c], call'[c], {"pc", "i", "inserts"})
        BY <3>1, <3>3 DEF Kept, CallFields
      <3> QED BY <1>2, <3>2, <3>3, InsertMove
    <2> QED BY <1>1, <2>1, <2>2, ImportsStay
  <1>3. CASE Quiet(c) /\ ~Insert(c)
    <2>1. imports' = imports /\ fetches' = fetches
      BY <1>3, QuietKeeps
    <2>2. call'[c].pc \notin {"insert", "commit"}
      <3>1. GoesOn(c)
        BY <1>3, BeginGoesOn, StatesGoOn, ReadsGoOn, ChecksGoOn DEF Quiet
      <3>2. PICK v : IsCall(v) /\ v.pc \notin {"insert", "commit"} /\ Becomes(c, v)
        BY <3>1 DEF GoesOn
      <3>3. call'[c] = v
        BY <3>2, CallChanges
      <3> QED BY <3>2, <3>3
    <2> QED BY <1>1, <2>1, <2>2, ImportsStay
  <1>4. CASE Claim(c) \/ FailUnit(c)
    <2>1. imports' = imports /\ fetches' = fetches
      BY <1>4 DEF Claim, FailUnit, provider
    <2>2. call'[c].pc \notin {"insert", "commit"}
      <3>1. GoesOn(c)
        BY <1>4, ClaimParts, FailUnitParts
      <3>2. PICK v : IsCall(v) /\ v.pc \notin {"insert", "commit"} /\ Becomes(c, v)
        BY <3>1 DEF GoesOn
      <3>3. call'[c] = v
        BY <3>2, CallChanges
      <3> QED BY <3>2, <3>3
    <2> QED BY <1>1, <2>1, <2>2, ImportsStay
  <1>5. CASE Fetch(c)
    <2>1. imports' = imports
      BY <1>5 DEF Fetch, store
    <2>2. \/ call'[c].pc \in {"block", "fail"} /\ fetches' = fetches
          \/ call'[c].reply.stamp = fetches + 1 /\ fetches' = fetches + 1
      <3>1. CASE call'[c].pc \in {"block", "fail"} /\ UNCHANGED provider
        BY <3>1 DEF provider
      <3>2. CASE \E data, request, reply : Accepted(c, data, request, reply)
        BY <3>2 DEF Accepted
      <3> QED BY <1>5, <3>1, <3>2, FetchMove
    <2>3. CASE call'[c].pc \in {"block", "fail"} /\ fetches' = fetches
      BY <1>1, <2>1, <2>3, ImportsStay
    <2>4. CASE call'[c].reply.stamp = fetches + 1 /\ fetches' = fetches + 1
      <3>1. \A import \in imports : /\ import.stamp \in 1..fetches' /\ import.to \in Nat
                                    /\ import.stamp # fetches + 1
        BY <1>1, <2>4 DEF ImportsOK
      <3>2. \A d \in Callers \ {c} : call'[d] = call[d]
        BY <1>1 DEF Moves
      <3>3. \A d \in Callers \ {c} : Recording(d)' =>
               Recording(d) /\ call'[d].reply.stamp # fetches + 1
        <4>1. \A d \in Callers : Recording(d) => call[d].reply.stamp \in 1..fetches
          BY DEF StampsOK
        <4> QED BY <1>1, <3>2, <4>1 DEF Recording
      <3>4. \A d \in Callers : Recording(d)' =>
               \A import \in imports : import.stamp # call'[d].reply.stamp
        BY <2>4, <3>1, <3>2, <3>3 DEF ImportsOK
      <3>5. \A d, e \in Callers : d # e /\ Recording(d)' /\ Recording(e)' =>
               call'[d].reply.stamp # call'[e].reply.stamp
        BY <2>4, <3>2, <3>3 DEF ImportsOK
      <3>6. IsFiniteSet(imports)
        BY DEF ImportsOK
      <3> QED BY <2>1, <3>1, <3>4, <3>5, <3>6 DEF ImportsOK
    <2> QED BY <2>2, <2>3, <2>4
  <1>6. CASE Commit(c)
    <2>1. call[c].pc = "commit" /\ fetches' = fetches /\ Recording(c)
      BY <1>6 DEF Commit, provider, Recording
    <2>2. CASE FailsBy(c, "lost") /\ imports' = imports
      <3>1. call'[c].pc \notin {"insert", "commit"}
        BY <2>2 DEF FailsBy, EndsWith
      <3> QED BY <1>1, <2>1, <2>2, <3>1, ImportsStay
    <2>3. CASE Commits(c)
      <3>1. PICK request, new :
              /\ request = RequestForBatch(call[c].batches[1])
              /\ new = [kind |-> request.kind, ids |-> ToSet(request.ids),
                        from |-> request.from, to |-> request.to,
                        answered |-> call[c].reply.answered, stamp |-> call[c].reply.stamp]
        OBVIOUS
      <3>2. imports' = imports \cup {new} /\ call'[c].pc \in {"states", "fetch"}
        BY <2>3, <3>1 DEF Commits
      <3>3. new.to \in Nat /\ new.stamp = call[c].reply.stamp
        BY <2>1, <3>1, CommitRequest
      <3>4. call[c].reply.stamp \in 1..fetches
        BY <2>1 DEF StampsOK
      <3>5. \A d \in Callers : Recording(d)' =>
               d # c /\ Recording(d) /\ call'[d] = call[d]
        BY <1>1, <3>2 DEF Moves, Recording
      <3>6. \A d \in Callers : Recording(d)' =>
               \A import \in imports' : import.stamp # call'[d].reply.stamp
        BY <2>1, <3>2, <3>3, <3>5 DEF ImportsOK
      <3>7. \A d, e \in Callers : d # e /\ Recording(d)' /\ Recording(e)' =>
               call'[d].reply.stamp # call'[e].reply.stamp
        BY <3>5 DEF ImportsOK
      <3>8. IsFiniteSet(imports')
        BY <3>2, FS_AddElement DEF ImportsOK
      <3>9. \A import \in imports' : import.to \in Nat /\ import.stamp \in 1..fetches'
        BY <2>1, <3>2, <3>3, <3>4 DEF ImportsOK
      <3> QED BY <3>6, <3>7, <3>8, <3>9 DEF ImportsOK
    <2> QED BY <1>6, <2>2, <2>3, CommitMove
  <1> QED BY <1>2, <1>3, <1>4, <1>5, <1>6

LEMMA ResponsesStay ==
    ASSUME ResponsesOK, imports' = imports,
           \A k \in Keys : row'[k].done = row[k].done /\ row'[k].covered = row[k].covered
    PROVE  ResponsesOK'
  <1> SUFFICES ASSUME NEW k \in Keys, k.kind = "range"
               PROVE  /\ Cardinality(ResponsesFor(k)') >= row'[k].done
                      /\ row'[k].covered > 0 =>
                            \E import \in ResponsesFor(k)' : import.to >= row'[k].covered
    BY DEF ResponsesOK
  <1>1. ResponsesFor(k)' = ResponsesFor(k)
    BY DEF ResponsesFor
  <1> QED BY <1>1 DEF ResponsesOK

LEMMA CommitResponses ==
    ASSUME Shapes, TypeInvariant, ImportsOK, ResponsesOK, NEW c \in Callers,
           call[c].pc = "commit", Commits(c)
    PROVE  ResponsesOK'
  <1> SUFFICES ASSUME NEW k \in Keys, k.kind = "range"
               PROVE  /\ Cardinality(ResponsesFor(k)') >= row'[k].done
                      /\ row'[k].covered > 0 =>
                            \E import \in ResponsesFor(k)' : import.to >= row'[k].covered
    BY DEF ResponsesOK
  <1>1. PICK request, new :
          /\ request = RequestForBatch(call[c].batches[1])
          /\ new = [kind |-> request.kind, ids |-> ToSet(request.ids),
                    from |-> request.from, to |-> request.to,
                    answered |-> call[c].reply.answered, stamp |-> call[c].reply.stamp]
    OBVIOUS
  <1>2. imports' = imports \cup {new}
    BY <1>1 DEF Commits
  <1>3. PICK old, all : old = ResponsesFor(k) /\ all = ResponsesFor(k)'
    OBVIOUS
  <1>4. old \subseteq all /\ all \subseteq imports' /\ old \subseteq imports
    BY <1>2, <1>3 DEF ResponsesFor
  <1>5. IsFiniteSet(all) /\ IsFiniteSet(old)
    <2>1. IsFiniteSet(imports) /\ IsFiniteSet(imports')
      BY <1>2, FS_AddElement DEF ImportsOK
    <2> QED BY <1>4, <2>1, FS_Subset
  <1>6. /\ Cardinality(old) \in Nat /\ Cardinality(all) \in Nat
        /\ Cardinality(old) <= Cardinality(all)
    BY <1>4, <1>5, FS_CardinalityType, FS_Subset
  <1>7. /\ Cardinality(old) >= row[k].done
        /\ row[k].covered > 0 => \E import \in old : import.to >= row[k].covered
    BY <1>3 DEF ResponsesOK
  <1>8. row[k].done \in Nat /\ row[k].covered \in Nat
    BY RowNumbers
  <1>9. CASE row'[k] = row[k]
    BY <1>3, <1>4, <1>6, <1>7, <1>8, <1>9
  <1>10. CASE row'[k] # row[k]
    <2>1. /\ k \in KeysOf(call[c].batches[1])
          /\ row'[k].done = row[k].done + 1
          /\ row'[k].covered = IF k.kind = "range" /\ row[k].covered < request.to
                               THEN request.to ELSE row[k].covered
      BY <1>1, <1>10, RowsCompleted
    <2>2. /\ request.to \in Nat /\ call[c].reply.answered = ToSet(request.ids)
          /\ request.kind = "range" /\ request.from = FirstOf(k.month)
          /\ k.series \in ToSet(request.ids)
      BY <1>1, <2>1, CommitRequest
    <2>3. /\ new.kind = "range" /\ new.from = FirstOf(k.month) /\ new.to = request.to
          /\ k.series \in new.answered /\ new.stamp = call[c].reply.stamp
      BY <1>1, <2>2
    <2>4. new \notin imports
      BY <2>3 DEF ImportsOK, Recording
    <2>5. new \in all
      BY <1>2, <1>3, <2>3 DEF ResponsesFor
    <2>6. Cardinality(old \cup {new}) = Cardinality(old) + 1
      BY <1>4, <1>5, <2>4, FS_AddElement
    <2>7. old \cup {new} \in SUBSET all
      BY <1>4, <2>5
    <2>8. Cardinality(old \cup {new}) <= Cardinality(all)
      BY <1>5, <2>7, FS_Subset
    <2>9. Cardinality(all) >= row'[k].done
      BY <1>6, <1>7, <1>8, <2>1, <2>6, <2>8
    <2>10. row'[k].covered > 0 => \E import \in all : import.to >= row'[k].covered
      BY <1>4, <1>7, <1>8, <2>1, <2>2, <2>3, <2>5
    <2> QED BY <1>3, <2>9, <2>10
  <1> QED BY <1>9, <1>10

AskInvariant ==
    /\ ImportsOK
    /\ ResponsesOK
    /\ \A c \in Callers : ReadyOK(call[c], row)

LEMMA InitAsks ==
    ASSUME Init
    PROVE  AskInvariant
  <1>1. /\ imports = {} /\ call = [c \in Callers |-> Idle]
        /\ \A k \in Keys : k.kind = "range" => row[k] = NoRow
    BY DEF Init
  <1>2. ImportsOK
    BY <1>1, FS_EmptySet DEF ImportsOK, Recording, Idle
  <1>3. ResponsesOK
    <2>1. \A k : ResponsesFor(k) = {}
      BY <1>1 DEF ResponsesFor
    <2>2. Cardinality({}) = 0
      BY FS_EmptySet
    <2>3. NoRow.done = 0 /\ NoRow.covered = 0
      BY DEF NoRow
    <2>4. ASSUME NEW k \in Keys, k.kind = "range"
          PROVE  /\ Cardinality(ResponsesFor(k)) >= row[k].done
                 /\ ~(row[k].covered > 0)
      <3>1. row[k].done = 0 /\ row[k].covered = 0
        BY <1>1, <2>3, <2>4
      <3>2. Cardinality(ResponsesFor(k)) = 0
        BY <2>1, <2>2
      <3> QED BY <3>1, <3>2
    <2> QED BY <2>4 DEF ResponsesOK
  <1>4. ReadyOK(Idle, row)
    <2>1. Idle.ready = {} /\ Idle.pc = "idle"
      BY DEF Idle
    <2> QED BY <2>1, NothingReady
  <1> QED BY <1>1, <1>2, <1>3, <1>4 DEF AskInvariant

LEMMA NextAsks ==
    ASSUME RateInvariant, TypeInvariant, TypeInvariant', AskInvariant, [Next]_vars
    PROVE  AskInvariant'
  <1>1. Shapes /\ StampsOK /\ ImportsOK /\ ResponsesOK /\ Growing
    BY RowsGrow DEF RateInvariant, AskInvariant
  <1>2. ASSUME NEW d \in Callers, ReadyOK(call'[d], row)
        PROVE  ReadyOK(call'[d], row')
    <2>1. CallOK(call'[d])
      BY DEF TypeInvariant
    <2>2. call'[d].units \in Seq(Units) /\ call'[d].base \in [Keys -> Nat]
      BY <2>1 DEF CallOK, AskedOK, InPeriods
    <2> QED BY <1>1, <1>2, <2>2, ReadyGrows
  <1>3. ASSUME NEW c \in Callers,
               Quiet(c) \/ Claim(c) \/ Fetch(c) \/ FailUnit(c) \/ Commit(c)
        PROVE  AskInvariant'
    <2>1. ImportsOK'
      BY <1>1, <1>3, StepImports
    <2>2. ResponsesOK'
      <3>1. CASE Commit(c)
        <4>1. call[c].pc = "commit"
          BY <1>1, <3>1, CommitMove
        <4>2. CASE Commits(c)
          BY <1>1, <4>1, <4>2, CommitResponses
        <4>3. CASE row' = row /\ imports' = imports
          BY <1>1, <4>3, ResponsesStay
        <4> QED BY <1>1, <3>1, <4>2, <4>3, CommitMove
      <3>2. CASE Quiet(c) \/ Claim(c) \/ Fetch(c) \/ FailUnit(c)
        <4>1. imports' = imports
          BY <3>2, QuietKeeps DEF Claim, Fetch, FailUnit, store
        <4>2. \A k \in Keys : row'[k].done = row[k].done /\ row'[k].covered = row[k].covered
          BY <1>1, <3>2, RowsStay
        <4> QED BY <1>1, <4>1, <4>2, ResponsesStay
      <3> QED BY <1>3, <3>1, <3>2
    <2>3. ASSUME NEW d \in Callers
          PROVE  ReadyOK(call'[d], row')
      <3>1. CASE d = c
        <4>1. ReadyOK(call[c], row)
          BY DEF AskInvariant
        <4>2. ReadyOK(call'[c], row)
          BY <1>1, <1>3, <4>1, StepReady
        <4> QED BY <1>2, <3>1, <4>2
      <3>2. CASE d # c
        <4>1. Moves(c)
          BY <1>1, <1>3, QuietMoves
        <4>2. call'[d] = call[d] /\ ReadyOK(call[d], row)
          BY <3>2, <4>1 DEF Moves, AskInvariant
        <4> QED BY <1>2, <4>2
      <3> QED BY <3>1, <3>2
    <2> QED BY <2>1, <2>2, <2>3 DEF AskInvariant
  <1>4. CASE WaitsEnd \/ (\E key \in Keys : FreshnessEnds(key)) \/ NextDay \/ UNCHANGED vars
    <2>1. call' = call /\ fetches' = fetches
      BY <1>1, <1>4, TimeParts
    <2>2. imports' = imports
      BY <1>4 DEF WaitsEnd, BlockEnds, LeaseLapses, BackoffEnds, FreshnessEnds, NextDay,
                  vars, store
    <2>3. ImportsOK'
      BY <1>1, <2>1, <2>2 DEF ImportsOK, Recording
    <2>4. \A k \in Keys : row'[k].done = row[k].done /\ row'[k].covered = row[k].covered
      BY <1>1, <1>4, ClockRows
    <2>5. ResponsesOK'
      BY <1>1, <2>2, <2>4, ResponsesStay
    <2>6. \A d \in Callers : ReadyOK(call'[d], row')
      BY <1>2, <2>1 DEF AskInvariant
    <2> QED BY <2>3, <2>5, <2>6 DEF AskInvariant
  <1> QED BY <1>3, <1>4, NextIs

LEMMA AsksKept == Spec => [](RateInvariant /\ TypeInvariant /\ AskInvariant)
  <1>1. Init => AskInvariant
    BY InitAsks
  <1>2. RateInvariant /\ TypeInvariant /\ TypeInvariant' /\ AskInvariant /\ [Next]_vars
          => AskInvariant'
    BY NextAsks
  <1> QED BY <1>1, <1>2, TypesKept, PTL DEF Spec

\* Whoever fetched it and whatever lapsed meanwhile, a Range that succeeds rests on
\* a recorded response that answered the series up to the day it could expect,
\* and a RevalidateRange on one recorded after it began (covered_through and
\* completed_at only grow, and each completion records a response of its own).
THEOREM RangesRestOnResponses == Spec => []RangeAnswersWereAsked
  <1>1. TypeInvariant /\ AskInvariant => RangeAnswersWereAsked
    <2> SUFFICES ASSUME TypeInvariant, AskInvariant, NEW c \in Callers,
                        call[c].pc = "done", NEW unit \in ToSet(call[c].units)
                 PROVE  /\ call[c].op = "range" =>
                              \E import \in ResponsesFor(unit.key) : import.to >= unit.fetchTo
                        /\ call[c].op = "revalidate" =>
                              Cardinality(ResponsesFor(unit.key)) > call[c].base[unit.key]
      BY DEF RangeAnswersWereAsked
    <2>1. CASE call[c].op \notin {"range", "revalidate"}
      BY <2>1
    <2>2. CASE call[c].op \in {"range", "revalidate"}
      <3>1. CallOK(call[c])
        BY DEF TypeInvariant
      <3>2. PICK k, r : k = unit.key /\ r = row[k]
        OBVIOUS
      <3>3. unit \in Units /\ k \in Keys
        <4>1. unit \in Units
          BY <3>1 DEF ToSet, CallOK, AskedOK, InPeriods
        <4> QED BY <3>2, <4>1, UnitMonths
      <3>4. k.kind = "range" /\ unit.fetchTo \in FirstOf(k.month)..LastOf(k.month)
        BY <2>2, <3>1, <3>2 DEF CallOK, AskedOK, OfRange
      <3>5. unit.fetchTo \in Nat \ {0}
        <4>1. k.month \in Nat \ {0}
          BY <3>3, <3>4 DEF Keys
        <4>2. FirstOf(k.month) \in Nat \ {0}
          BY <4>1, BoundsOfMonth
        <4> QED BY <3>4, <4>2
      <3>6. Settled(call[c], unit, r)
        BY <2>2, <3>2 DEF AskInvariant, ReadyOK
      <3>7. r.done \in Nat /\ r.covered \in Nat /\ call[c].base[k] \in Nat
        BY <3>1, <3>2, <3>3, RowNumbers DEF CallOK
      <3>8. /\ Cardinality(ResponsesFor(k)) >= r.done
            /\ r.covered > 0 => \E import \in ResponsesFor(k) : import.to >= r.covered
        BY <3>2, <3>3, <3>4 DEF AskInvariant, ResponsesOK
      <3>9. Cardinality(ResponsesFor(k)) \in Nat
        <4>1. ResponsesFor(k) \in SUBSET imports
          BY DEF ResponsesFor
        <4>2. IsFiniteSet(ResponsesFor(k))
          BY <4>1, FS_Subset DEF AskInvariant, ImportsOK
        <4> QED BY <4>2, FS_CardinalityType
      <3>10. \A import \in ResponsesFor(k) : import.to \in Nat
        BY DEF ResponsesFor, AskInvariant, ImportsOK
      <3>11. call[c].op = "range" =>
               \E import \in ResponsesFor(k) : import.to >= unit.fetchTo
        <4> SUFFICES ASSUME call[c].op = "range"
                     PROVE  \E import \in ResponsesFor(k) : import.to >= unit.fetchTo
          OBVIOUS
        <4>1. r.covered >= unit.fetchTo
          BY <3>6 DEF Settled
        <4>2. PICK import \in ResponsesFor(k) : import.to >= r.covered
          BY <3>5, <3>7, <3>8, <4>1
        <4>3. import.to >= unit.fetchTo
          BY <3>5, <3>7, <3>10, <4>1, <4>2
        <4> QED BY <4>3
      <3>12. call[c].op = "revalidate" => Cardinality(ResponsesFor(k)) > call[c].base[k]
        BY <3>2, <3>6, <3>7, <3>8, <3>9 DEF Settled
      <3> QED BY <3>2, <3>11, <3>12
    <2> QED BY <2>1, <2>2
  <1> QED BY <1>1, AsksKept, PTL

-----------------------------------------------------------------------------
(* What Latest answers.                                                     *)

\* At most one reading for each series before the i-th.
GotBefore(got, series, i) ==
    /\ IsFiniteSet(got)
    /\ \A g \in got : \E j \in 1..(i - 1) : g.obs.series = series[j]
    /\ \A g, h \in got : g.obs.series = h.obs.series => g = h

\* One reading for each series.
GotAll(got, series) ==
    /\ Cardinality(got) = Len(series)
    /\ {g.obs.series : g \in got} = ToSet(series)

GotOK(v) ==
    v.op = "latest" =>
        /\ v.pc \in Resolving => v.got = {}
        /\ v.pc \in {"fallback", "read"} => GotBefore(v.got, v.series, v.i)
        /\ v.pc = "read" =>
              \A j \in 1..(v.i - 1) : \E g \in v.got : g.obs.series = v.series[j]
        /\ v.pc = "flags" => GotAll(v.got, v.series)
        /\ v.pc = "done" /\ (v.err = "none" \/ v.got # {}) => GotAll(v.got, v.series)

\* A series whose latest value was fetched has an observation.
LatestKnown ==
    \A s \in Series : row[LatestKey(s)].done > 0 => \E d \in Days : history[s][d] # <<>>

\* What a response holds is inserted by its transaction, or was stored before.
RecordedOK(c) ==
    call[c].pc = "commit" => \A o \in call[c].reply.obs :
        o \in call[c].inserts \/ history[o.series][o.day] # <<>>

AnswerInvariant ==
    /\ LatestKnown
    /\ \A c \in Callers : RecordedOK(c) /\ GotOK(call[c])

LEMMA CurrentKnown ==
    ASSUME StoreOK, NEW s \in Series, NEW d \in Days
    PROVE  (Current(s, d) = 0) <=> (history[s][d] = <<>>)
  <1>1. history[s][d] \in Seq(Values)
    BY DEF StoreOK
  <1>2. CASE history[s][d] # <<>>
    <2>1. PICK h : h = history[s][d]
      OBVIOUS
    <2>2. Len(h) \in 1..Len(h) /\ h \in Seq(Values)
      BY <1>1, <1>2, <2>1, EmptySeq
    <2>3. Last(h) \in Values
      BY <2>2 DEF Last
    <2>4. Last(h) # 0
      BY <2>3, RateAssumption
    <2> QED BY <1>2, <2>1, <2>4 DEF Current
  <1>3. CASE history[s][d] = <<>>
    BY <1>3 DEF Current
  <1> QED BY <1>2, <1>3

\* LatestObservations has one row for a series that has an observation.
LEMMA LatestIsOne ==
    ASSUME StoreOK, NEW s \in Series
    PROVE  /\ \A o \in LatestObserved(s) : o.series = s
           /\ \A o, p \in LatestObserved(s) : o = p
           /\ (\E d \in Days : history[s][d] # <<>>) => LatestObserved(s) # {}
  <1>1. PICK last : last = {d \in Days : /\ Current(s, d) # 0
                                         /\ \A e \in (d + 1)..LastDay : Current(s, e) = 0}
    OBVIOUS
  <1>2. LatestObserved(s) = {[series |-> s, day |-> day, value |-> Current(s, day)] : day \in last}
    BY <1>1 DEF LatestObserved
  <1>3. \A d, e \in last : d = e
    <2> SUFFICES ASSUME NEW d \in last, NEW e \in last, d < e
                 PROVE  FALSE
      <3>1. \A d \in last : d \in Int
        BY <1>1 DEF Days
      <3> QED BY <3>1
    <2>1. d \in Days /\ e \in Days /\ LastDay \in Nat
      BY <1>1, RateAssumption
    <2>2. e \in (d + 1)..LastDay
      BY <2>1 DEF Days
    <2> QED BY <1>1, <2>2
  <1>4. ASSUME NEW d \in Days, history[s][d] # <<>>
        PROVE  last # {}
    <2>1. PICK all : all = {e \in Days : Current(s, e) # 0}
      OBVIOUS
    <2>2. d \in all /\ all \in SUBSET (0..LastDay) /\ LastDay \in Nat
      <3>1. d \in all
        BY <1>4, <2>1, CurrentKnown
      <3>2. all \in SUBSET (0..LastDay)
        BY <2>1, RateAssumption DEF Days
      <3> QED BY <3>1, <3>2, RateAssumption
    <2>3. PICK x \in all : \A y \in all : y <= x
      BY <2>2, GreatestNumber
    <2>4. x \in Days /\ Current(s, x) # 0
      BY <2>1, <2>3
    <2>5. ASSUME NEW e \in (x + 1)..LastDay
          PROVE  Current(s, e) = 0
      <3>1. e \in Days /\ ~(e <= x)
        BY <2>4, RateAssumption DEF Days
      <3> QED BY <2>1, <2>3, <3>1
    <2> QED BY <1>1, <2>4, <2>5
  <1>5. \A o \in LatestObserved(s) : o.series = s
    BY <1>2
  <1>6. \A o, p \in LatestObserved(s) : o = p
    BY <1>2, <1>3
  <1>7. last # {} => LatestObserved(s) # {}
    BY <1>2
  <1> QED BY <1>4, <1>5, <1>6, <1>7

\* What a statement of LatestObservations adds: at most one reading of series s.
Adds(c, known, s, new) ==
    /\ Reading(c, known) = call[c].got \cup new
    /\ IsFiniteSet(new)
    /\ \A g \in new : g.obs.series = s
    /\ \A g, h \in new : g = h
    /\ (\E d \in Days : history[s][d] # <<>>) => new # {}

LEMMA ReadingIs ==
    ASSUME StoreOK, NEW c, NEW known, NEW s \in Series, s = call[c].series[call[c].i]
    PROVE  \E new : Adds(c, known, s, new)
  <1>1. PICK x : x = (known \/ Ready(call[c].units[call[c].i],
                                     row[call[c].units[call[c].i].key]))
    OBVIOUS
  <1>2. PICK new : new = {[obs |-> o, ready |-> x] : o \in LatestObserved(s)}
    OBVIOUS
  <1>3. Reading(c, known) = call[c].got \cup new
    BY <1>1, <1>2 DEF Reading
  <1>4. \A g \in new : g.obs.series = s
    BY <1>2, LatestIsOne
  <1>5. \A g, h \in new : g = h
    <2>1. \A o, p \in LatestObserved(s) : o = p
      BY LatestIsOne
    <2> QED BY <1>2, <2>1
  <1>6. (\E d \in Days : history[s][d] # <<>>) => new # {}
    <2>1. (\E d \in Days : history[s][d] # <<>>) => LatestObserved(s) # {}
      BY LatestIsOne
    <2> QED BY <1>2, <2>1
  <1>7. IsFiniteSet(new)
    <2>1. CASE new = {}
      BY <2>1, FS_EmptySet
    <2>2. CASE new # {}
      <3>1. PICK g : new = {g}
        BY <1>5, <2>2
      <3> QED BY <3>1, FS_Singleton
    <2> QED BY <2>1, <2>2
  <1> QED BY <1>3, <1>4, <1>5, <1>6, <1>7 DEF Adds

LEMMA GotNext ==
    ASSUME NEW got, NEW series \in Seq(Series), IsInjective(series),
           NEW i \in 1..Len(series), GotBefore(got, series, i),
           NEW new, IsFiniteSet(new), \A g \in new : g.obs.series = series[i],
           \A g, h \in new : g = h
    PROVE  GotBefore(got \cup new, series, i + 1)
  <1>1. IsFiniteSet(got \cup new)
    BY FS_Union DEF GotBefore
  <1>2. ASSUME NEW g \in got \cup new
        PROVE  \E j \in 1..i : g.obs.series = series[j]
    <2>1. CASE g \in got
      BY <2>1 DEF GotBefore
    <2>2. CASE g \in new
      BY <2>2
    <2> QED BY <2>1, <2>2
  <1>3. \A g \in got : g.obs.series # series[i]
    <2> SUFFICES ASSUME NEW g \in got, g.obs.series = series[i]
                 PROVE  FALSE
      OBVIOUS
    <2>1. PICK j \in 1..(i - 1) : g.obs.series = series[j]
      BY DEF GotBefore
    <2>2. j \in DOMAIN series /\ i \in DOMAIN series /\ j # i
      BY <2>1
    <2> QED BY <2>1, <2>2 DEF IsInjective
  <1>4. \A g, h \in got \cup new : g.obs.series = h.obs.series => g = h
    BY <1>3 DEF GotBefore
  <1>5. (i + 1) - 1 = i
    OBVIOUS
  <1> QED BY <1>1, <1>2, <1>4, <1>5 DEF GotBefore

LEMMA GotFull ==
    ASSUME NEW got, NEW series \in Seq(Series), IsInjective(series), NEW n \in Nat,
           n = Len(series), GotBefore(got, series, n + 1),
           \/ Cardinality(got) = n
           \/ \A j \in 1..n : \E g \in got : g.obs.series = series[j]
    PROVE  GotAll(got, series)
  <1>1. \A g \in got : \E j \in 1..n : g.obs.series = series[j]
    BY DEF GotBefore
  <1>2. PICK f : f = [g \in got |-> CHOOSE j \in 1..n : g.obs.series = series[j]]
    OBVIOUS
  <1>3. \A g \in got : f[g] \in 1..n /\ g.obs.series = series[f[g]]
    BY <1>1, <1>2
  <1>4. f \in Injection(got, 1..n)
    <2>1. f \in [got -> 1..n]
      BY <1>2, <1>3
    <2>2. \A g, h \in got : f[g] = f[h] => g = h
      BY <1>3 DEF GotBefore
    <2> QED BY <2>1, <2>2 DEF Injection, IsInjective
  <1>5. IsFiniteSet(1..n) /\ Cardinality(1..n) = n
    <2>1. 1 \in Int /\ n \in Int
      OBVIOUS
    <2>2. IsFiniteSet(1..n) /\ Cardinality(1..n) = IF 1 > n THEN 0 ELSE n - 1 + 1
      BY <2>1, FS_Interval
    <2> QED BY <2>2
  <1>6. Cardinality(got) = n <=> f \in Surjection(got, 1..n)
    BY <1>4, <1>5, FS_Injection
  <1>7. f \in Surjection(got, 1..n)
    <2>1. CASE Cardinality(got) = n
      BY <1>6, <2>1
    <2>2. CASE \A j \in 1..n : \E g \in got : g.obs.series = series[j]
      <3> SUFFICES ASSUME NEW j \in 1..n
                   PROVE  \E g \in got : f[g] = j
        BY <1>4 DEF Injection, Surjection
      <3>1. PICK g \in got : g.obs.series = series[j]
        BY <2>2
      <3>2. f[g] \in DOMAIN series /\ j \in DOMAIN series /\ series[f[g]] = series[j]
        BY <1>3, <3>1
      <3> QED BY <3>1, <3>2 DEF IsInjective
    <2> QED BY <2>1, <2>2
  <1>8. \A j \in 1..n : \E g \in got : f[g] = j
    BY <1>7 DEF Surjection
  <1>9. DOMAIN series = 1..n
    OBVIOUS
  <1>10. \A x : x \in {g.obs.series : g \in got} <=> x \in ToSet(series)
    <2>1. ASSUME NEW g \in got
          PROVE  g.obs.series \in ToSet(series)
      BY <1>3, <1>9 DEF ToSet
    <2>2. ASSUME NEW j \in 1..n
          PROVE  \E g \in got : g.obs.series = series[j]
      BY <1>3, <1>8
    <2> QED BY <1>9, <2>1, <2>2 DEF ToSet
  <1> QED BY <1>6, <1>7, <1>10 DEF GotAll

-----------------------------------------------------------------------------
(* Latest, step by step.                                                    *)

\* A call that is over with an error has read nothing.
LEMMA ErrorGot ==
    ASSUME NEW c, NEW op, NEW e, e # "none", EndsWith(c, op, e)
    PROVE  GotOK(call'[c])
  <1>1. call'[c].pc = "done" /\ call'[c].err # "none" /\ call'[c].got = {}
    BY DEF EndsWith, Kept, CallFields, Idle
  <1> QED BY <1>1 DEF GotOK, Resolving, Holding

\* A call that has read nothing yet.
LEMMA NothingGot ==
    ASSUME NEW w, w.pc \notin {"flags", "done"}, w.got = {}, w.i = 1
    PROVE  GotOK(w)
  <1>1. GotBefore({}, w.series, 1)
    BY FS_EmptySet DEF GotBefore
  <1> QED BY <1>1 DEF GotOK, GotBefore, Resolving, Holding

LEMMA ResolvingGot ==
    ASSUME NEW v, NEW w, GotOK(v), v.pc \in Resolving, w.pc \in Resolving, w.op = v.op,
           w.got = v.got
    PROVE  GotOK(w)
  BY DEF GotOK, Resolving, Holding

LEMMA FailureGot ==
    ASSUME NEW c, NEW e, e # "none", GotOK(call[c]), call[c].pc \in Resolving,
           FailsBy(c, e)
    PROVE  GotOK(call'[c])
  <1>1. CASE call[c].op = "latest"
    <2>1. /\ call'[c].pc = "fallback" /\ call'[c].i = 1 /\ call'[c].got = call[c].got
      BY <1>1 DEF FailsBy, Kept, CallFields
    <2>2. call[c].got = {}
      BY <1>1 DEF GotOK
    <2> QED BY <2>1, <2>2, NothingGot
  <1>2. CASE call[c].op # "latest"
    BY <1>2, ErrorGot DEF FailsBy
  <1> QED BY <1>1, <1>2

LEMMA GiveUpGot ==
    ASSUME NEW c, call[c].err # "none", GivesUpBy(c)
    PROVE  GotOK(call'[c])
  <1>1. CASE call[c].err = "cold"
    BY <1>1, NothingGot DEF GivesUpBy
  <1>2. CASE call[c].err # "cold"
    BY <1>2, ErrorGot DEF GivesUpBy
  <1> QED BY <1>1, <1>2

LEMMA FallbackGot ==
    ASSUME Shapes, TypeInvariant, NEW c \in Callers, GotOK(call[c]), ReadFallback(c)
    PROVE  GotOK(call'[c])
  <1>1. CallOK(call[c]) /\ StoreOK /\ call[c].pc = "fallback"
    BY FallbackMove DEF TypeInvariant
  <1>2. call[c].op = "latest" /\ call[c].err # "none" /\ call[c].i \in 1..Len(call[c].series)
    BY <1>1 DEF CallOK, PlaceOK
  <1>3. CASE GivesUpBy(c)
    BY <1>2, <1>3, GiveUpGot
  <1>4. CASE ~GivesUpBy(c)
    <2>1. PICK series, i, s : /\ series = call[c].series /\ i = call[c].i
                              /\ s = series[i]
      OBVIOUS
    <2>2. series \in Seq(Series) /\ IsInjective(series) /\ i \in 1..Len(series)
      BY <1>1, <1>2, <2>1 DEF CallOK, AskedOK
    <2>3. s \in Series /\ Len(series) \in Nat
      BY <2>1, <2>2
    <2>4. PICK new : Adds(c, FALSE, s, new)
      <3>1. s = call[c].series[call[c].i]
        BY <2>1
      <3> QED BY <1>1, <2>3, <3>1, ReadingIs
    <2>5. PICK got : got = Reading(c, FALSE)
      OBVIOUS
    <2>6. GotBefore(call[c].got, series, i)
      BY <1>1, <1>2, <2>1 DEF GotOK
    <2>7. GotBefore(got, series, i + 1)
      <3>1. /\ got = call[c].got \cup new /\ IsFiniteSet(new)
            /\ \A g \in new : g.obs.series = series[i]
            /\ \A g, h \in new : g = h
        BY <2>1, <2>4, <2>5 DEF Adds
      <3>2. GotBefore(call[c].got \cup new, series, i + 1)
        BY <2>2, <2>6, <3>1, GotNext
      <3> QED BY <3>1, <3>2
    <2>8. CASE /\ call[c].i < Len(call[c].series)
               /\ call'[c].i = call[c].i + 1 /\ call'[c].got = Reading(c, FALSE)
               /\ Kept(call[c], call'[c], {"i", "got"})
      <3>1. /\ call'[c].pc = "fallback" /\ call'[c].series = series
            /\ call'[c].i = i + 1 /\ call'[c].got = got
        BY <1>1, <2>1, <2>5, <2>8 DEF Kept, CallFields
      <3> QED BY <2>7, <3>1 DEF GotOK, Resolving, Holding
    <2>9. CASE /\ ~(call[c].i < Len(call[c].series))
               /\ Cardinality(Reading(c, FALSE)) = Len(call[c].series)
               /\ call'[c].pc = "flags" /\ call'[c].i = 1
               /\ call'[c].got = Reading(c, FALSE)
               /\ Kept(call[c], call'[c], {"pc", "i", "got"})
      <3>1. call'[c].pc = "flags" /\ call'[c].series = series /\ call'[c].got = got
        BY <2>1, <2>5, <2>9 DEF Kept, CallFields
      <3>2. i = Len(series) /\ Cardinality(got) = Len(series)
        <4>1. ~(i < Len(series)) /\ Cardinality(got) = Len(series)
          BY <2>1, <2>5, <2>9
        <4> QED BY <2>2, <2>3, <4>1
      <3>3. GotAll(got, series)
        BY <2>2, <2>3, <2>7, <3>2, GotFull
      <3> QED BY <3>1, <3>3 DEF GotOK, Resolving, Holding
    <2> QED BY <1>4, <2>8, <2>9, FallbackMove
  <1> QED BY <1>3, <1>4

LEMMA FlagGot ==
    ASSUME Shapes, TypeInvariant, NEW c \in Callers, GotOK(call[c]), ReadFlag(c)
    PROVE  GotOK(call'[c])
  <1>1. CallOK(call[c]) /\ call[c].pc = "flags"
    BY FlagMove DEF TypeInvariant
  <1>2. call[c].op = "latest"
    BY <1>1 DEF CallOK, PlaceOK
  <1>3. GotAll(call[c].got, call[c].series)
    BY <1>1, <1>2 DEF GotOK
  <1>4. /\ call'[c].pc \in {"flags", "done"} /\ call'[c].got = call[c].got
        /\ call'[c].series = call[c].series
    BY <1>1, FlagMove DEF Kept, CallFields, Advances
  <1> QED BY <1>3, <1>4 DEF GotOK, Resolving, Holding

\* Its units are ready, so every series has an observation to read.
LEMMA LatestGot ==
    ASSUME Shapes, TypeInvariant, NEW c \in Callers, GotOK(call[c]), LatestKnown,
           ReadyOK(call[c], row), ReadLatest(c)
    PROVE  GotOK(call'[c])
  <1>1. CallOK(call[c]) /\ StoreOK /\ call[c].pc = "read" /\ call[c].op = "latest"
    BY LatestMove DEF TypeInvariant
  <1>2. call[c].i \in 1..Len(call[c].series)
    BY <1>1 DEF CallOK, PlaceOK
  <1>3. PICK series, i, s : /\ series = call[c].series /\ i = call[c].i
                            /\ s = series[i]
    OBVIOUS
  <1>4. /\ series \in Seq(Series) /\ IsInjective(series) /\ i \in 1..Len(series)
        /\ OfLatest(call[c].units, series) /\ call[c].units \in Seq(Units)
    BY <1>1, <1>2, <1>3 DEF CallOK, AskedOK, InPeriods
  <1>5. s \in Series /\ Len(series) \in Nat
    BY <1>3, <1>4
  <1>6. \E d \in Days : history[s][d] # <<>>
    <2>1. PICK unit : unit = call[c].units[i]
      OBVIOUS
    <2>2. unit.key = LatestKey(s) /\ i \in DOMAIN call[c].units
      BY <1>3, <1>4, <2>1 DEF OfLatest
    <2>3. unit \in ToSet(call[c].units)
      BY <2>1, <2>2 DEF ToSet
    <2>4. Settled(call[c], unit, row[unit.key])
      BY <1>1, <2>3 DEF ReadyOK
    <2>5. row[LatestKey(s)].done > 0
      BY <1>1, <2>2, <2>4 DEF Settled
    <2> QED BY <1>5, <2>5 DEF LatestKnown
  <1>7. PICK new : Adds(c, TRUE, s, new)
    <2>1. s = call[c].series[call[c].i]
      BY <1>3
    <2> QED BY <1>1, <1>5, <2>1, ReadingIs
  <1>8. PICK got : got = Reading(c, TRUE)
    OBVIOUS
  <1>9. /\ GotBefore(call[c].got, series, i)
        /\ \A j \in 1..(i - 1) : \E g \in call[c].got : g.obs.series = series[j]
    BY <1>1, <1>3 DEF GotOK
  <1>10. /\ got = call[c].got \cup new /\ IsFiniteSet(new) /\ new # {}
         /\ \A g \in new : g.obs.series = series[i]
         /\ \A g, h \in new : g = h
    BY <1>3, <1>6, <1>7, <1>8 DEF Adds
  <1>11. GotBefore(got, series, i + 1)
    <2>1. GotBefore(call[c].got \cup new, series, i + 1)
      BY <1>4, <1>9, <1>10, GotNext
    <2> QED BY <1>10, <2>1
  <1>12. \A j \in 1..i : \E g \in got : g.obs.series = series[j]
    <2> SUFFICES ASSUME NEW j \in 1..i
                 PROVE  \E g \in got : g.obs.series = series[j]
      OBVIOUS
    <2>1. CASE j = i
      BY <1>10, <2>1
    <2>2. CASE j # i
      <3>1. j \in 1..(i - 1)
        BY <1>4, <2>2
      <3> QED BY <1>9, <1>10, <3>1
    <2> QED BY <2>1, <2>2
  <1>13. /\ call'[c].got = got /\ call'[c].series = series
         /\ Advances(c, Len(series), "done")
    BY <1>3, <1>8, LatestMove DEF Kept, CallFields
  <1>14. CASE i < Len(series)
    <2>1. call'[c].pc = "read" /\ call'[c].i = i + 1
      BY <1>1, <1>3, <1>13, <1>14 DEF Advances
    <2>2. \A j \in 1..(call'[c].i - 1) : \E g \in got : g.obs.series = series[j]
      <3>1. call'[c].i - 1 = i
        BY <1>4, <2>1
      <3> QED BY <1>12, <3>1
    <2> QED BY <1>11, <1>13, <2>1, <2>2 DEF GotOK, Resolving, Holding
  <1>15. CASE ~(i < Len(series))
    <2>1. call'[c].pc = "done" /\ i = Len(series)
      BY <1>3, <1>4, <1>5, <1>13, <1>15 DEF Advances
    <2>2. GotAll(got, series)
      BY <1>4, <1>5, <1>11, <1>12, <2>1, GotFull
    <2> QED BY <1>13, <2>1, <2>2 DEF GotOK, Resolving, Holding
  <1> QED BY <1>14, <1>15

LEMMA StepGot ==
    ASSUME Shapes, TypeInvariant, NEW c \in Callers, GotOK(call[c]), LatestKnown,
           ReadyOK(call[c], row),
           Quiet(c) \/ Claim(c) \/ Fetch(c) \/ FailUnit(c) \/ Commit(c)
    PROVE  GotOK(call'[c])
  <1>0. CallOK(call[c])
    BY DEF TypeInvariant
  <1>1. CASE Begin(c)
    <2>1. PICK q : EndsWith(c, q.op, "invalid") \/ Starts(c, q)
      BY <1>1, BeginMove
    <2>2. CASE EndsWith(c, q.op, "invalid")
      BY <2>2, ErrorGot
    <2>3. CASE Starts(c, q)
      <3>1. /\ call'[c].pc \in {"read", "baseline", "states"} /\ call'[c].got = {}
            /\ call'[c].i = 1
        BY <2>3 DEF Starts, Kept, CallFields, Idle
      <3> QED BY <3>1, NothingGot
    <2> QED BY <2>1, <2>2, <2>3
  <1>2. CASE ReadState(c)
    <2>1. /\ call[c].pc = "states" /\ call'[c].op = call[c].op /\ call'[c].got = call[c].got
          /\ \/ call'[c].pc \in {"states", "claim"}
             \/ call'[c].pc = "read" /\ call'[c].i = 1
      BY <1>2, StateMove DEF Kept, CallFields, Advances
    <2>2. CASE call'[c].pc \in {"states", "claim"}
      BY <2>1, <2>2, ResolvingGot DEF Resolving
    <2>3. CASE call'[c].pc = "read" /\ call'[c].i = 1 /\ call[c].op = "latest"
      <3>1. call[c].got = {}
        BY <2>1, <2>3 DEF GotOK, Resolving
      <3> QED BY <2>1, <2>3, <3>1, NothingGot
    <2>4. CASE call[c].op # "latest"
      BY <2>1, <2>4 DEF GotOK
    <2> QED BY <2>1, <2>2, <2>3, <2>4
  <1>3. CASE ReadBaseline(c) \/ CheckBlocked(c) \/ BlockProvider(c) \/ Fetch(c)
    <2>1. /\ call[c].pc \in Resolving /\ call'[c].pc \in Resolving
          /\ call'[c].op = call[c].op /\ call'[c].got = call[c].got
      <3>1. CASE ReadBaseline(c)
        <4>1. /\ call[c].pc = "baseline" /\ call'[c].pc \in {"baseline", "states"}
              /\ Kept(call[c], call'[c], {"pc", "i", "base"})
          BY <3>1, BaselineMove DEF Advances
        <4> QED BY <4>1 DEF Kept, CallFields, Resolving
      <3>2. CASE CheckBlocked(c) \/ BlockProvider(c)
        BY <3>2, CheckMove, BlockMove DEF Kept, CallFields, Resolving, Holding
      <3>3. CASE Fetch(c)
        <4>1. /\ call[c].pc = "fetch" /\ call'[c].pc \in {"fail", "block", "insert"}
              /\ Kept(call[c], call'[c], {"pc", "i", "err", "reply"})
          BY <3>3, FetchMove DEF Accepted, Kept
        <4> QED BY <4>1 DEF Kept, CallFields, Resolving, Holding
      <3> QED BY <1>3, <3>1, <3>2, <3>3
    <2> QED BY <2>1, ResolvingGot
  <1>4. CASE Insert(c) \/ FailUnit(c) \/ Commit(c) \/ Claim(c)
    <2>1. call[c].pc \in Resolving
      BY <1>4, InsertMove, FailUnitMove, CommitMove, ClaimMove DEF Resolving, Holding
    <2>2. CASE \E e : e # "none" /\ FailsBy(c, e)
      BY <2>1, <2>2, FailureGot
    <2>3. CASE \A e : e # "none" => ~FailsBy(c, e)
      <3>1. /\ call'[c].pc \in {"commit", "fail", "states", "fetch", "check"}
            /\ call'[c].op = call[c].op /\ call'[c].got = call[c].got
        <4>1. CASE Insert(c)
          BY <2>3, <4>1, InsertMove DEF Kept, CallFields
        <4>2. CASE FailUnit(c)
          <5>1. call[c].pc = "fail" /\ call[c].err # "none"
            BY <1>0, <4>2, FailUnitMove DEF CallOK, PlaceOK
          <5>2. Kept(call[c], call'[c], {"i"})
            BY <2>3, <4>2, <5>1, FailUnitMove
          <5> QED BY <5>1, <5>2 DEF Kept, CallFields
        <4>3. CASE Commit(c)
          <5>1. Commits(c)
            BY <2>3, <4>3, CommitMove
          <5>2. /\ call'[c].pc \in {"states", "fetch"}
                /\ Kept(call[c], call'[c], {"pc", "i", "batches", "reply", "inserts"})
            BY <5>1 DEF Commits
          <5> QED BY <5>2 DEF Kept, CallFields
        <4>4. CASE Claim(c)
          BY <2>3, <4>4, ClaimMove DEF Kept, CallFields
        <4> QED BY <1>4, <4>1, <4>2, <4>3, <4>4
      <3> QED BY <2>1, <3>1, ResolvingGot DEF Resolving, Holding
    <2> QED BY <2>2, <2>3
  <1>5. CASE ReadFallback(c) \/ ReadFlag(c) \/ ReadLatest(c)
    BY <1>5, FallbackGot, FlagGot, LatestGot
  <1>6. CASE ReadRange(c)
    <2>1. call'[c].op # "latest"
      BY <1>6, RangeMove DEF Kept, CallFields
    <2> QED BY <2>1 DEF GotOK
  <1>7. CASE FallbackBreaks(c)
    <2>1. call[c].pc \in {"fallback", "flags"} /\ GivesUpBy(c)
      BY <1>7, BreaksMove
    <2>2. call[c].err # "none"
      BY <1>0, <2>1 DEF CallOK, PlaceOK
    <2> QED BY <2>1, <2>2, GiveUpGot
  <1>8. CASE Interrupt(c)
    <2>1. call[c].pc \in Resolving
      BY <1>8, InterruptMove DEF Resolving, Holding
    <2> QED BY <1>8, <2>1, InterruptMove, ErrorGot, FailureGot
  <1> QED BY <1>1, <1>2, <1>3, <1>4, <1>5, <1>6, <1>7, <1>8 DEF Quiet

-----------------------------------------------------------------------------
(* Observations are never taken back.                                       *)

Lasting == \A s \in Series, d \in Days : history[s][d] # <<>> => history'[s][d] # <<>>

LEMMA CommitLasts ==
    ASSUME Shapes, TypeInvariant, NEW c \in Callers, Commits(c)
    PROVE  /\ Lasting
           /\ \A s \in Series, d \in Days : \A o \in call[c].inserts :
                 o.series = s /\ o.day = d => history'[s][d] # <<>>
  <1> SUFFICES ASSUME NEW s \in Series, NEW d \in Days
               PROVE  /\ history[s][d] # <<>> => history'[s][d] # <<>>
                      /\ \A o \in call[c].inserts :
                            o.series = s /\ o.day = d => history'[s][d] # <<>>
    BY DEF Lasting
  <1>1. PICK h, new : /\ h = history[s][d]
                      /\ new = {o \in call[c].inserts : o.series = s /\ o.day = d}
    OBVIOUS
  <1>2. history'[s][d] = IF new = {} THEN h ELSE Append(h, (CHOOSE o \in new : TRUE).value)
    BY <1>1 DEF Commits
  <1>3. h \in Seq(Values)
    BY <1>1 DEF TypeInvariant, StoreOK
  <1>4. \A x : Append(h, x) # <<>>
    <2> SUFFICES ASSUME NEW x
                 PROVE  Append(h, x) # <<>>
      OBVIOUS
    <2>1. PICK S : S = Values \cup {x}
      OBVIOUS
    <2>2. h \in Seq(S) /\ x \in S
      BY <1>3, <2>1
    <2>3. Len(Append(h, x)) = Len(h) + 1 /\ Len(h) \in Nat
      BY <2>2
    <2>4. Len(<<>>) = 0
      OBVIOUS
    <2> QED BY <2>3, <2>4
  <1>5. CASE new = {}
    BY <1>1, <1>2, <1>5
  <1>6. CASE new # {}
    BY <1>2, <1>4, <1>6
  <1> QED BY <1>5, <1>6

LEMMA HistoryLasts ==
    ASSUME Shapes, TypeInvariant, [Next]_vars
    PROVE  Lasting
  <1>1. CASE history' = history
    BY <1>1 DEF Lasting
  <1>2. ASSUME NEW c \in Callers, Quiet(c) \/ Claim(c) \/ Fetch(c) \/ FailUnit(c)
        PROVE  history' = history
    BY <1>2, QuietKeeps DEF Claim, Fetch, FailUnit, store
  <1>3. ASSUME NEW c \in Callers, Commit(c)
        PROVE  Lasting
    BY <1>1, <1>3, CommitMove, CommitLasts
  <1>4. CASE WaitsEnd \/ (\E key \in Keys : FreshnessEnds(key)) \/ NextDay \/ UNCHANGED vars
    BY <1>1, <1>4, TimeParts
  <1> QED BY <1>1, <1>2, <1>3, <1>4, NextIs

LEMMA LatestKeyIs == \A s \in Series : LatestKey(s) \in Keys
  BY DEF LatestKey, Keys

LEMMA KnownStays ==
    ASSUME LatestKnown, Lasting, \A k \in Keys : row'[k].done = row[k].done
    PROVE  LatestKnown'
  <1> SUFFICES ASSUME NEW s \in Series, row'[LatestKey(s)].done > 0
               PROVE  \E d \in Days : history'[s][d] # <<>>
    BY DEF LatestKnown, LatestKey
  <1>1. row[LatestKey(s)].done > 0
    BY LatestKeyIs
  <1>2. PICK d \in Days : history[s][d] # <<>>
    BY <1>1 DEF LatestKnown
  <1> QED BY <1>2 DEF Lasting

\* A completed latest unit has an observation, just inserted or equal to one stored.
LEMMA CommitKnown ==
    ASSUME Shapes, TypeInvariant, LatestKnown, NEW c \in Callers, call[c].pc = "commit",
           RecordedOK(c), Commits(c)
    PROVE  LatestKnown'
  <1> SUFFICES ASSUME NEW s \in Series, row'[LatestKey(s)].done > 0
               PROVE  \E d \in Days : history'[s][d] # <<>>
    BY DEF LatestKnown, LatestKey
  <1>1. PICK k : k = LatestKey(s) /\ k \in Keys
    BY LatestKeyIs
  <1>2. /\ Lasting
        /\ \A d \in Days : \A o \in call[c].inserts :
              o.series = s /\ o.day = d => history'[s][d] # <<>>
    BY CommitLasts
  <1>3. CASE row'[k] = row[k]
    <2>1. PICK d \in Days : history[s][d] # <<>>
      BY <1>1, <1>3 DEF LatestKnown
    <2> QED BY <1>2, <2>1 DEF Lasting
  <1>4. CASE row'[k] # row[k]
    <2>1. PICK request : request = RequestForBatch(call[c].batches[1])
      OBVIOUS
    <2>2. k \in KeysOf(call[c].batches[1])
      BY <1>1, <1>4, RowsCompleted
    <2>3. request.kind = k.kind /\ k.series \in ToSet(request.ids)
      BY <2>1, <2>2, CommitRequest
    <2>4. request.kind = "latest" /\ s \in ToSet(request.ids)
      BY <1>1, <2>3 DEF LatestKey
    <2>5. ReplyOK(call[c])
      BY DEF TypeInvariant, CallOK
    <2>6. {o.series : o \in call[c].reply.obs} = ToSet(request.ids)
      BY <2>1, <2>4, <2>5 DEF ReplyOK, RequireLatestObservations
    <2>7. PICK o \in call[c].reply.obs : o.series = s
      BY <2>4, <2>6
    <2>8. o.day \in Days
      BY <2>5, <2>7 DEF ReplyOK
    <2>9. o \in call[c].inserts \/ history[s][o.day] # <<>>
      BY <2>7 DEF RecordedOK
    <2> QED BY <1>2, <2>7, <2>8, <2>9 DEF Lasting
  <1> QED BY <1>3, <1>4

\* What a transaction is about to commit, and what it found stored already.
LEMMA CallRecorded ==
    ASSUME Shapes, TypeInvariant, NEW c \in Callers, Lasting, RecordedOK(c),
           \/ call'[c] = call[c]
           \/ Insert(c) /\ history' = history /\ CallOK(call'[c])
           \/ call'[c].pc # "commit"
    PROVE  RecordedOK(c)'
  <1>1. CASE call'[c].pc # "commit"
    BY <1>1 DEF RecordedOK
  <1>2. CASE call'[c].pc = "commit" /\ call'[c] = call[c]
    <2> SUFFICES ASSUME NEW o \in call[c].reply.obs
                 PROVE  o \in call[c].inserts \/ history'[o.series][o.day] # <<>>
      BY <1>2 DEF RecordedOK
    <2>1. o.series \in Series /\ o.day \in Days
      <3>1. ReplyOK(call[c]) /\ call[c].pc = "commit"
        BY <1>2 DEF TypeInvariant, CallOK
      <3> QED BY <3>1 DEF ReplyOK
    <2> QED BY <1>2, <2>1 DEF RecordedOK, Lasting
  <1>3. CASE call'[c].pc = "commit" /\ Insert(c) /\ history' = history /\ CallOK(call'[c])
    <2>1. /\ call'[c].inserts = {o \in call[c].reply.obs : Current(o.series, o.day) # o.value}
          /\ call'[c].reply = call[c].reply
      <3>1. CASE \E e : FailsBy(c, e)
        BY <1>3, <3>1 DEF FailsBy, EndsWith
      <3>2. CASE /\ call'[c].inserts =
                       {o \in call[c].reply.obs : Current(o.series, o.day) # o.value}
                 /\ Kept(call[c], call'[c], {"pc", "i", "inserts"})
        BY <3>2 DEF Kept, CallFields
      <3> QED BY <1>3, <3>1, <3>2, InsertMove
    <2> SUFFICES ASSUME NEW o \in call'[c].reply.obs, o \notin call'[c].inserts
                 PROVE  history'[o.series][o.day] # <<>>
      BY DEF RecordedOK
    <2>2. o.series \in Series /\ o.day \in Days /\ o.value \in Values
      <3>1. ReplyOK(call'[c])
        BY <1>3 DEF CallOK
      <3> QED BY <1>3, <3>1 DEF ReplyOK
    <2>3. Current(o.series, o.day) = o.value
      BY <2>1
    <2>4. o.value # 0
      BY <2>2, RateAssumption
    <2>5. history[o.series][o.day] # <<>>
      BY <2>2, <2>3, <2>4, CurrentKnown DEF TypeInvariant
    <2> QED BY <1>3, <2>5
  <1> QED BY <1>1, <1>2, <1>3

\* Only Insert gets a call to the place where it commits.
LEMMA CommitComesFromInsert ==
    ASSUME Shapes, NEW c \in Callers,
           Quiet(c) \/ Claim(c) \/ Fetch(c) \/ FailUnit(c) \/ Commit(c), ~Insert(c)
    PROVE  call'[c].pc # "commit"
  <1>1. CASE Quiet(c) \/ Claim(c) \/ FailUnit(c)
    <2>1. GoesOn(c)
      BY <1>1, BeginGoesOn, StatesGoOn, ReadsGoOn, ChecksGoOn, ClaimParts, FailUnitParts
         DEF Quiet
    <2>2. PICK v : IsCall(v) /\ v.pc \notin {"insert", "commit"} /\ Becomes(c, v)
      BY <2>1 DEF GoesOn
    <2>3. call'[c] = v
      BY <2>2, CallChanges
    <2> QED BY <2>2, <2>3
  <1>2. CASE Fetch(c)
    BY <1>2, FetchMove DEF Accepted
  <1>3. CASE Commit(c)
    <2>1. CASE FailsBy(c, "lost")
      BY <2>1 DEF FailsBy, EndsWith
    <2>2. CASE Commits(c)
      BY <2>2 DEF Commits
    <2> QED BY <1>3, <2>1, <2>2, CommitMove
  <1> QED BY <1>1, <1>2, <1>3

LEMMA InitAnswers ==
    ASSUME Init
    PROVE  AnswerInvariant
  <1>1. PICK v : v = CHOOSE x \in Values : TRUE
    OBVIOUS
  <1>2. PICK warm \in BOOLEAN :
          /\ row = [k \in Keys |-> IF warm /\ k.kind = "latest" /\ k.series \in WarmSeries
                                   THEN [NoRow EXCEPT !.done = 1, !.fresh = "live"]
                                   ELSE NoRow]
          /\ history = [s \in Series |-> [d \in Days |->
                           IF warm /\ s \in WarmSeries /\ d = 1 THEN <<v>> ELSE <<>>]]
          /\ call = [c \in Callers |-> Idle]
    BY <1>1 DEF Init
  <1>3. LatestKnown
    <2> SUFFICES ASSUME NEW s \in Series, row[LatestKey(s)].done > 0
                 PROVE  \E d \in Days : history[s][d] # <<>>
      BY DEF LatestKnown
    <2>1. PICK k : k = LatestKey(s)
      OBVIOUS
    <2>2. k \in Keys /\ k.series = s
      BY <2>1, LatestKeyIs DEF LatestKey
    <2>3. NoRow.done = 0
      BY DEF NoRow
    <2>4. row[k] # NoRow
      BY <2>1, <2>3
    <2>5. warm /\ s \in WarmSeries
      BY <1>2, <2>2, <2>4
    <2>6. 1 \in Days
      BY RateAssumption DEF Days
    <2>7. history[s][1] = <<v>>
      BY <1>2, <2>5, <2>6
    <2>8. <<v>> # <<>>
      OBVIOUS
    <2> QED BY <2>6, <2>7, <2>8
  <1>4. Idle.pc = "idle" /\ Idle.op = "none"
    BY DEF Idle
  <1>5. \A c \in Callers : call[c] = Idle
    BY <1>2
  <1>6. \A c \in Callers : RecordedOK(c) /\ GotOK(call[c])
    BY <1>4, <1>5 DEF RecordedOK, GotOK
  <1> QED BY <1>3, <1>6 DEF AnswerInvariant

LEMMA NextAnswers ==
    ASSUME RateInvariant, TypeInvariant, TypeInvariant', AskInvariant, AnswerInvariant,
           [Next]_vars
    PROVE  AnswerInvariant'
  <1>1. Shapes /\ Lasting /\ LatestKnown
    BY HistoryLasts DEF RateInvariant, AnswerInvariant
  <1>2. ASSUME NEW c \in Callers,
               Quiet(c) \/ Claim(c) \/ Fetch(c) \/ FailUnit(c) \/ Commit(c)
        PROVE  AnswerInvariant'
    <2>1. LatestKnown'
      <3>1. CASE Commit(c)
        <4>1. call[c].pc = "commit" /\ RecordedOK(c)
          BY <1>1, <3>1, CommitMove DEF AnswerInvariant
        <4>2. CASE Commits(c)
          BY <1>1, <4>1, <4>2, CommitKnown
        <4>3. CASE row' = row
          BY <1>1, <4>3, KnownStays
        <4> QED BY <1>1, <3>1, <4>2, <4>3, CommitMove
      <3>2. CASE Quiet(c) \/ Claim(c) \/ Fetch(c) \/ FailUnit(c)
        <4>1. \A k \in Keys : row'[k].done = row[k].done
          BY <1>1, <3>2, RowsStay
        <4> QED BY <1>1, <4>1, KnownStays
      <3> QED BY <1>2, <3>1, <3>2
    <2>2. ASSUME NEW d \in Callers
          PROVE  RecordedOK(d)' /\ GotOK(call'[d])
      <3>1. RecordedOK(d) /\ GotOK(call[d]) /\ ReadyOK(call[d], row)
        BY DEF AnswerInvariant, AskInvariant
      <3>2. CASE d # c
        <4>1. call'[d] = call[d]
          BY <1>1, <1>2, <3>2, QuietMoves DEF Moves
        <4>2. RecordedOK(d)'
          BY <1>1, <3>1, <4>1, CallRecorded
        <4> QED BY <3>1, <4>1, <4>2
      <3>3. CASE d = c
        <4>1. GotOK(call'[d])
          BY <1>1, <1>2, <3>1, <3>3, StepGot
        <4>2. CASE Insert(c)
          <5>1. history' = history
            BY <4>2, QuietKeeps DEF Quiet
          <5>2. CallOK(call'[d])
            BY DEF TypeInvariant
          <5>3. RecordedOK(d)'
            BY <1>1, <3>1, <3>3, <4>2, <5>1, <5>2, CallRecorded
          <5> QED BY <4>1, <5>3
        <4>3. CASE ~Insert(c)
          <5>1. call'[d].pc # "commit"
            BY <1>1, <1>2, <3>3, <4>3, CommitComesFromInsert
          <5>2. RecordedOK(d)'
            BY <1>1, <3>1, <5>1, CallRecorded
          <5> QED BY <4>1, <5>2
        <4> QED BY <4>2, <4>3
      <3> QED BY <3>2, <3>3
    <2> QED BY <2>1, <2>2 DEF AnswerInvariant
  <1>3. CASE WaitsEnd \/ (\E key \in Keys : FreshnessEnds(key)) \/ NextDay \/ UNCHANGED vars
    <2>1. call' = call
      BY <1>1, <1>3, TimeParts
    <2>2. \A k \in Keys : row'[k].done = row[k].done
      BY <1>1, <1>3, ClockRows
    <2>3. LatestKnown'
      BY <1>1, <2>2, KnownStays
    <2>4. ASSUME NEW d \in Callers
          PROVE  RecordedOK(d)' /\ GotOK(call'[d])
      <3>1. RecordedOK(d) /\ GotOK(call[d]) /\ call'[d] = call[d]
        BY <2>1 DEF AnswerInvariant
      <3>2. RecordedOK(d)'
        BY <1>1, <3>1, CallRecorded
      <3> QED BY <3>1, <3>2
    <2> QED BY <2>3, <2>4 DEF AnswerInvariant
  <1> QED BY <1>2, <1>3, NextIs

\* A Latest that returns observations, fresh or fallen back to, returns exactly one
\* for every series asked: a completed unit has an observation, none is ever
\* taken back, and the fallback counts what it read.
THEOREM LatestIsComplete == Spec => []AnswersAreComplete
  <1>1. Init => AnswerInvariant
    BY InitAnswers
  <1>2. RateInvariant /\ TypeInvariant /\ TypeInvariant' /\ AskInvariant /\ AnswerInvariant
          /\ [Next]_vars => AnswerInvariant'
    BY NextAnswers
  <1>3. AnswerInvariant => AnswersAreComplete
    BY DEF AnswerInvariant, AnswersAreComplete, GotOK, GotAll
  <1> QED BY <1>1, <1>2, <1>3, AsksKept, PTL DEF Spec

=============================================================================

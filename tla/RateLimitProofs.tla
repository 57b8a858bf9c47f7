--------------------------- MODULE RateLimitProofs ---------------------------
(***************************************************************************)
(* Theorems about RateLimit for every limit, every length of a minute and  *)
(* any number of requests.                                                 *)
(***************************************************************************)
EXTENDS RateLimit, TLAPS

\* A statement that acts on the row, answered or not.
Acts(window) ==
    /\ MayAdmit(window)
    /\ row' = [window |-> window, count |-> CountAfter(window)]
    /\ counted' = [counted EXCEPT ![window] = @ + 1]
    /\ overtaken' = (overtaken \/ window < row.window)

\* What a statement reads of the row before it acts.
CoreType ==
    /\ row \in [window : Minutes \cup {-1}, count : 0 .. Limit]
    /\ counted \in [Minutes -> Nat]
    /\ overtaken \in BOOLEAN

LEMMA ActsKeepsCounts ==
    ASSUME CoreType, CountsAreKept, NEW window \in Minutes, Acts(window)
    PROVE  CoreType' /\ CountsAreKept'
  <1>1. Limit \in Nat /\ Limit >= 1 /\ Minutes \subseteq Nat
    BY RateLimitAssumption DEF Minutes
  <1>2. /\ row'.window = window
        /\ row'.count = CountAfter(window)
        /\ CountAfter(window) \in 1 .. Limit
    BY <1>1 DEF Acts, CountAfter, MayAdmit, CoreType
  <1>3. /\ counted'[window] = counted[window] + 1
        /\ \A m \in Minutes \ {window} : counted'[m] = counted[m]
        /\ counted' \in [Minutes -> Nat]
    BY DEF Acts, CoreType
  <1>4. CoreType'
    BY <1>1, <1>2, <1>3 DEF CoreType, Acts
  <1>5. counted'[window] >= CountAfter(window)
    BY <1>1, <1>3 DEF CountsAreKept, CountAfter, CoreType
  <1>6. ASSUME ~ overtaken', NEW m \in Minutes
        PROVE  /\ counted'[m] <= Limit
               /\ m = window => counted'[m] = CountAfter(window)
               /\ m > window => counted'[m] = 0
    <2>1. ~ overtaken /\ ~ (window < row.window)
      BY <1>6 DEF Acts
    <2>0. row.window \in Int /\ window \in Int /\ m \in Int
      <3>1. row.window \in Minutes \cup {-1}
        BY DEF CoreType
      <3>2. Minutes \subseteq Int
        BY RateLimitAssumption DEF Minutes
      <3>3. CASE row.window \in Minutes
        BY <3>2, <3>3
      <3>4. CASE row.window = -1
        BY <3>2, <3>4
      <3> QED BY <3>1, <3>3, <3>4
    <2>2. row.window = window \/ window > row.window
      BY <2>0, <2>1
    <2>3. counted'[window] = CountAfter(window)
      BY <1>1, <1>3, <2>1, <2>2 DEF CountsAreKept, CountAfter, CoreType
    <2>4. CASE m = window
      BY <1>1, <1>2, <2>3, <2>4
    <2>5. CASE m # window
      <3>1. counted'[m] = counted[m] /\ counted[m] <= Limit
        BY <1>3, <2>1, <2>5 DEF CountsAreKept
      <3>2. m > window => m > row.window
        BY <2>0, <2>2
      <3>3. m > row.window => counted[m] = 0
        BY <2>1 DEF CountsAreKept
      <3> QED BY <2>5, <3>1, <3>2, <3>3
    <2> QED BY <2>4, <2>5
  <1>7. CountsAreKept'
    BY <1>1, <1>2, <1>5, <1>6 DEF CountsAreKept
  <1> QED BY <1>4, <1>7

\* The part of the state that carries the argument.
CountInvariant ==
    /\ CoreType
    /\ CountsAreKept
    /\ stamp \in [Requests -> [minute : Minutes, tick : 0 .. TicksPerMinute - 1]]
    /\ minute \in Minutes
    /\ tick \in 0 .. TicksPerMinute - 1
    /\ pc \in [Requests -> {"idle", "sent", "admitted", "refused", "unavailable"}]
    /\ RefusedOnlyAtLimit

LEMMA InitCounts == Init => CountInvariant
  <1> SUFFICES ASSUME Init PROVE CountInvariant
    OBVIOUS
  <1>1. 0 \in Minutes /\ -1 \notin Minutes /\ Limit \in Nat
    BY RateLimitAssumption DEF Minutes
  <1>2. TicksPerMinute \in Nat \ {0}
    BY RateLimitAssumption DEF TicksPerMinute
  <1>3. CoreType
    <2>1. row \in [window : Minutes \cup {-1}, count : 0 .. Limit]
      BY <1>1 DEF Init, NoRow
    <2>2. counted \in [Minutes -> Nat]
      BY DEF Init
    <2>3. overtaken \in BOOLEAN
      BY DEF Init
    <2> QED BY <2>1, <2>2, <2>3 DEF CoreType
  <1>4. CountsAreKept
    BY <1>1 DEF Init, CountsAreKept, NoRow
  <1> QED BY <1>1, <1>2, <1>3, <1>4 DEF Init, CountInvariant, RefusedOnlyAtLimit

LEMMA NextCounts == CountInvariant /\ [Next]_vars => CountInvariant'
  <1> SUFFICES ASSUME CountInvariant, [Next]_vars PROVE CountInvariant'
    OBVIOUS
  <1> USE DEF CountInvariant
  <1>0. /\ LastMinute \in Nat /\ Minutes \subseteq Nat
        /\ TicksPerMinute \in Nat \ {0} /\ Limit \in Nat
    BY RateLimitAssumption DEF Minutes, TicksPerMinute
  <1>1. CASE Tick
    <2>1. minute' \in Minutes /\ tick' \in 0 .. TicksPerMinute - 1
      BY <1>0, <1>1 DEF Tick, Minutes
    <2> QED BY <1>1, <2>1 DEF Tick, CoreType, CountsAreKept, RefusedOnlyAtLimit
  <1>2. ASSUME NEW r \in Requests, Send(r)
        PROVE  CountInvariant'
    <2>1. CoreType' /\ CountsAreKept'
      BY <1>2 DEF Send, CoreType, CountsAreKept
    <2>2. RefusedOnlyAtLimit'
      BY <1>2 DEF Send, RefusedOnlyAtLimit
    <2> QED BY <1>2, <2>1, <2>2 DEF Send
  <1>3. ASSUME NEW r \in Requests, Acts(stamp[r].minute), UNCHANGED <<minute, tick, stamp>>,
               \/ pc' = [pc EXCEPT ![r] = "admitted"]
               \/ pc' = [pc EXCEPT ![r] = "unavailable"]
        PROVE  CountInvariant'
    <2>1. stamp[r].minute \in Minutes
      OBVIOUS
    <2>2. CoreType' /\ CountsAreKept'
      BY <1>3, <2>1, ActsKeepsCounts
    <2>3. \A m \in Minutes : counted'[m] >= counted[m]
      BY <1>3, <2>1 DEF Acts, CoreType
    <2>4. RefusedOnlyAtLimit'
      <3> SUFFICES ASSUME NEW x \in Requests, pc'[x] = "refused"
                   PROVE  counted'[stamp[x].minute] >= Limit
        BY <1>3 DEF RefusedOnlyAtLimit
      <3>1. pc[x] = "refused" /\ stamp[x].minute \in Minutes
        BY <1>3
      <3>2. counted[stamp[x].minute] >= Limit
        BY <3>1 DEF RefusedOnlyAtLimit
      <3>3. \A m \in Minutes : counted[m] \in Nat /\ counted'[m] \in Nat
        BY <2>2 DEF CoreType
      <3>4. \A m \in Minutes : counted[m] >= Limit => counted'[m] >= Limit
        BY <1>0, <2>3, <3>3
      <3> QED BY <3>1, <3>2, <3>4
    <2> QED BY <1>3, <2>2, <2>4
  <1>4. ASSUME NEW r \in Requests, Admit(r)
        PROVE  CountInvariant'
    BY <1>3, <1>4 DEF Admit, Acts
  <1>5. ASSUME NEW r \in Requests, Refuse(r)
        PROVE  CountInvariant'
    <2>1. CoreType' /\ CountsAreKept'
      BY <1>5 DEF Refuse, CoreType, CountsAreKept
    <2>2. stamp[r].minute \in Minutes
      OBVIOUS
    <2>3. row.window = stamp[r].minute /\ row.count >= Limit
      BY <1>0, <1>5 DEF Refuse, MayAdmit, CoreType
    <2>4. counted[stamp[r].minute] >= Limit
      BY <1>0, <2>2, <2>3 DEF CountsAreKept, CoreType
    <2>5. RefusedOnlyAtLimit'
      BY <1>5, <2>4 DEF Refuse, RefusedOnlyAtLimit
    <2> QED BY <1>5, <2>1, <2>5 DEF Refuse
  <1>6. ASSUME NEW r \in Requests, Fail(r)
        PROVE  CountInvariant'
    <2>1. CASE UNCHANGED <<row, counted, overtaken>>
      BY <1>6, <2>1 DEF Fail, CoreType, CountsAreKept, RefusedOnlyAtLimit
    <2>2. CASE ~ UNCHANGED <<row, counted, overtaken>>
      BY <1>3, <1>6, <2>2 DEF Fail, Acts
    <2> QED BY <2>1, <2>2
  <1>7. CASE UNCHANGED vars
    BY <1>7 DEF vars, CoreType, CountsAreKept, RefusedOnlyAtLimit
  <1> QED BY <1>1, <1>2, <1>4, <1>5, <1>6, <1>7 DEF Next

\* The row's count never exceeds what its minute counted, and is all of it
\* while no statement of admitRequestQuery has been overtaken.
THEOREM CountsKept == Spec => []CountInvariant
  BY InitCounts, NextCounts, PTL DEF Spec

\* For every limit: while no statement acts after the row has left its minute,
\* no minute counts more requests than the limit (G-011 in order).
THEOREM LimitHolds == Spec => []LimitHoldsInOrder
  <1>1. CountInvariant => LimitHoldsInOrder
    BY DEF CountInvariant, CountsAreKept, LimitHoldsInOrder
  <1> QED BY <1>1, CountsKept, PTL

\* For every limit and any order of statements: nobody is refused before the
\* limit of the minute is used up.
THEOREM RefusedAtLimit == Spec => []RefusedOnlyAtLimit
  <1>1. CountInvariant => RefusedOnlyAtLimit
    BY DEF CountInvariant
  <1> QED BY <1>1, CountsKept, PTL

-----------------------------------------------------------------------------
(* RetryAfter.                                                              *)

LEMMA Quotient ==
    ASSUME NEW a \in Nat, NEW b \in Nat \ {0}, NEW q, q = a \div b
    PROVE  q \in Nat /\ q * b <= a /\ a < q * b + b
  OBVIOUS

LEMMA Factor ==
    ASSUME NEW q \in Nat, NEW n \in Nat, NEW b \in Nat \ {0}, q * b < n * b + b
    PROVE  q <= n
  <1> SUFFICES ASSUME q >= n + 1
               PROVE  FALSE
    OBVIOUS
  <1>1. q * b >= (n + 1) * b
    OBVIOUS
  <1>2. (n + 1) * b = n * b + b
    OBVIOUS
  <1> QED BY <1>1, <1>2

LEMMA Product ==
    ASSUME NEW q \in Nat, NEW b \in Nat \ {0}
    PROVE  q * b \in Nat /\ (q - 1) * b = q * b - b
  OBVIOUS

\* The rounding of the query: between one second and a whole window, enough to
\* reach the next one and less than a second more.
LEMMA RetryIsEnough ==
    ASSUME NEW t \in 0 .. TicksPerMinute - 1
    PROVE  /\ RetrySeconds(t) \in 1 .. SecondsPerMinute
           /\ t + RetrySeconds(t) * TicksPerSecond >= TicksPerMinute
           /\ (RetrySeconds(t) - 1) * TicksPerSecond < TicksPerMinute
  <1>1. PICK b \in Nat \ {0}, n \in Nat \ {0} : b = TicksPerSecond /\ n = SecondsPerMinute
    BY RateLimitAssumption
  <1>2. TicksPerMinute = n * b /\ n * b \in Nat /\ b * n = n * b
    BY <1>1 DEF TicksPerMinute
  <1>3. PICK a \in Nat : a = TicksPerMinute - t + TicksPerSecond - 1
    BY <1>1, <1>2
  <1>4. a >= b /\ a < n * b + b /\ t \in Nat /\ t + a = n * b + b - 1
    BY <1>1, <1>2, <1>3
  <1>5. PICK q : q = a \div b
    OBVIOUS
  <1>6. q \in Nat /\ q * b <= a /\ a < q * b + b /\ q * b \in Nat
    BY <1>5, Quotient, Product
  <1>7. q <= n
    <2>1. q * b < n * b + b
      BY <1>2, <1>4, <1>6
    <2> QED BY <1>6, <2>1, Factor
  <1>8. q >= 1
    <2>1. q = 0 => q * b = 0
      OBVIOUS
    <2> QED BY <1>4, <1>6, <2>1
  <1>9. RetrySeconds(t) = q
    BY <1>1, <1>3, <1>5, <1>6, <1>8 DEF RetrySeconds
  <1>10. t + q * b >= n * b
    BY <1>2, <1>4, <1>6
  <1>11. (q - 1) * b < n * b
    <2>1. (q - 1) * b = q * b - b
      BY <1>6, Product
    <2> QED BY <1>2, <1>4, <1>6, <2>1
  <1> QED BY <1>1, <1>2, <1>6, <1>7, <1>8, <1>9, <1>10, <1>11

\* A refused request was told the wait of the tick of its own stamp.
WaitInvariant ==
    /\ CountInvariant
    /\ wait \in [Requests -> 0 .. SecondsPerMinute]
    /\ \A r \in Requests : pc[r] = "refused" => wait[r] = RetrySeconds(stamp[r].tick)

LEMMA InitWait == Init => WaitInvariant
  <1> SUFFICES ASSUME Init
               PROVE  WaitInvariant
    OBVIOUS
  <1>1. CountInvariant
    BY InitCounts
  <1>2. wait \in [Requests -> 0 .. SecondsPerMinute]
    BY RateLimitAssumption DEF Init
  <1> QED BY <1>1, <1>2 DEF Init, WaitInvariant

LEMMA NextWait == WaitInvariant /\ [Next]_vars => WaitInvariant'
  <1> SUFFICES ASSUME WaitInvariant, [Next]_vars
               PROVE  WaitInvariant'
    OBVIOUS
  <1>1. CountInvariant'
    BY NextCounts DEF WaitInvariant
  <1>2. /\ pc \in [Requests -> {"idle", "sent", "admitted", "refused", "unavailable"}]
        /\ stamp \in [Requests -> [minute : Minutes, tick : 0 .. TicksPerMinute - 1]]
    BY DEF WaitInvariant, CountInvariant
  <1>3. CASE UNCHANGED <<pc, stamp, wait>>
    BY <1>1, <1>3 DEF WaitInvariant
  <1>4. ASSUME NEW r \in Requests, Send(r)
        PROVE  WaitInvariant'
    <2>1. \A x \in Requests : pc'[x] = "refused" =>
              pc[x] = "refused" /\ stamp'[x] = stamp[x] /\ wait'[x] = wait[x]
      BY <1>2, <1>4 DEF Send
    <2> QED BY <1>1, <1>4, <2>1 DEF WaitInvariant, Send
  <1>5. ASSUME NEW r \in Requests, Admit(r) \/ Fail(r)
        PROVE  WaitInvariant'
    <2>1. /\ wait' = wait /\ stamp' = stamp
          /\ \A x \in Requests : pc'[x] = "refused" => pc[x] = "refused"
      BY <1>2, <1>5 DEF Admit, Fail
    <2> QED BY <1>1, <2>1 DEF WaitInvariant
  <1>6. ASSUME NEW r \in Requests, Refuse(r)
        PROVE  WaitInvariant'
    <2>1. stamp[r].tick \in 0 .. TicksPerMinute - 1
      BY <1>2
    <2>2. PICK seconds \in 0 .. SecondsPerMinute : seconds = RetrySeconds(stamp[r].tick)
      BY <2>1, RetryIsEnough, RateLimitAssumption
    <2>3. /\ wait' = [wait EXCEPT ![r] = seconds] /\ stamp' = stamp
          /\ pc' = [pc EXCEPT ![r] = "refused"]
      BY <1>6, <2>2 DEF Refuse
    <2> QED BY <1>1, <1>2, <2>2, <2>3 DEF WaitInvariant
  <1>7. \/ UNCHANGED <<pc, stamp, wait>>
        \/ \E r \in Requests : Send(r) \/ Admit(r) \/ Refuse(r) \/ Fail(r)
    BY DEF Next, Tick, vars
  <1> QED BY <1>3, <1>4, <1>5, <1>6, <1>7

LEMMA WaitsKept == Spec => []WaitInvariant
  BY InitWait, NextWait, PTL DEF Spec

\* Every variable keeps its type, for every limit and length of a minute: the
\* row's count never passes the limit and a refusal waits at most a minute.
THEOREM LimitTypeCorrect == Spec => []TypeOK
  <1>1. WaitInvariant => TypeOK
    BY DEF WaitInvariant, CountInvariant, CoreType, TypeOK
  <1> QED BY <1>1, WaitsKept, PTL

\* For every clock resolution and length of the window: whoever waits for the
\* RetryAfter of AdmitRequest comes back in a later window, and nobody is told to
\* wait longer than a window, rounded up to a second.
THEOREM RetryReachesNextWindow == Spec => []RetryAfterReachesNextWindow
  <1>1. WaitInvariant => RetryAfterReachesNextWindow
    <2> SUFFICES ASSUME WaitInvariant, NEW r \in Requests, pc[r] = "refused"
                 PROVE  /\ stamp[r].tick + wait[r] * TicksPerSecond >= TicksPerMinute
                        /\ (wait[r] - 1) * TicksPerSecond < TicksPerMinute
      BY DEF RetryAfterReachesNextWindow
    <2>1. wait[r] = RetrySeconds(stamp[r].tick) /\ stamp[r].tick \in 0 .. TicksPerMinute - 1
      BY DEF WaitInvariant, CountInvariant
    <2> QED BY <2>1, RetryIsEnough
  <1> QED BY <1>1, WaitsKept, PTL

=============================================================================

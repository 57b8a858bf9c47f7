------------------------------- MODULE Backoff -------------------------------
(***************************************************************************)
(* How long a failed delivery of an event waits before it is due again.    *)
(* Durations are milliseconds: the code's nanoseconds divide evenly, and   *)
(* stay far below 2^63.                                                    *)
(***************************************************************************)
EXTENDS Integers

MaxDelay == 300000

\* 1 << (attempt - 1) seconds for the attempts told apart.
Doublings == <<1, 2, 4, 8, 16, 32, 64, 128, 256, 512>>

Clamp(n, low, high) == IF n < low THEN low ELSE IF n > high THEN high ELSE n

\* base: doubled with every attempt up to the tenth, five minutes at most.
Base(attempt) == Clamp(Doublings[Clamp(attempt, 1, 10)], 1, 300)

\* retryDelay: three quarters of base, and up to half of it again by the FNV
\* hash of the event's reference, five minutes at most.
RetryDelay(attempt, hash) ==
    Clamp(750 * Base(attempt) + (hash % 501) * Base(attempt), 0, MaxDelay)

\* A whole number from low to high.  (The provers enumerate low..high.)
Between(n, low, high) == n \in Int /\ low <= n /\ n <= high

LEMMA BaseGrows ==
    ASSUME NEW m \in Int, NEW n \in Int, m <= n
    PROVE  /\ Between(Base(m), 1, 300)
           /\ Between(Base(n), 1, 300)
           /\ Base(m) <= Base(n)
<1>1. /\ Clamp(m, 1, 10) \in 1..10
      /\ Clamp(n, 1, 10) \in 1..10
      /\ Clamp(m, 1, 10) <= Clamp(n, 1, 10)
  BY DEF Clamp
<1>2. \A i \in 1..10 : Between(Doublings[i], 1, 512)
  BY DEF Doublings, Between
<1>3. \A i, k \in 1..10 : i <= k => Doublings[i] <= Doublings[k]
  BY DEF Doublings
<1> QED
  BY <1>1, <1>2, <1>3 DEF Base, Clamp, Between

LEMMA JitterBounds ==
    ASSUME NEW hash \in Nat
    PROVE  Between(hash % 501, 0, 500)
  BY DEF Between

\* Products of the size that occur here, without the definitions around them.
LEMMA ProductGrows ==
    ASSUME NEW j, Between(j, 0, 500), NEW b, NEW d,
           Between(b, 1, 300), Between(d, 1, 300), b <= d
    PROVE  /\ j * b \in Int /\ j * d \in Int
           /\ 0 <= j * b
           /\ j * b <= j * d
  BY DEF Between

\* Whatever the attempt counter and the hash are, a failed delivery waits at
\* least three quarters of a second and at most five minutes: jitter is added
\* below the cap and never takes the delay past it (retryDelay).
THEOREM RetryDelayBounds ==
    ASSUME NEW attempt \in Int, NEW hash \in Nat
    PROVE  Between(RetryDelay(attempt, hash), 750, MaxDelay)
<1>1. Between(Base(attempt), 1, 300)
  BY BaseGrows
<1>2. Between(hash % 501, 0, 500)
  BY JitterBounds
<1>3. (hash % 501) * Base(attempt) \in Int /\ 0 <= (hash % 501) * Base(attempt)
  BY <1>1, <1>2, ProductGrows DEF Between
<1> QED
  BY <1>1, <1>3 DEF RetryDelay, Clamp, MaxDelay, Between

\* An event that fails again never waits less than before: the jitter depends on
\* the event alone, so the doubling is not undone from one attempt to the next
\* (retryDelay).
THEOREM RetryDelayGrows ==
    ASSUME NEW m \in Int, NEW n \in Int, m <= n, NEW hash \in Nat
    PROVE  RetryDelay(m, hash) <= RetryDelay(n, hash)
<1>1. Between(Base(m), 1, 300) /\ Between(Base(n), 1, 300) /\ Base(m) <= Base(n)
  BY BaseGrows
<1>2. /\ (hash % 501) * Base(m) \in Int
      /\ (hash % 501) * Base(n) \in Int
      /\ (hash % 501) * Base(m) <= (hash % 501) * Base(n)
  BY <1>1, JitterBounds, ProductGrows
<1> QED
  BY <1>1, <1>2 DEF RetryDelay, Clamp, MaxDelay, Between

==============================================================================

-------------------------- MODULE AdmissionProofs --------------------------
(***************************************************************************)
(* Proofs about what stands before the Concierge and turns requests away:  *)
(* the rate limiter of the admin endpoints, and the relay shim with its    *)
(* circuit breaker.  The two share no state.                               *)
(***************************************************************************)
EXTENDS RateLimiter, RelayShim, FiniteSetTheorems, TLAPS

-----------------------------------------------------------------------------
(* The sliding window, its refusals and the wait it asks for, for every     *)
(* limit, window, clock and set of keys.                                    *)

\* The types of what the bound is about.
LimiterTypes ==
    /\ now \in Nat
    /\ served \in [Keys -> Seq(Nat)]
    /\ entries \in [Keys -> SUBSET Nat]

\* Times are served in the order of the clock.
Ordered ==
    \A k \in Keys : \A i \in DOMAIN served[k] :
        /\ served[k][i] <= now
        /\ \A j \in DOMAIN served[k] : i <= j => served[k][i] <= served[k][j]

\* The limiter forgets nothing that is not older than a window, and keeps
\* finitely many requests.
KeepsRecent ==
    \A k \in Keys :
        /\ entries[k] \subseteq DOMAIN served[k]
        /\ \A i \in DOMAIN served[k] : served[k][i] >= now - Window => i \in entries[k]

LimiterInv == LimiterTypes /\ Ordered /\ KeepsRecent /\ WindowRespected

\* The counting argument: if the request Limit places before the next one is
\* in the window, then so are all since, which fills the limiter.
LEMMA WindowFull ==
    ASSUME LimiterInv, NEW key \in Keys, NEW i \in DOMAIN served[key],
           i + Limit = Len(served[key]) + 1, served[key][i] >= now - Window
    PROVE  Cardinality(Fresh(key)) >= Limit
<1> DEFINE n == Len(served[key])
<1> USE LimiterAssumption DEF LimiterInv, LimiterTypes
<1>1. n \in Nat /\ i \in Nat /\ DOMAIN served[key] = 1..n
  OBVIOUS
<1>2. i..n \subseteq Fresh(key)
  <2> SUFFICES ASSUME NEW j \in i..n PROVE j \in Fresh(key)
    OBVIOUS
  <2>0. j \in DOMAIN served[key] /\ i <= j
    BY <1>1
  <2>1. j \in DOMAIN served[key] /\ served[key][i] <= served[key][j]
    BY <2>0 DEF Ordered
  <2>2. served[key][j] \in Nat /\ served[key][i] \in Nat
    BY <2>1
  <2>3. served[key][j] >= now - Window
    BY <2>1, <2>2
  <2> QED
    BY <2>1, <2>3 DEF Fresh, KeepsRecent
<1>3. IsFiniteSet(Fresh(key)) /\ Fresh(key) \subseteq 1..n
  <2>1. Fresh(key) \subseteq 1..n
    BY <1>1 DEF Fresh, KeepsRecent
  <2>2. IsFiniteSet(1..n)
    BY <1>1, FS_Interval
  <2> QED
    BY <2>1, <2>2, FS_Subset
<1>4. Cardinality(i..n) = Limit
  BY <1>1, FS_Interval
<1>5. Cardinality(i..n) <= Cardinality(Fresh(key))
  BY <1>2, <1>3, FS_Subset
<1>6. Cardinality(Fresh(key)) \in Nat
  BY <1>3, FS_CardinalityType
<1> QED
  BY <1>4, <1>5, <1>6

\* A request, let through or refused, keeps the window.
LEMMA AdminRequestKeepsInv ==
    ASSUME LimiterInv, NEW key \in Keys, AdminRequest(key)
    PROVE  LimiterInv'
<1> USE LimiterAssumption DEF LimiterInv, LimiterTypes
<1>1. now' = now /\ Len(served[key]) \in Nat
  BY DEF AdminRequest
<1>2. CASE Cardinality(Fresh(key)) >= Limit
  <2>1. served' = served /\ entries' = [entries EXCEPT ![key] = Fresh(key)]
    BY <1>2 DEF AdminRequest, KeptOnRefusal
  <2>2. LimiterTypes' /\ Ordered' /\ WindowRespected'
    BY <1>1, <2>1 DEF Fresh, Ordered, WindowRespected
  <2>3. KeepsRecent'
    BY <1>1, <2>1 DEF Fresh, KeepsRecent
  <2> QED
    BY <2>2, <2>3
<1>3. CASE ~(Cardinality(Fresh(key)) >= Limit)
  <2> DEFINE n == Len(served[key])
  <2>1. /\ served' = [served EXCEPT ![key] = Append(served[key], now)]
        /\ entries' = [entries EXCEPT ![key] = Fresh(key) \cup {n + 1}]
    BY <1>3 DEF AdminRequest
  <2>2. /\ served'[key] \in Seq(Nat) /\ DOMAIN served'[key] = 1..(n + 1)
        /\ DOMAIN served[key] = 1..n
        /\ served'[key][n + 1] = now
        /\ \A i \in 1..n : served'[key][i] = served[key][i] /\ served[key][i] \in Nat
    BY <1>1, <2>1
  <2>3. \A k \in Keys \ {key} : served'[k] = served[k] /\ entries'[k] = entries[k]
    BY <2>1
  <2>4. entries'[key] = Fresh(key) \cup {n + 1}
    BY <2>1
  <2>5. LimiterTypes'
    BY <1>1, <2>1 DEF Fresh
  <2>6. Ordered'
    <3>1. ASSUME NEW i \in DOMAIN served'[key], NEW j \in DOMAIN served'[key], i <= j
          PROVE  served'[key][i] <= now /\ served'[key][i] <= served'[key][j]
      <4>1. \A m \in 1..n : served[key][m] <= now
        BY <2>2 DEF Ordered
      <4>2. CASE j = n + 1
        <5>1. \A m \in 1..(n + 1) : served'[key][m] <= now
          <6>1. \A m \in 1..(n + 1) : m \in 1..n \/ m = n + 1
            BY <1>1
          <6>2. now <= now
            OBVIOUS
          <6> QED
            BY <2>2, <4>1, <6>1, <6>2
        <5>2. served'[key][j] = now
          BY <2>2, <4>2
        <5> QED
          BY <2>2, <3>1, <5>1, <5>2
      <4>3. CASE j \in 1..n
        <5>1. i \in 1..n
          BY <1>1, <2>2, <3>1, <4>3
        <5>2. served[key][i] <= served[key][j]
          BY <2>2, <3>1, <4>3, <5>1 DEF Ordered
        <5> QED
          BY <2>2, <4>1, <4>3, <5>1, <5>2
      <4> QED
        BY <1>1, <2>2, <3>1, <4>2, <4>3
    <3>2. \A i \in DOMAIN served'[key] : i <= i
      BY <1>1, <2>2
    <3> QED
      BY <1>1, <2>3, <3>1, <3>2 DEF Ordered
  <2>7. KeepsRecent'
    <3>1. ASSUME NEW i \in DOMAIN served'[key], served'[key][i] >= now - Window
          PROVE  i \in entries'[key]
      <4>1. CASE i = n + 1
        BY <2>4, <4>1
      <4>2. CASE i \in 1..n
        BY <2>2, <2>4, <3>1, <4>2 DEF Fresh, KeepsRecent
      <4> QED
        BY <1>1, <2>2, <4>1, <4>2
    <3>2. entries'[key] \subseteq DOMAIN served'[key]
      BY <1>1, <2>2, <2>4 DEF Fresh, KeepsRecent
    <3> QED
      BY <1>1, <2>3, <3>1, <3>2 DEF KeepsRecent
  <2>8. WindowRespected'
    <3>1. ASSUME NEW i \in DOMAIN served'[key], i + Limit \in DOMAIN served'[key]
          PROVE  served'[key][i + Limit] - served'[key][i] > Window
      <4>1. CASE i + Limit \in 1..n
        <5>1. i \in 1..n
          BY <1>1, <2>2, <3>1, <4>1
        <5>2. served[key][i + Limit] - served[key][i] > Window
          BY <2>2, <4>1, <5>1 DEF WindowRespected
        <5> QED
          BY <2>2, <4>1, <5>1, <5>2
      <4>2. CASE i + Limit = n + 1
        <5>1. i \in DOMAIN served[key]
          BY <1>1, <2>2, <4>2
        <5>2. ~(served[key][i] >= now - Window)
          BY <1>3, <4>2, <5>1, WindowFull
        <5>3. served'[key][i] = served[key][i] /\ served[key][i] \in Nat
          BY <2>2, <5>1
        <5>4. served'[key][i + Limit] = now
          BY <2>2, <4>2
        <5>5. now - served[key][i] > Window
          BY <5>2, <5>3
        <5> QED
          BY <5>3, <5>4, <5>5
      <4> QED
        BY <1>1, <2>2, <3>1, <4>1, <4>2
    <3> QED
      BY <2>3, <3>1 DEF WindowRespected
  <2> QED
    BY <2>5, <2>6, <2>7, <2>8
<1> QED
  BY <1>2, <1>3

\* The inductive invariant of the window.
LEMMA LimiterHolds == LimiterSpec => []LimiterInv
<1> USE LimiterAssumption
<1>1. LimiterInit => LimiterInv
  BY DEF LimiterInit, None, LimiterInv, LimiterTypes, Ordered, KeepsRecent, WindowRespected
<1>2. LimiterInv /\ [LimiterNext]_limiterVars => LimiterInv'
  <2> SUFFICES ASSUME LimiterInv, [LimiterNext]_limiterVars PROVE LimiterInv'
    OBVIOUS
  <2> USE DEF LimiterInv, LimiterTypes
  <2>1. ASSUME NEW key \in Keys, AdminRequest(key) PROVE LimiterInv'
    BY <2>1, AdminRequestKeepsInv
  <2>2. ASSUME now' \in Nat, now' >= now, UNCHANGED <<served, entries>> PROVE LimiterInv'
    <3>1. \A k \in Keys : \A i \in DOMAIN served[k] : served[k][i] \in Nat
      OBVIOUS
    <3> QED
      BY <2>2, <3>1 DEF Ordered, KeepsRecent, WindowRespected
  <2>4. CASE ClockTicks
    BY <2>2, <2>4 DEF ClockTicks
  <2>5. CASE Restart
    BY <2>5 DEF Restart, None, Ordered, KeepsRecent, WindowRespected
  <2>6. CASE UNCHANGED limiterVars
    BY <2>2, <2>6 DEF limiterVars
  <2> QED
    BY <2>1, <2>4, <2>5, <2>6 DEF LimiterNext
<1> QED
  BY <1>1, <1>2, PTL DEF LimiterSpec

\* Of any Limit + 1 requests of a key, the last came more than a window after
\* the first: the bound holds for every limit and window.
THEOREM LimiterRespectsWindow == LimiterSpec => []WindowRespected
<1>1. LimiterInv => WindowRespected
  BY DEF LimiterInv
<1> QED
  BY <1>1, LimiterHolds, PTL

-----------------------------------------------------------------------------
(* Refusals. *)

\* A refusal is about the Limit requests before it, the first of which leaves
\* the window before the refused client's wait is over; whatever passed after
\* them came later than the refusal.
RefusedFor(k, i) ==
    /\ i \in DOMAIN served[k] /\ i + Limit - 1 \in DOMAIN served[k]
    /\ served[k][i] >= refusal[k].at - Window
    /\ served[k][i + Limit - 1] <= refusal[k].at
    /\ served[k][i] + Window <= refusal[k].at + refusal[k].retryAfter * Second
    /\ \A j \in DOMAIN served[k] : j > i + Limit - 1 => served[k][j] > refusal[k].at

RefusalTypes == refusal \in [Keys -> [at: Int, retryAfter: Int]]
RefusalSpan ==
    \A k \in Keys : refusal[k] # NoRefusal =>
        /\ refusal[k].at \in Nat /\ refusal[k].at <= now
        /\ \E i \in Nat : RefusedFor(k, i)

RefusalInv == LimiterInv /\ RefusalTypes /\ RefusalSpan

\* Rounding up to whole seconds never shortens the wait.
LEMMA RoundedUp ==
    ASSUME NEW a \in Int
    PROVE  (a + Second - 1) \div Second \in Int /\ a <= ((a + Second - 1) \div Second) * Second
<1> DEFINE s == Second
           y == a + s - 1
           q == y \div s
<1>1. s \in Nat \ {0} /\ y \in Int /\ y = a + s - 1
  BY LimiterAssumption
<1> HIDE DEF s, y
<1>2. q \in Int /\ s * q <= y /\ y < s * q + s
  BY <1>1
<1> HIDE DEF q
<1>3. a <= s * q
  BY <1>1, <1>2
<1>4. a <= q * s
  BY <1>1, <1>2, <1>3
<1> QED
  BY <1>2, <1>4 DEF q, y, s

\* A wait of Retry-After lasts until the oldest request has left the window.
LEMMA WaitsLongEnough ==
    ASSUME NEW oldest \in Int, NEW t \in Int
    PROVE  /\ RetryAfter(oldest, t) \in Int
           /\ oldest + Window <= t + RetryAfter(oldest, t) * Second
<1> DEFINE a == oldest + Window - t
           up == (a + Second - 1) \div Second
<1> USE LimiterAssumption
<1>1. a \in Int
  OBVIOUS
<1>2. up \in Int /\ a <= up * Second
  BY <1>1, RoundedUp
<1>3. RetryAfter(oldest, t) = IF up < 1 THEN 1 ELSE up
  BY DEF RetryAfter
<1> HIDE DEF up
<1>4. CASE up < 1
  <2>1. up * Second <= 1 * Second
    BY <1>2, <1>4
  <2> QED
    BY <1>2, <1>3, <1>4, <2>1
<1>5. CASE ~(up < 1)
  BY <1>2, <1>3, <1>5
<1> QED
  BY <1>4, <1>5

\* A full limiter holds just the last Limit requests.
LEMMA FullIsLast ==
    ASSUME LimiterInv, NEW key \in Keys, Cardinality(Fresh(key)) >= Limit
    PROVE  LET first == Len(served[key]) - Limit + 1
           IN  /\ first \in DOMAIN served[key]
               /\ Fresh(key) = first..Len(served[key])
<1> DEFINE n == Len(served[key])
           first == n - Limit + 1
<1> USE LimiterAssumption DEF LimiterInv, LimiterTypes
<1>1. n \in Nat /\ DOMAIN served[key] = 1..n /\ first \in Int
      /\ \A i \in 1..n : served[key][i] \in Nat
  OBVIOUS
<1>2. Fresh(key) \subseteq 1..n
  BY <1>1 DEF Fresh, KeepsRecent
<1>3. ASSUME NEW m \in Int, Fresh(key) \subseteq (m + 1)..n, 0 <= m, m <= n PROVE m <= n - Limit
  <2>1. IsFiniteSet((m + 1)..n) /\ Cardinality((m + 1)..n) = n - m
    <3> DEFINE a == m + 1
    <3>1. a \in Int /\ n \in Int /\ a <= n + 1 /\ n - a + 1 = n - m
      BY <1>1, <1>3
    <3> HIDE DEF a, n
    <3>2. IsFiniteSet(a..n) /\ Cardinality(a..n) = IF a > n THEN 0 ELSE n - a + 1
      BY <3>1, FS_Interval
    <3>3. Cardinality(a..n) = n - a + 1
      BY <3>1, <3>2
    <3> QED
      BY <3>1, <3>2, <3>3 DEF a
  <2>2. Cardinality(Fresh(key)) <= n - m /\ Cardinality(Fresh(key)) \in Nat
    BY <1>3, <2>1, FS_Subset, FS_CardinalityType
  <2> QED
    BY <1>1, <2>2
<1>4. first \in 1..n
  <2>1. 0 <= n - Limit
    BY <1>1, <1>2, <1>3
  <2> QED
    BY <1>1, <2>1
<1>5. served[key][first] >= now - Window
  <2> SUFFICES ASSUME ~(served[key][first] >= now - Window) PROVE FALSE
    OBVIOUS
  <2>1. \A j \in Fresh(key) : j \in (first + 1)..n
    <3> SUFFICES ASSUME NEW j \in Fresh(key), j <= first PROVE FALSE
      BY <1>1, <1>2, <1>4
    <3>1. j \in 1..n /\ served[key][j] >= now - Window
      BY <1>2 DEF Fresh
    <3>2. served[key][j] <= served[key][first]
      BY <1>1, <1>4, <3>1 DEF Ordered
    <3> QED
      BY <1>1, <1>4, <3>1, <3>2
  <2>2. first <= n - Limit
    BY <1>1, <1>3, <1>4, <2>1
  <2> QED
    BY <1>1, <2>2
<1>6. first..n \subseteq Fresh(key)
  <2> SUFFICES ASSUME NEW j \in first..n PROVE j \in Fresh(key)
    OBVIOUS
  <2>1. j \in 1..n /\ first <= j
    BY <1>1, <1>4
  <2>2. served[key][first] <= served[key][j]
    BY <1>1, <1>4, <2>1 DEF Ordered
  <2>3. served[key][j] >= now - Window
    BY <1>1, <1>4, <1>5, <2>1, <2>2
  <2> QED
    BY <1>1, <2>1, <2>3 DEF Fresh, KeepsRecent
<1>7. Fresh(key) \subseteq first..n
  <2> SUFFICES ASSUME NEW j \in Fresh(key), j < first PROVE FALSE
    BY <1>1, <1>2, <1>4
  <2>1. j \in 1..n /\ served[key][j] >= now - Window
    BY <1>2 DEF Fresh
  <2>2. j + Limit \in 1..n
    BY <1>1, <1>4, <2>1
  <2>3. served[key][j + Limit] - served[key][j] > Window
    BY <1>1, <2>1, <2>2 DEF WindowRespected
  <2>4. served[key][j + Limit] <= now
    BY <1>1, <2>2 DEF Ordered
  <2> QED
    BY <1>1, <2>1, <2>2, <2>3, <2>4
<1> QED
  BY <1>1, <1>4, <1>6, <1>7

\* A refusal is about the requests that fill the limiter.
LEMMA RefusalIsAboutLast ==
    ASSUME RefusalInv, NEW key \in Keys, AdminRequest(key), Cardinality(Fresh(key)) >= Limit
    PROVE  RefusalTypes' /\ RefusalSpan'
<1> DEFINE n == Len(served[key])
           first == n - Limit + 1
           oldest == CHOOSE i \in Fresh(key) : \A j \in Fresh(key) : i <= j
           after == RetryAfter(served[key][oldest], now)
<1> USE LimiterAssumption
<1>1. /\ served' = served /\ now' = now
      /\ refusal' = [refusal EXCEPT ![key] = [at |-> now, retryAfter |-> after]]
  BY DEF AdminRequest
<1>2. n \in Nat /\ DOMAIN served[key] = 1..n /\ now \in Nat /\ \A i \in 1..n : served[key][i] \in Nat
  BY DEF RefusalInv, LimiterInv, LimiterTypes
<1>3. first \in 1..n /\ Fresh(key) = first..n
  BY <1>2, FullIsLast DEF RefusalInv
<1>4. oldest = first
  <2>1. first \in Fresh(key) /\ \A j \in Fresh(key) : first <= j
    BY <1>2, <1>3
  <2>2. oldest \in Fresh(key) /\ \A j \in Fresh(key) : oldest <= j
    BY <2>1
  <2> HIDE DEF oldest
  <2> QED
    BY <1>2, <1>3, <2>1, <2>2
<1> HIDE DEF oldest
<1>5. after \in Int /\ served[key][first] + Window <= now + after * Second
  <2> DEFINE t == served[key][first]
  <2>1. t \in Int /\ now \in Int /\ after = RetryAfter(t, now)
    BY <1>2, <1>3, <1>4
  <2> HIDE DEF t, after
  <2> QED
    BY <2>1, WaitsLongEnough DEF t
<1> HIDE DEF after
<1>6. RefusalTypes'
  BY <1>1, <1>2, <1>5 DEF RefusalInv, RefusalTypes
<1>7. refusal'[key] = [at |-> now, retryAfter |-> after] /\ \A k \in Keys \ {key} : refusal'[k] = refusal[k]
  BY <1>1 DEF RefusalInv, RefusalTypes
<1>8. RefusedFor(key, first)'
  <2>1. served[key][first] >= now - Window
    <3>1. first \in Fresh(key)
      BY <1>2, <1>3
    <3> QED
      BY <3>1 DEF Fresh
  <2>2. first + Limit - 1 = n /\ n \in 1..n
    BY <1>2, <1>3
  <2>3. served[key][n] <= now
    BY <1>2, <2>2 DEF RefusalInv, LimiterInv, Ordered
  <2>4. \A j \in 1..n : ~(j > n)
    BY <1>2
  <2> QED
    BY <1>1, <1>2, <1>3, <1>5, <1>7, <2>1, <2>2, <2>3, <2>4 DEF RefusedFor
<1>9. ASSUME NEW k \in Keys \ {key}, NEW i \in Nat, RefusedFor(k, i) PROVE RefusedFor(k, i)'
  BY <1>1, <1>7, <1>9 DEF RefusedFor
<1>10. first \in Nat
  BY <1>3
<1> QED
  BY <1>1, <1>2, <1>6, <1>7, <1>8, <1>9, <1>10 DEF RefusalInv, RefusalSpan

\* A request that passes comes after the refusal before it.
LEMMA PassesAfterRefusal ==
    ASSUME RefusalInv, NEW key \in Keys, AdminRequest(key), ~(Cardinality(Fresh(key)) >= Limit)
    PROVE  RefusalTypes' /\ RefusalSpan'
<1> DEFINE n == Len(served[key])
<1> USE LimiterAssumption
<1>1. /\ served' = [served EXCEPT ![key] = Append(served[key], now)]
      /\ refusal' = refusal /\ now' = now
  BY DEF AdminRequest
<1>2. /\ n \in Nat /\ DOMAIN served[key] = 1..n /\ now \in Nat
      /\ \A i \in 1..n : served[key][i] \in Nat
      /\ served \in [Keys -> Seq(Nat)]
  BY DEF RefusalInv, LimiterInv, LimiterTypes
<1>3. /\ DOMAIN served'[key] = 1..(n + 1) /\ served'[key][n + 1] = now
      /\ \A i \in 1..n : served'[key][i] = served[key][i]
      /\ \A k \in Keys \ {key} : served'[k] = served[k]
  BY <1>1, <1>2
<1>4. ASSUME NEW i \in Nat, refusal[key] # NoRefusal, RefusedFor(key, i) PROVE RefusedFor(key, i)'
  <2>1. /\ i \in 1..n /\ i + Limit - 1 \in 1..n
        /\ served[key][i] >= refusal[key].at - Window
        /\ \A j \in 1..n : j > i + Limit - 1 => served[key][j] > refusal[key].at
    BY <1>2, <1>4 DEF RefusedFor
  <2>2. refusal[key].at \in Nat /\ refusal[key].at <= now
    BY <1>4 DEF RefusalInv, RefusalSpan
  <2>3. now > refusal[key].at
    <3> SUFFICES ASSUME now = refusal[key].at PROVE FALSE
      BY <1>2, <2>2
    <3>1. i + Limit = n + 1
      <4>1. ~(n > i + Limit - 1)
        <5> SUFFICES ASSUME n > i + Limit - 1 PROVE FALSE
          OBVIOUS
        <5>1. n \in 1..n /\ served[key][n] > refusal[key].at
          BY <1>2, <2>1
        <5>2. served[key][n] <= now /\ served[key][n] \in Nat
          BY <1>2, <5>1 DEF RefusalInv, LimiterInv, Ordered
        <5> QED
          BY <1>2, <5>1, <5>2
      <4>2. i + Limit - 1 <= n /\ i \in Nat /\ n \in Nat
        BY <1>2, <2>1
      <4> HIDE DEF n
      <4> QED
        BY <4>1, <4>2
    <3> QED
      BY <1>2, <2>1, <3>1, WindowFull DEF RefusalInv
  <2>4. i \in 1..(n + 1) /\ i + Limit - 1 \in 1..(n + 1)
    BY <1>2, <2>1
  <2>5. \A j \in 1..(n + 1) : j > i + Limit - 1 => served'[key][j] > refusal[key].at
    <3> SUFFICES ASSUME NEW j \in 1..(n + 1), j > i + Limit - 1 PROVE served'[key][j] > refusal[key].at
      OBVIOUS
    <3>1. CASE j \in 1..n
      BY <1>3, <2>1, <3>1
    <3>2. CASE j = n + 1
      BY <1>3, <2>3, <3>2
    <3> QED
      BY <1>2, <3>1, <3>2
  <2> QED
    BY <1>1, <1>2, <1>3, <1>4, <2>1, <2>4, <2>5 DEF RefusedFor
<1>5. ASSUME NEW k \in Keys \ {key}, NEW i \in Nat, RefusedFor(k, i) PROVE RefusedFor(k, i)'
  BY <1>1, <1>3, <1>5 DEF RefusedFor
<1>6. RefusalTypes'
  BY <1>1 DEF RefusalInv, RefusalTypes
<1> QED
  BY <1>1, <1>4, <1>5, <1>6 DEF RefusalInv, RefusalSpan

\* The inductive invariant of the refusals.
LEMMA RefusalsHold == LimiterSpec => []RefusalInv
<1> USE LimiterAssumption
<1>1. LimiterInit => RefusalTypes /\ RefusalSpan
  BY DEF LimiterInit, NoRefusal, RefusalTypes, RefusalSpan
<1>2. RefusalInv /\ [LimiterNext]_limiterVars => RefusalTypes' /\ RefusalSpan'
  <2> SUFFICES ASSUME RefusalInv, [LimiterNext]_limiterVars PROVE RefusalTypes' /\ RefusalSpan'
    OBVIOUS
  <2>1. ASSUME NEW key \in Keys, AdminRequest(key) PROVE RefusalTypes' /\ RefusalSpan'
    BY <2>1, RefusalIsAboutLast, PassesAfterRefusal
  <2>2. ASSUME now' \in Nat, now' >= now, UNCHANGED <<served, refusal>>
        PROVE  RefusalTypes' /\ RefusalSpan'
    <3>1. now \in Nat
      BY DEF RefusalInv, LimiterInv, LimiterTypes
    <3>2. ASSUME NEW k \in Keys, NEW i \in Nat, RefusedFor(k, i) PROVE RefusedFor(k, i)'
      BY <2>2, <3>2 DEF RefusedFor
    <3> QED
      BY <2>2, <3>1, <3>2 DEF RefusalInv, RefusalTypes, RefusalSpan
  <2>3. CASE ClockTicks
    BY <2>2, <2>3 DEF ClockTicks, RefusalInv, LimiterInv, LimiterTypes
  <2>4. CASE Restart
    BY <2>4 DEF Restart, NoRefusal, RefusalTypes, RefusalSpan
  <2>5. CASE UNCHANGED limiterVars
    BY <2>2, <2>5 DEF limiterVars, RefusalInv, LimiterInv, LimiterTypes
  <2> QED
    BY <2>1, <2>3, <2>4, <2>5 DEF LimiterNext
<1> QED
  BY <1>1, <1>2, LimiterHolds, PTL DEF LimiterSpec, RefusalInv

\* Whoever is refused had Limit requests pass in the window before.
THEOREM RefusalsAreFair == LimiterSpec => []RefusalsFair
<1>1. RefusalInv => RefusalsFair
  BY DEF RefusalInv, RefusalSpan, RefusedFor, RefusalsFair
<1> QED
  BY <1>1, RefusalsHold, PTL

\* Whoever waits longer than Retry-After says is let through, for every window
\* and every length of a second.
THEOREM WaitingSuffices == LimiterSpec => []RetryAfterSuffices
<1> USE LimiterAssumption
<1>1. RefusalInv => RetryAfterSuffices
  <2> SUFFICES ASSUME RefusalInv, NEW k \in Keys, refusal[k] # NoRefusal,
                      now > refusal[k].at + refusal[k].retryAfter * Second,
                      \A i \in DOMAIN served[k] : served[k][i] <= refusal[k].at,
                      Cardinality(Fresh(k)) >= Limit
               PROVE  FALSE
    <3>1. ASSUME RefusalInv, NEW k \in Keys PROVE Cardinality(Fresh(k)) \in Nat
      <4>1. Fresh(k) \subseteq 1..Len(served[k]) /\ Len(served[k]) \in Nat
        BY <3>1 DEF RefusalInv, LimiterInv, LimiterTypes, KeepsRecent, Fresh
      <4>2. IsFiniteSet(1..Len(served[k]))
        BY <4>1, FS_Interval
      <4> QED
        BY <4>1, <4>2, FS_Subset, FS_CardinalityType
    <3> QED
      BY <3>1 DEF RetryAfterSuffices
  <2> DEFINE n == Len(served[k])
             w == refusal[k].retryAfter * Second
  <2>1. /\ n \in Nat /\ DOMAIN served[k] = 1..n /\ now \in Nat
        /\ \A i \in 1..n : served[k][i] \in Nat
        /\ refusal[k].retryAfter \in Int /\ refusal[k].at \in Int
    BY DEF RefusalInv, LimiterInv, LimiterTypes, RefusalTypes
  <2>2. PICK i \in Nat : RefusedFor(k, i)
    BY DEF RefusalInv, RefusalSpan
  <2>3. w \in Int /\ now > refusal[k].at + w /\ served[k][i] + Window <= refusal[k].at + w
    BY <2>1, <2>2 DEF RefusedFor
  <2> HIDE DEF w
  <2>4. n = i + Limit - 1 /\ i \in 1..n
    <3>1. i \in 1..n /\ i + Limit - 1 \in 1..n
      BY <2>1, <2>2 DEF RefusedFor
    <3>2. ~(n > i + Limit - 1)
      <4> SUFFICES ASSUME n > i + Limit - 1 PROVE FALSE
        OBVIOUS
      <4>1. n \in 1..n
        BY <2>1, <3>1
      <4>2. served[k][n] > refusal[k].at
        BY <2>1, <2>2, <4>1 DEF RefusedFor
      <4>3. served[k][n] <= refusal[k].at /\ served[k][n] \in Nat /\ refusal[k].at \in Int
        BY <2>1, <4>1
      <4> QED
        BY <4>2, <4>3
    <3> QED
      BY <2>1, <3>1, <3>2
  <2>5. i \in Fresh(k)
    BY <2>1, <2>4, FullIsLast DEF RefusalInv
  <2>6. served[k][i] >= now - Window /\ served[k][i] \in Nat
    BY <2>1, <2>4, <2>5 DEF Fresh
  <2>7. served[k][i] + Window >= now /\ refusal[k].at \in Int /\ now \in Int
    BY <2>1, <2>6
  <2> QED
    BY <2>3, <2>6, <2>7
<1> QED
  BY <1>1, RefusalsHold, PTL

-----------------------------------------------------------------------------
(* The relay shim, for every value of the thresholds.                       *)

\* A counter that has reached its threshold has opened the breaker.
CountersBelow ==
    /\ breaker.state = "closed" => breaker.consecutiveFails < FailureThreshold
    /\ breaker.state = "half-open" => breaker.halfOpenFails < HalfOpenFailureThreshold

ShimInv == TypeOK /\ OutcomeCounts /\ CountersBelow

\* What the breaker's methods make of a breaker that is in order.
InOrder(b) ==
    /\ b \in Breaker
    /\ b.state = "closed" => b.consecutiveFails < FailureThreshold
    /\ b.state = "half-open" => b.halfOpenFails < HalfOpenFailureThreshold

\* A new breaker is in order.
LEMMA NewBreakerInOrder == InOrder(NewBreaker)
BY BreakerAssumption DEF InOrder, Breaker, NewBreaker, States

\* Allow keeps the breaker in order, and lets a call through only while it is
\* not open.
LEMMA AllowKeepsOrder ==
    ASSUME NEW b, InOrder(b)
    PROVE  InOrder(AfterAllow(b)) /\ (Allows(b) => AfterAllow(b).state # "open")
<1> USE BreakerAssumption DEF InOrder, Breaker, States, AfterAllow
<1>1. CASE b.state = "open" /\ Cooled(b)
  <2>1. AfterAllow(b) = [state |-> "half-open", consecutiveFails |-> b.consecutiveFails,
                         halfOpenFails |-> 0, halfOpenSuccess |-> 0, elapsed |-> b.elapsed]
    BY <1>1
  <2> QED
    BY <2>1
<1>2. CASE ~(b.state = "open" /\ Cooled(b))
  BY <1>2 DEF Allows
<1> QED
  BY <1>1, <1>2

\* RecordSuccess keeps the breaker in order.
LEMMA SuccessKeepsOrder ==
    ASSUME NEW b, InOrder(b)
    PROVE  InOrder(AfterSuccess(b))
BY BreakerAssumption DEF InOrder, Breaker, States, AfterSuccess, Close, NewBreaker

\* A breaker that opens is in order, whatever its counters were.
LEMMA OpenKeepsOrder ==
    ASSUME NEW c \in Breaker
    PROVE  InOrder(Open(c))
<1>1. 0 \in 0..RecoveryTimeout /\ "open" \in States
  BY BreakerAssumption DEF States
<1>2. [c EXCEPT !.state = "open"] \in Breaker
  BY <1>1 DEF Breaker
<1>3. Open(c) \in Breaker
  BY <1>1, <1>2 DEF Breaker, Open
<1>4. Open(c).state = "open"
  BY DEF Breaker, Open
<1> QED
  BY <1>3, <1>4 DEF InOrder

\* RecordFailure keeps the breaker in order: it opens at the threshold.
LEMMA FailureKeepsOrder ==
    ASSUME NEW b, InOrder(b)
    PROVE  InOrder(AfterFailure(b))
<1> USE BreakerAssumption DEF InOrder, Breaker, States, AfterFailure
<1>1. CASE b.state = "closed"
  <2> DEFINE c == [b EXCEPT !.consecutiveFails = @ + 1]
  <2>1. AfterFailure(b) = IF c.consecutiveFails >= FailureThreshold
                            THEN Open(c) ELSE c
    BY <1>1
  <2>2. c \in Breaker /\ c.consecutiveFails = b.consecutiveFails + 1 /\ c.state = b.state
    OBVIOUS
  <2> HIDE DEF c
  <2>3. CASE c.consecutiveFails >= FailureThreshold
    BY <2>1, <2>2, <2>3, OpenKeepsOrder
  <2>4. CASE c.consecutiveFails < FailureThreshold
    BY <1>1, <2>1, <2>2, <2>4
  <2> QED
    BY <2>2, <2>3, <2>4
<1>2. CASE b.state = "half-open"
  <2> DEFINE c == [b EXCEPT !.halfOpenFails = @ + 1]
  <2>1. AfterFailure(b) = IF c.halfOpenFails >= HalfOpenFailureThreshold
                            THEN Open(c) ELSE c
    BY <1>2
  <2>2. c \in Breaker /\ c.halfOpenFails = b.halfOpenFails + 1 /\ c.state = b.state
    OBVIOUS
  <2> HIDE DEF c
  <2>3. CASE c.halfOpenFails >= HalfOpenFailureThreshold
    BY <2>1, <2>2, <2>3, OpenKeepsOrder
  <2>4. CASE c.halfOpenFails < HalfOpenFailureThreshold
    BY <1>2, <2>1, <2>2, <2>4
  <2> QED
    BY <2>2, <2>3, <2>4
<1>3. CASE b.state = "open"
  BY <1>3
<1> QED
  BY <1>1, <1>2, <1>3

\* Time passing changes no counter and no state.
LEMMA AgeKeepsOrder ==
    ASSUME NEW b, InOrder(b)
    PROVE  InOrder(Aged(b)) /\ Aged(b).state = b.state
BY BreakerAssumption DEF InOrder, Breaker, States, Aged, Cooled

\* The inductive step: Read is the only action that starts a request, and the
\* breaker it leaves behind is not open when it does.
LEMMA ShimInvStep == ShimInv /\ [Next]_vars => ShimInv'
<1> SUFFICES ASSUME ShimInv, [Next]_vars PROVE ShimInv'
  OBVIOUS
<1> USE DEF ShimInv, TypeOK, OutcomeCounts, CountersBelow
<1>1. InOrder(breaker)
  BY DEF InOrder
<1>2. ASSUME InOrder(breaker') PROVE CountersBelow' /\ breaker' \in Breaker
  BY <1>2 DEF InOrder
<1>3. ASSUME NEW line \in Lines, Arrive(line) PROVE ShimInv'
  BY <1>3, PendingAssumption DEF Arrive
<1>4. CASE Read
  <2>1. InOrder(breaker') /\ (busy' => breaker'.state # "open")
    BY <1>1, <1>4, AllowKeepsOrder DEF Read
  <2>2. pending' \in Seq(Lines) /\ Len(pending') <= MaxPending
    BY <1>4, PendingAssumption DEF Read
  <2> QED
    BY <1>2, <1>4, <2>1, <2>2 DEF Read
<1>5. CASE Exit
  <2>1. pending' \in Seq(Lines) /\ Len(pending') <= MaxPending
    BY <1>5, PendingAssumption DEF Exit
  <2> QED
    BY <1>2, <1>5, <2>1, NewBreakerInOrder DEF Exit
<1>6. CASE Verdict
  BY <1>1, <1>2, <1>6, SuccessKeepsOrder DEF Verdict
<1>7. CASE Failure
  BY <1>1, <1>2, <1>7, FailureKeepsOrder DEF Failure
<1>8. CASE Tick
  BY <1>1, <1>2, <1>8, AgeKeepsOrder DEF Tick
<1>9. CASE ChangeHealth
  <2>1. healthy' \in BOOLEAN
    BY <1>9 DEF ChangeHealth
  <2> QED
    BY <1>9, <2>1 DEF ChangeHealth
<1>10. CASE UNCHANGED vars
  BY <1>10 DEF vars
<1> QED
  BY <1>3, <1>4, <1>5, <1>6, <1>7, <1>8, <1>9, <1>10 DEF Next

\* The invariant holds from the start on: types, counters, outcomes.
THEOREM ShimInvariant == Spec => []ShimInv
<1>1. Init => ShimInv
  <2> SUFFICES ASSUME Init PROVE ShimInv
    OBVIOUS
  <2>1. breaker \in Breaker /\ CountersBelow
    BY NewBreakerInOrder DEF Init, CountersBelow, InOrder
  <2>2. pending \in Seq(Lines) /\ Len(pending) <= MaxPending
    BY PendingAssumption DEF Init
  <2> QED
    BY <2>1, <2>2 DEF Init, ShimInv, TypeOK, OutcomeCounts
<1> QED
  BY <1>1, ShimInvStep, PTL DEF Spec

\* The outcome of every request the shim has under way will be counted, for
\* every threshold: no answer finds the breaker open.
THEOREM EveryOutcomeCounts == Spec => []OutcomeCounts
<1>1. ShimInv => OutcomeCounts
  BY DEF ShimInv
<1> QED
  BY <1>1, ShimInvariant, PTL

\* A half-open breaker is never stuck, for every threshold.
THEOREM NeverStuckHalfOpen == Spec => []HalfOpenNotStuck
<1>1. ShimInv => HalfOpenNotStuck
  BY DEF ShimInv, CountersBelow, HalfOpenNotStuck, Allows
<1> QED
  BY <1>1, ShimInvariant, PTL

-----------------------------------------------------------------------------
(* The shim's breaker implements BreakerPromise. *)

Streak(b) ==
    CASE b.state = "closed"    -> b.consecutiveFails
      [] b.state = "half-open" -> b.halfOpenFails
      [] OTHER                 -> 0
Cooling(b) == b.state = "open" /\ ~Cooled(b)

\* Every step of the shim is a step of the promise or none.
LEMMA PromiseStep == ShimInv /\ [Next]_vars => [Promise!PNext]_(Promise!pvars)
<1> SUFFICES ASSUME ShimInv, [Next]_vars PROVE [Promise!PNext]_(Promise!pvars)
  OBVIOUS
<1> USE BreakerAssumption DEF ShimInv, TypeOK, OutcomeCounts, CountersBelow, Breaker, States
<1>1. ASSUME breaker' = breaker PROVE UNCHANGED Promise!pvars
  BY <1>1 DEF Promise!pvars, Cooled
<1>2. CASE Read
  BY <1>1, <1>2 DEF Read, AfterAllow, Cooled, Promise!pvars, Promise!PNext, Promise!Probe
<1>3. CASE Exit
  BY <1>3 DEF Exit, NewBreaker, Cooled, Promise!PNext, Promise!Reset, Promise!Closed
<1>4. CASE Verdict
  BY <1>4 DEF Verdict, AfterSuccess, Close, NewBreaker, Cooled, Promise!PNext, Promise!Succeed
<1>5. CASE Failure
  BY <1>5 DEF Failure, AfterFailure, Open, Cooled, Promise!PNext, Promise!Fail, Promise!Limit
<1>6. CASE Tick
  <2>1. CASE Cooled(breaker)
    BY <1>1, <1>6, <2>1 DEF Tick, Aged
  <2>2. CASE ~Cooled(breaker)
    BY <1>6, <2>2 DEF Tick, Aged, Cooled, Promise!pvars, Promise!PNext, Promise!Cool
  <2> QED
    BY <2>1, <2>2
<1>7. CASE UNCHANGED vars
  BY <1>1, <1>7 DEF vars
<1>8. ASSUME NEW line \in Lines, Arrive(line) PROVE UNCHANGED Promise!pvars
  BY <1>1, <1>8 DEF Arrive
<1>9. CASE ChangeHealth
  BY <1>1, <1>9 DEF ChangeHealth
<1> QED
  BY <1>2, <1>3, <1>4, <1>5, <1>6, <1>7, <1>8, <1>9 DEF Next

\* The three counters behave as the one of the promise, for every threshold,
\* also when the shim is replaced in the middle of an outage.
THEOREM ShimKeepsPromise == Spec => KeepsPromise
<1>1. Init => Promise!PInit
  BY DEF Init, NewBreaker, Promise!PInit, Promise!Closed
<1> QED
  BY <1>1, PromiseStep, ShimInvariant, PTL DEF Spec, KeepsPromise, Promise!PSpec
=============================================================================

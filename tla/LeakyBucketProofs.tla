------------------------- MODULE LeakyBucketProofs -------------------------
(***************************************************************************)
(* Proofs about LeakyBucket for any limits, durations, bursts, hits, waits,*)
(* behaviors and client clocks, and without its bound on the time.         *)
(***************************************************************************)
EXTENDS LeakyBucket, TLAPS

LEMMA DivBounds ==
    ASSUME NEW a \in Int, NEW n \in Int, n > 0
    PROVE  /\ a \div n \in Int
           /\ (a \div n) * n <= a
           /\ a < (a \div n) * n + n
  OBVIOUS

LEMMA MulMonotone ==
    ASSUME NEW a \in Int, NEW c \in Int, NEW n \in Int, n > 0
    PROVE  a <= c <=> a * n <= c * n
  OBVIOUS

\* Rounding a division up: the least whole number of steps of n that covers a.
LEMMA CeilDivLeast ==
    ASSUME NEW a \in Int, NEW n \in Int, n > 0
    PROVE  /\ CeilDiv(a, n) \in Int
           /\ \A k \in Int : CeilDiv(a, n) <= k <=> a <= k * n
<1> DEFINE d == (-a) \div n
<1>1. d \in Int /\ d * n <= -a /\ -a < d * n + n
  BY DivBounds
<1>2. CeilDiv(a, n) = -d /\ CeilDiv(a, n) \in Int
  BY <1>1 DEF CeilDiv
<1>3. ASSUME NEW k \in Int PROVE -d <= k <=> a <= k * n
  <2> HIDE DEF d
  <2>1. CASE -d <= k
    <3>1. (-d) * n <= k * n
      BY <1>1, <2>1, MulMonotone
    <3> QED BY <1>1, <2>1, <3>1
  <2>2. CASE ~(-d <= k)
    <3>1. k + 1 <= -d
      BY <1>1, <2>2
    <3>2. (k + 1) * n <= (-d) * n
      BY <1>1, <3>1, MulMonotone
    <3>3. (k + 1) * n = k * n + n
      OBVIOUS
    <3> QED BY <1>1, <2>2, <3>2, <3>3
  <2> QED BY <2>1, <2>2, Zenon
<1> QED BY <1>2, <1>3, Zenon

\* With a usable rate, a bucket is clear by k exactly if the leak up to k
\* covers its debt.
LEMMA ClearBy ==
    ASSUME NEW b \in Bucket, StoredSpeed(b) \in Nat \ {0}
    PROVE  /\ ClearAt(b) \in Int
           /\ \A k \in Int : ClearAt(b) <= k <=> b.rem + (k - b.updatedAt) * StoredSpeed(b) >= 0
<1> DEFINE v == StoredSpeed(b)
           debt == -b.rem
<1>1. b.rem \in Int /\ b.updatedAt \in Int /\ debt \in Int /\ v \in Nat \ {0}
  BY DEF Bucket
<1>2. ClearAt(b) = b.updatedAt + CeilDiv(debt, v)
  BY Zenon DEF ClearAt
<1> HIDE DEF v
<1>3. CeilDiv(debt, v) \in Int /\ \A k \in Int : CeilDiv(debt, v) <= k <=> debt <= k * v
  <2> HIDE DEF debt
  <2> QED BY <1>1, CeilDivLeast
<1>4. ASSUME NEW k \in Int
      PROVE  ClearAt(b) <= k <=> b.rem + (k - b.updatedAt) * v >= 0
  <2>1. CeilDiv(debt, v) <= k - b.updatedAt <=> debt <= (k - b.updatedAt) * v
    BY <1>1, <1>3
  <2>2. (k - b.updatedAt) * v \in Int
    BY <1>1
  <2> QED BY <1>1, <1>2, <1>3, <2>1, <2>2
<1> QED BY <1>1, <1>2, <1>3, <1>4 DEF v

\* Likewise for the moment it is full again.
LEMMA FullBy ==
    ASSUME NEW b \in Bucket, NEW v \in Nat \ {0}
    PROVE  /\ fullAt(b, v) \in Int
           /\ \A k \in Int : fullAt(b, v) <= k <=> b.rem + (k - b.updatedAt) * v >= Unit * b.burst
<1>1. b.rem \in Int /\ b.updatedAt \in Int /\ Unit * b.burst \in Int
  BY UnitAssumption DEF Bucket
<1> DEFINE gap == Unit * b.burst - b.rem
<1>2. gap \in Int
  BY <1>1
<1>3. CeilDiv(gap, v) \in Int /\ \A k \in Int : CeilDiv(gap, v) <= k <=> gap <= k * v
  <2> HIDE DEF gap
  <2> QED BY <1>2, CeilDivLeast
<1>4. fullAt(b, v) = b.updatedAt + CeilDiv(gap, v)
  BY DEF fullAt, unusableRate
<1>5. ASSUME NEW k \in Int
      PROVE  fullAt(b, v) <= k <=> b.rem + (k - b.updatedAt) * v >= Unit * b.burst
  <2>1. CeilDiv(gap, v) <= k - b.updatedAt <=> gap <= (k - b.updatedAt) * v
    BY <1>1, <1>3
  <2>2. (k - b.updatedAt) * v \in Int
    BY <1>1
  <2> QED BY <1>1, <1>3, <1>4, <2>1, <2>2
<1> QED BY <1>1, <1>3, <1>4, <1>5
-----------------------------------------------------------------------------
\* A request that reaches the algorithm.
Sound(r) ==
    /\ r.limit \in Nat /\ r.burst \in Nat /\ r.duration \in Nat \ {0}
    /\ r.hits \in Int /\ r.maxWait \in Int /\ r.createdAt \in Int
    /\ r.limit > 0 => Speed(r.limit, r.duration) >= 1

\* A bucket the algorithm left behind: within its burst, and in debt only at a usable rate.
Healthy(b) ==
    /\ b \in Bucket
    /\ b.burst >= 0 /\ b.rem <= Unit * b.burst
    /\ b.rem < 0 => StoredSpeed(b) \in Nat \ {0}

LEMMA SpeedType ==
    ASSUME NEW l \in Int, NEW d \in Int
    PROVE  Speed(l, d) \in Int /\ (l >= 0 => Speed(l, d) >= 0)
<1>1. Unit * l \in Int /\ (l >= 0 => Unit * l >= 0)
  BY UnitAssumption
<1>2. CASE d > 0
  <2>1. (Unit * l) \div d \in Int /\ Unit * l < ((Unit * l) \div d) * d + d
    BY <1>1, <1>2, DivBounds, Zenon
  <2> DEFINE q == (Unit * l) \div d
  <2>2. Speed(l, d) = q /\ q \in Int
    BY <1>2, <2>1, Zenon DEF Speed
  <2>3. ASSUME l >= 0, q < 0 PROVE FALSE
    <3>1. Unit * l < q * d + d
      BY <2>1, Zenon
    <3> HIDE DEF q
    <3>2. (q + 1) * d <= 0 * d
      BY <1>2, <2>2, <2>3, MulMonotone
    <3>3. (q + 1) * d = q * d + d /\ q * d \in Int
      BY <2>2
    <3> QED BY <1>1, <2>3, <3>1, <3>2, <3>3
  <2> QED BY <2>2, <2>3
<1>3. CASE ~(d > 0)
  BY <1>3 DEF Speed
<1> QED BY <1>2, <1>3, Zenon

LEMMA StoredSpeedType ==
    ASSUME NEW b \in Bucket
    PROVE  StoredSpeed(b) \in Int
  BY SpeedType, Zenon DEF StoredSpeed, Bucket

LEMMA RequestSpeedType ==
    ASSUME NEW r, Sound(r)
    PROVE  RequestSpeed(r) \in Nat
<1>1. r.limit \in Int /\ r.limit >= 0 /\ r.duration \in Int
  BY DEF Sound
<1>2. GregorianLength \in Int /\ GregorianLength > 0
  BY GregorianAssumption
<1>3. Speed(r.limit, r.duration) \in Nat /\ Speed(r.limit, GregorianLength) \in Nat
  <2>1. Speed(r.limit, r.duration) \in Int /\ Speed(r.limit, r.duration) >= 0
    BY <1>1, SpeedType
  <2>2. Speed(r.limit, GregorianLength) \in Int /\ Speed(r.limit, GregorianLength) >= 0
    BY <1>1, <1>2, SpeedType
  <2> QED BY <2>1, <2>2
<1>4. Speed(r.limit, GregorianLength) = (Unit * r.limit) \div GregorianLength
  BY <1>2, Zenon DEF Speed
<1> QED BY <1>3, <1>4, Zenon DEF RequestSpeed

-----------------------------------------------------------------------------
(* A bucket in debt meets a request.                                       *)

\* Leak on a debt is always credited at the stored rate.
LEMMA DebtCredit ==
    ASSUME NEW b, Healthy(b), b.rem < 0, NEW r, Sound(r), NEW t \in Int
    PROVE  /\ Credited(b, r, t) = b.rem + creditedLeak(b, t, StoredSpeed(b))
           /\ ~keepStored(b, r) /\ ~rescale(b, r) => RequestSpeed(r) = StoredSpeed(b)
           /\ ~keepStored(b, r) => RequestSpeed(r) \in Nat \ {0} /\ ~Gregorian(r)
<1>1. ~unusableRate(StoredSpeed(b))
  BY DEF Healthy, unusableRate
<1>2. ~keepStored(b, r) => ~Gregorian(r) /\ requestUsable(r)
  BY <1>1, Zenon DEF keepStored
<1>3. ~keepStored(b, r) => RequestSpeed(r) \in Nat \ {0}
  <2>1. ASSUME ~keepStored(b, r) PROVE RequestSpeed(r) > 0
    BY <1>2, <2>1, RequestSpeedType DEF RequestSpeed, requestUsable, unusableRate
  <2> QED BY <2>1, RequestSpeedType
<1>4. ASSUME ~keepStored(b, r), ~rescale(b, r) PROVE RequestSpeed(r) = StoredSpeed(b)
  <2>1. ~configChanged(b, r)
    BY <1>1, <1>2, <1>4, Zenon DEF rescale
  <2> QED BY <1>2, <1>4, <2>1, Zenon DEF configChanged, RequestSpeed, StoredSpeed
<1> QED BY <1>2, <1>3, <1>4, Zenon DEF Credited

\* Crediting leak does not move the moment a debt clears.
LEMMA CreditKeepsClear ==
    ASSUME NEW b, Healthy(b), b.rem < 0, NEW t \in Int, NEW k \in Int
    PROVE  LET v == StoredSpeed(b)
               x == b.rem + creditedLeak(b, t, v)
               u == Larger(b.updatedAt, t)
           IN  /\ x \in Int /\ u \in Int
               /\ x + (k - u) * v = b.rem + (k - b.updatedAt) * v
               /\ x >= 0 => u = t
<1> DEFINE v == StoredSpeed(b)
<1>1. v \in Int /\ b.rem \in Int /\ b.updatedAt \in Int
  BY DEF Healthy, Bucket
<1> HIDE DEF v
<1>2. CASE t <= b.updatedAt
  BY <1>1, <1>2 DEF creditedLeak, Larger, v
<1>3. CASE t > b.updatedAt
  <2>1. (t - b.updatedAt) * v + (k - t) * v = (k - b.updatedAt) * v
    BY <1>1
  <2>2. (t - b.updatedAt) * v \in Int /\ (k - t) * v \in Int
    BY <1>1
  <2>3. creditedLeak(b, t, v) = (t - b.updatedAt) * v /\ Larger(b.updatedAt, t) = t
    BY <1>1, <1>3 DEF creditedLeak, Larger
  <2> QED BY <1>1, <2>1, <2>2, <2>3 DEF v
<1> QED BY <1>1, <1>2, <1>3

\* Rescaling a debt to another rate does not move it either.
LEMMA RescaleKeepsClear ==
    ASSUME NEW x \in Int, NEW old \in Nat \ {0}, NEW new \in Nat \ {0}, NEW d \in Int
    PROVE  /\ (x * new) \div old \in Int
           /\ (x * new) \div old + d * new >= 0 <=> x + d * old >= 0
           /\ x < 0 => (x * new) \div old < 0
<1> DEFINE y == (x * new) \div old
<1>1. x * new \in Int
  OBVIOUS
<1>2. y \in Int /\ y * old <= x * new /\ x * new < y * old + old
  BY <1>1, DivBounds
<1> HIDE DEF y
<1>3. (y + d * new) * old = y * old + (d * old) * new
  BY <1>2
<1>4. (x + d * old) * new = x * new + (d * old) * new
  OBVIOUS
<1>5. ASSUME y + d * new >= 0 PROVE x + d * old >= 0
  <2>1. 0 * old <= (y + d * new) * old
    BY <1>2, <1>5, MulMonotone
  <2>2. 0 * new <= (x + d * old) * new
    BY <1>2, <1>3, <1>4, <2>1
  <2> QED BY <2>2, MulMonotone
<1>6. ASSUME x + d * old >= 0, ~(y + d * new >= 0) PROVE FALSE
  <2>1. (y + d * new + 1) * old <= 0 * old
    BY <1>2, <1>6, MulMonotone
  <2>2. (y + d * new + 1) * old = (y + d * new) * old + old
    BY <1>2
  <2>3. 0 * new <= (x + d * old) * new
    BY <1>6, MulMonotone
  <2> QED BY <1>2, <1>3, <1>4, <2>1, <2>2, <2>3
<1>7. ASSUME x < 0, ~(y < 0) PROVE FALSE
  <2>1. 0 * old <= y * old
    BY <1>2, <1>7, MulMonotone
  <2>2. (x + 1) * new <= 0 * new
    BY <1>7, MulMonotone
  <2>3. (x + 1) * new = x * new + new
    OBVIOUS
  <2> QED BY <1>2, <2>1, <2>2, <2>3
<1> QED BY <1>2, <1>5, <1>6, <1>7, Zenon DEF y

\* A rescaled debt is owed at the rate in force afterwards and clears when it
\* did before; a debt that is gone had cleared by the time of the request.
LEMMA RescaledDebt ==
    ASSUME NEW b, Healthy(b), b.rem < 0, NEW r, Sound(r), NEW t \in Int
    PROVE  LET x == Rescaled(b, r, t)
               v == IF keepStored(b, r) THEN StoredSpeed(b) ELSE RequestSpeed(r)
               u == Larger(b.updatedAt, t)
           IN  /\ x \in Int /\ u \in Int /\ v \in Nat \ {0}
               /\ x < 0 => \A k \in Int :
                              x + (k - u) * v >= 0
                              <=> b.rem + (k - b.updatedAt) * StoredSpeed(b) >= 0
               /\ x >= 0 <=> u = t /\ b.rem + (t - b.updatedAt) * StoredSpeed(b) >= 0
<1> DEFINE old == StoredSpeed(b)
           new == RequestSpeed(r)
           c == Credited(b, r, t)
           x == Rescaled(b, r, t)
           v == IF keepStored(b, r) THEN old ELSE new
           u == Larger(b.updatedAt, t)
<1>1. old \in Nat \ {0} /\ b.rem \in Int /\ b.updatedAt \in Int
  BY Zenon DEF Healthy, Bucket
<1>2. /\ c = b.rem + creditedLeak(b, t, old)
      /\ ~keepStored(b, r) /\ ~rescale(b, r) => new = old
      /\ ~keepStored(b, r) => new \in Nat \ {0}
  BY DebtCredit, Zenon
<1>3. v \in Nat \ {0}
  BY <1>1, <1>2, Zenon
<1>4. /\ c \in Int /\ u \in Int /\ (c >= 0 => u = t)
      /\ \A k \in Int : c + (k - u) * old = b.rem + (k - b.updatedAt) * old
  <2>1. ASSUME NEW k \in Int
        PROVE  /\ c \in Int /\ u \in Int /\ (c >= 0 => u = t)
               /\ c + (k - u) * old = b.rem + (k - b.updatedAt) * old
    <3> HIDE DEF c
    <3> QED BY <1>2, CreditKeepsClear
  <2> QED BY <2>1, Zenon
<1>5. x = IF rescale(b, r) /\ c < 0 THEN (c * new) \div old ELSE c
  BY Zenon DEF Rescaled
<1>6. rescale(b, r) => ~keepStored(b, r)
  BY Zenon DEF rescale, keepStored
<1> HIDE DEF old, new, c, x, u
<1>7. CASE rescale(b, r) /\ c < 0
  <2>1. v = new /\ new \in Nat \ {0} /\ x = (c * new) \div old
    BY <1>2, <1>5, <1>6, <1>7, Zenon
  <2>2. x \in Int /\ x < 0
    BY <1>1, <1>4, <1>7, <2>1, RescaleKeepsClear, Zenon
  <2>3. ASSUME NEW k \in Int
        PROVE  x + (k - u) * v >= 0 <=> b.rem + (k - b.updatedAt) * old >= 0
    <3>1. k - u \in Int
      BY <1>4
    <3>2. x + (k - u) * new >= 0 <=> c + (k - u) * old >= 0
      BY <1>1, <1>4, <2>1, <3>1, RescaleKeepsClear
    <3> QED BY <1>4, <2>1, <3>2, Zenon
  <2>4. c + (t - u) * old = b.rem + (t - b.updatedAt) * old
    BY <1>4, Zenon
  <2>5. u = t => ~(b.rem + (t - b.updatedAt) * old >= 0)
    <3>1. u = t => (t - u) * old = 0
      BY <1>1
    <3> QED BY <1>4, <1>7, <2>4, <3>1
  <2> QED BY <1>3, <1>4, <2>2, <2>3, <2>5 DEF old, new, x, u
<1>8. CASE ~(rescale(b, r) /\ c < 0)
  <2>1. x = c /\ (c < 0 => v = old)
    BY <1>2, <1>5, <1>8, Zenon
  <2>2. c + (t - u) * old = b.rem + (t - b.updatedAt) * old
    BY <1>4, Zenon
  <2>3. u = t => (t - u) * old = 0
    BY <1>1
  <2>4. u = t => (x >= 0 <=> b.rem + (t - b.updatedAt) * old >= 0)
    BY <1>4, <2>1, <2>2, <2>3
  <2>5. x < 0 => \A k \in Int : x + (k - u) * v >= 0 <=> b.rem + (k - b.updatedAt) * old >= 0
    BY <1>4, <2>1, Zenon
  <2> QED BY <1>3, <1>4, <2>1, <2>4, <2>5, Zenon DEF old, new, x, u
<1> QED BY <1>7, <1>8, Zenon
-----------------------------------------------------------------------------
(* The settled bucket.                                                     *)

LEMMA RescaledType ==
    ASSUME NEW b, Healthy(b), NEW r, Sound(r), NEW t \in Int
    PROVE  Rescaled(b, r, t) \in Int /\ (b.rem >= 0 => Rescaled(b, r, t) >= 0)
<1>1. b.rem \in Int /\ b.updatedAt \in Int
  BY Zenon DEF Healthy, Bucket
<1>2. CASE b.rem < 0
  BY <1>1, <1>2, RescaledDebt
<1>3. CASE b.rem >= 0
  <2>1. ~keepStored(b, r) /\ ~rescale(b, r)
    BY <1>1, <1>3 DEF keepStored, rescale
  <2>2. Rescaled(b, r, t) = b.rem + creditedLeak(b, t, RequestSpeed(r))
    BY <2>1, Zenon DEF Rescaled, Credited
  <2> DEFINE v == RequestSpeed(r)
  <2>3. v \in Nat
    BY RequestSpeedType, Zenon
  <2> HIDE DEF v
  <2>4. creditedLeak(b, t, v) \in Nat
    <3>1. t > b.updatedAt => (t - b.updatedAt) * v \in Nat
      BY <1>1, <2>3
    <3> QED BY <1>1, <3>1 DEF creditedLeak
  <2> QED BY <1>1, <1>3, <2>2, <2>4 DEF v
<1> QED BY <1>1, <1>2, <1>3

LEMMA SpanType ==
    ASSUME NEW r, Sound(r), NEW n \in Int
    PROVE  Span(r, n) \in Int
<1>1. GregorianLength \in Int /\ GregorianLength > 0
  BY GregorianAssumption
<1>2. n \div GregorianLength \in Int
  BY <1>1, DivBounds, Zenon
<1>3. ((n \div GregorianLength) + 1) * GregorianLength \in Int
  BY <1>1, <1>2
<1> QED BY <1>3 DEF Span, GregorianExpiration, Sound

LEMMA NewBurstType ==
    ASSUME NEW b, Healthy(b), NEW r, Sound(r), NEW t
    PROVE  NewBurst(b, r, t) \in Nat
  BY DEF NewBurst, Healthy, Bucket, Sound

LEMMA UnitTimes ==
    ASSUME NEW n \in Int
    PROVE  Unit * n \in Int /\ (n >= 0 => Unit * n >= 0)
  BY UnitAssumption

\* The settled balance: at most the burst; below zero only for a debt that
\* the leak has not cleared and no reset has forgiven, and then untouched by
\* burst and clamp.
LEMMA SettledBalance ==
    ASSUME NEW b, Healthy(b), NEW r, Sound(r), NEW t \in Int, NEW burst \in Nat
    PROVE  LET y == Settled(b, r, t, burst)
               x == Rescaled(b, r, t)
           IN  /\ y \in Int /\ y <= Unit * burst
               /\ HasBehavior(r, "RESET_REMAINING") => y = Unit * burst
               /\ y < 0 <=> x < 0 /\ ~HasBehavior(r, "RESET_REMAINING")
               /\ y < 0 => y = x
<1> DEFINE x == Rescaled(b, r, t)
           top == Unit * burst
<1>1. x \in Int /\ top \in Int /\ top >= 0 /\ Unit * (burst - b.burst) \in Int
  BY RescaledType, UnitTimes DEF Healthy, Bucket
<1>2. Shifted(b, r, t, burst) = IF b.burst # burst /\ x >= 0
                                THEN Larger(0, x + Unit * (burst - b.burst)) ELSE x
  BY Zenon DEF Shifted
<1>3. Settled(b, r, t, burst) =
        Smaller(top, IF HasBehavior(r, "RESET_REMAINING") THEN top ELSE Shifted(b, r, t, burst))
  BY Zenon DEF Settled
<1> HIDE DEF x, top
<1>4. /\ Shifted(b, r, t, burst) \in Int
      /\ Shifted(b, r, t, burst) < 0 <=> x < 0
      /\ x < 0 => Shifted(b, r, t, burst) = x
  BY <1>1, <1>2 DEF Larger
<1>5. CASE HasBehavior(r, "RESET_REMAINING")
  BY <1>1, <1>3, <1>5 DEF Smaller, top
<1>6. CASE ~HasBehavior(r, "RESET_REMAINING")
  <2>1. Settled(b, r, t, burst) = Smaller(top, Shifted(b, r, t, burst))
    BY <1>3, <1>6, Zenon
  <2> QED BY <1>1, <1>4, <1>6, <2>1 DEF Smaller, top, x
<1> QED BY <1>5, <1>6, Zenon

\* The fields of the settled bucket.
LEMMA SettleFields ==
    ASSUME NEW b, Healthy(b), NEW r, Sound(r), NEW t \in Int, NEW n \in Int
    PROVE  LET s == Settle(b, r, t, n)
           IN  /\ s \in Bucket
               /\ s.burst = NewBurst(b, r, t) /\ s.burst >= 0
               /\ s.rem = Settled(b, r, t, s.burst)
               /\ s.updatedAt = Larger(b.updatedAt, t)
               /\ s.limit = (IF Adopts(b, r, s.rem) THEN r.limit ELSE b.limit)
               /\ s.duration = (IF Adopts(b, r, s.rem) THEN r.duration ELSE b.duration)
               /\ s.expireAt = (IF r.hits # 0 /\ ~wasInDebt(b, r) THEN t + Span(r, n) ELSE b.expireAt)
<1> DEFINE burst == NewBurst(b, r, t)
           rem == Settled(b, r, t, burst)
           adopts == Adopts(b, r, rem)
           s == Settle(b, r, t, n)
<1>1. s = [limit     |-> IF adopts THEN r.limit ELSE b.limit,
           duration  |-> IF adopts THEN r.duration ELSE b.duration,
           burst     |-> burst,
           rem       |-> rem,
           updatedAt |-> Larger(b.updatedAt, t),
           expireAt  |-> IF r.hits # 0 /\ ~wasInDebt(b, r) THEN t + Span(r, n) ELSE b.expireAt]
  BY Zenon DEF Settle
<1>2. burst \in Nat
  BY NewBurstType, Zenon
<1>3. rem \in Int
  <2> HIDE DEF burst
  <2> QED BY <1>2, SettledBalance, Zenon
<1>4. Span(r, n) \in Int
  BY SpanType, Zenon
<1> HIDE DEF burst, rem, adopts, s
<1>5. /\ s.burst = burst /\ s.rem = rem
      /\ s.updatedAt = Larger(b.updatedAt, t)
      /\ s.limit = (IF adopts THEN r.limit ELSE b.limit)
      /\ s.duration = (IF adopts THEN r.duration ELSE b.duration)
      /\ s.expireAt = (IF r.hits # 0 /\ ~wasInDebt(b, r) THEN t + Span(r, n) ELSE b.expireAt)
  BY <1>1, Zenon
<1>6. s \in Bucket
  BY <1>1, <1>2, <1>3, <1>4 DEF Bucket, Healthy, Sound, Larger
<1> QED BY <1>2, <1>5, <1>6 DEF burst, rem, adopts, s
\* Two buckets that are clear by the same moments clear at the same moment.
LEMMA SameClear ==
    ASSUME NEW b \in Bucket, StoredSpeed(b) \in Nat \ {0},
           NEW c \in Bucket, StoredSpeed(c) \in Nat \ {0},
           \A k \in Int : b.rem + (k - b.updatedAt) * StoredSpeed(b) >= 0
                          <=> c.rem + (k - c.updatedAt) * StoredSpeed(c) >= 0
    PROVE  ClearAt(b) = ClearAt(c)
<1>1. ClearAt(b) \in Int /\ ClearAt(c) \in Int
  BY ClearBy, Zenon
<1>2. \A k \in Int : ClearAt(b) <= k <=> ClearAt(c) <= k
  <2>1. \A k \in Int : ClearAt(b) <= k <=> b.rem + (k - b.updatedAt) * StoredSpeed(b) >= 0
    BY ClearBy, Zenon
  <2>2. \A k \in Int : ClearAt(c) <= k <=> c.rem + (k - c.updatedAt) * StoredSpeed(c) >= 0
    BY ClearBy, Zenon
  <2> QED BY <2>1, <2>2, Zenon
<1> QED BY <1>1, <1>2

\* What settling leaves: a debt still owed clears when it did, at the rate
\* now in force, on the owner's clock; a debt gone had cleared by then.
LEMMA SettleDebt ==
    ASSUME NEW b, Healthy(b), NEW r, Sound(r), NEW n \in Int, NEW t \in Int, b.rem < 0 => t = n
    PROVE  LET s == Settle(b, r, t, n)
               v == FinalSpeed(b, r, s.rem)
           IN  /\ Healthy(s)
               /\ v \in Int
               /\ s.rem < 0 => /\ b.rem < 0 /\ ~HasBehavior(r, "RESET_REMAINING")
                               /\ v = StoredSpeed(s)
                               /\ ClearAt(s) = ClearAt(b)
               /\ s.rem >= 0 /\ b.rem < 0 /\ ~HasBehavior(r, "RESET_REMAINING")
                     => ClearAt(b) <= n
               /\ s.rem >= 0 /\ ~Gregorian(r) => v = StoredSpeed(s)
<1> DEFINE s == Settle(b, r, t, n)
           v == FinalSpeed(b, r, s.rem)
           x == Rescaled(b, r, t)
           w == IF keepStored(b, r) THEN StoredSpeed(b) ELSE RequestSpeed(r)
<1>1. /\ s \in Bucket /\ s.burst >= 0 /\ s.burst \in Nat
      /\ s.rem = Settled(b, r, t, s.burst)
      /\ s.updatedAt = Larger(b.updatedAt, t)
      /\ s.limit = (IF Adopts(b, r, s.rem) THEN r.limit ELSE b.limit)
      /\ s.duration = (IF Adopts(b, r, s.rem) THEN r.duration ELSE b.duration)
  <2> HIDE DEF s
  <2>1. s \in Bucket /\ s.burst >= 0
    BY SettleFields, Zenon DEF s
  <2>2. s.burst \in Nat
    BY <2>1 DEF Bucket
  <2> QED BY <2>1, <2>2, SettleFields DEF s
<1>2. b \in Bucket /\ b.rem \in Int /\ s.rem \in Int
  BY <1>1, Zenon DEF Healthy, Bucket
<1>3. v = IF Adopts(b, r, s.rem) THEN RequestSpeed(r) ELSE StoredSpeed(b)
  BY Zenon DEF FinalSpeed
<1> HIDE DEF s, v, x
<1>4. /\ s.rem <= Unit * s.burst
      /\ s.rem < 0 <=> x < 0 /\ ~HasBehavior(r, "RESET_REMAINING")
      /\ s.rem < 0 => s.rem = x
  BY <1>1, SettledBalance DEF x
<1>5. v \in Int
  BY <1>2, <1>3, RequestSpeedType, StoredSpeedType
<1>6. ~Gregorian(r) /\ Adopts(b, r, s.rem) => v = StoredSpeed(s)
  BY <1>1, <1>3, Zenon DEF RequestSpeed, StoredSpeed
<1>7. s.rem >= 0 => Adopts(b, r, s.rem)
  BY <1>2, Zenon DEF Adopts
<1>8. ~Adopts(b, r, s.rem) => v = StoredSpeed(s) /\ keepStored(b, r)
  BY <1>1, <1>3, Zenon DEF Adopts, StoredSpeed
<1>9. s.rem < 0 => b.rem < 0
  BY <1>2, <1>4, RescaledType DEF x
<1>10. ASSUME b.rem < 0
       PROVE  /\ x \in Int /\ w \in Nat \ {0}
              /\ x < 0 => \A k \in Int : x + (k - s.updatedAt) * w >= 0
                                <=> b.rem + (k - b.updatedAt) * StoredSpeed(b) >= 0
              /\ x >= 0 => b.rem + (n - b.updatedAt) * StoredSpeed(b) >= 0
  BY <1>1, <1>10, RescaledDebt DEF x
<1>11. ASSUME s.rem < 0
       PROVE  v = StoredSpeed(s) /\ v \in Nat \ {0} /\ ClearAt(s) = ClearAt(b)
  <2>1. b.rem < 0
    BY <1>9, <1>11, Zenon
  <2>2. Adopts(b, r, s.rem) <=> ~keepStored(b, r)
    BY <1>2, <1>11 DEF Adopts
  <2>3. v = w
    BY <1>3, <2>2, Zenon
  <2>4. v = StoredSpeed(s)
    BY <1>6, <1>8, <2>1, <2>2, DebtCredit, Zenon
  <2>5. \A k \in Int : s.rem + (k - s.updatedAt) * StoredSpeed(s) >= 0
                       <=> b.rem + (k - b.updatedAt) * StoredSpeed(b) >= 0
    <3> HIDE DEF w
    <3> QED BY <1>4, <1>10, <1>11, <2>1, <2>3, <2>4, Zenon
  <2>6. StoredSpeed(s) \in Nat \ {0} /\ StoredSpeed(b) \in Nat \ {0}
    BY <1>10, <2>1, <2>3, <2>4, Zenon DEF Healthy
  <2>7. ClearAt(s) = ClearAt(b)
    BY <1>1, <1>2, <2>5, <2>6, SameClear, Zenon
  <2> QED BY <2>4, <2>6, <2>7, Zenon
<1>12. ASSUME s.rem >= 0, b.rem < 0, ~HasBehavior(r, "RESET_REMAINING")
       PROVE  ClearAt(b) <= n
  <2>1. b.rem + (n - b.updatedAt) * StoredSpeed(b) >= 0
    BY <1>2, <1>4, <1>10, <1>12
  <2>2. StoredSpeed(b) \in Nat \ {0}
    BY <1>12, Zenon DEF Healthy
  <2> QED BY <1>2, <2>1, <2>2, ClearBy, Zenon
<1>13. Healthy(s)
  BY <1>1, <1>4, <1>11, Zenon DEF Healthy
<1> QED BY <1>4, <1>5, <1>6, <1>7, <1>9, <1>11, <1>12, <1>13, Zenon DEF s, v
\* A debt that keeps its config and burst keeps its expiry and the moment it is full.
LEMMA SettleKeepsFull ==
    ASSUME NEW b, Healthy(b), NEW r, Sound(r), NEW n \in Int, NEW t \in Int, b.rem < 0 => t = n,
           Settle(b, r, t, n).rem < 0,
           Settle(b, r, t, n).burst = b.burst, ~configChanged(b, r)
    PROVE  LET s == Settle(b, r, t, n)
           IN  /\ StoredSpeed(s) = StoredSpeed(b)
               /\ fullAt(s, StoredSpeed(s)) = fullAt(b, StoredSpeed(b))
               /\ s.expireAt = b.expireAt
<1> DEFINE s == Settle(b, r, t, n)
           v == StoredSpeed(b)
<1>1. /\ s \in Bucket /\ s.burst \in Nat
      /\ s.rem = Settled(b, r, t, s.burst)
      /\ s.updatedAt = Larger(b.updatedAt, t)
      /\ s.limit = (IF Adopts(b, r, s.rem) THEN r.limit ELSE b.limit)
      /\ s.duration = (IF Adopts(b, r, s.rem) THEN r.duration ELSE b.duration)
      /\ s.expireAt = (IF r.hits # 0 /\ ~wasInDebt(b, r) THEN t + Span(r, n) ELSE b.expireAt)
  <2> HIDE DEF s
  <2>1. s \in Bucket /\ s.burst >= 0
    BY SettleFields, Zenon DEF s
  <2>2. s.burst \in Nat
    BY <2>1 DEF Bucket
  <2> QED BY <2>1, <2>2, SettleFields DEF s
<1>2. s.rem < 0 /\ s.burst = b.burst
  BY Zenon
<1> HIDE DEF s
<1>3. /\ b.rem < 0 /\ ~HasBehavior(r, "RESET_REMAINING")
      /\ s.rem = Rescaled(b, r, t)
  <2>1. s.rem = Rescaled(b, r, t) /\ ~HasBehavior(r, "RESET_REMAINING")
    BY <1>1, <1>2, SettledBalance
  <2>2. b.rem \in Int
    BY Zenon DEF Healthy, Bucket
  <2> QED BY <1>2, <2>1, <2>2, RescaledType
<1>4. StoredSpeed(s) = v
  BY <1>1, Zenon DEF configChanged, StoredSpeed
<1>5. s.expireAt = b.expireAt
  BY <1>1, <1>3, Zenon DEF wasInDebt
<1>6. s.rem = b.rem + creditedLeak(b, t, v)
  <2>1. ~rescale(b, r)
    BY Zenon DEF rescale
  <2> QED BY <1>3, <2>1, DebtCredit, Zenon DEF Rescaled
<1>7. ASSUME NEW k \in Int
      PROVE  s.rem + (k - s.updatedAt) * v = b.rem + (k - b.updatedAt) * v
  BY <1>1, <1>3, <1>6, CreditKeepsClear
<1>8. v \in Nat \ {0} /\ b \in Bucket
  BY <1>3, Zenon DEF Healthy
<1>9. fullAt(s, v) = fullAt(b, v)
  <2> HIDE DEF v
  <2>1. /\ fullAt(s, v) \in Int
        /\ \A k \in Int : fullAt(s, v) <= k <=> s.rem + (k - s.updatedAt) * v >= Unit * s.burst
    BY <1>1, <1>8, FullBy, Zenon
  <2>2. /\ fullAt(b, v) \in Int
        /\ \A k \in Int : fullAt(b, v) <= k <=> b.rem + (k - b.updatedAt) * v >= Unit * b.burst
    BY <1>8, FullBy, Zenon
  <2>3. \A k \in Int : fullAt(s, v) <= k <=> fullAt(b, v) <= k
    BY <1>2, <1>7, <2>1, <2>2, Zenon
  <2> QED BY <2>1, <2>2, <2>3
<1> QED BY <1>4, <1>5, <1>9, Zenon DEF s

-----------------------------------------------------------------------------
(* The decision on a settled bucket.                                       *)

LEMMA WholeTokens ==
    ASSUME NEW rem \in Int, NEW h \in Int
    PROVE  /\ rem >= 0 => (h <= wholeTokens(rem) <=> Unit * h <= rem)
           /\ rem < 0 /\ h > 0 => ~(h <= wholeTokens(rem))
<1>1. Unit \in Int /\ Unit > 0 /\ Unit * h \in Int
  BY UnitAssumption
<1>2. CASE rem >= 0
  <2> DEFINE q == rem \div Unit
  <2>1. q \in Int /\ q * Unit <= rem /\ rem < q * Unit + Unit
    BY <1>1, DivBounds, Zenon
  <2>2. wholeTokens(rem) = q
    BY <1>2, Zenon DEF wholeTokens
  <2> HIDE DEF q
  <2>3. ASSUME h <= q PROVE Unit * h <= rem
    <3>1. h * Unit <= q * Unit
      BY <1>1, <2>1, <2>3, MulMonotone, Zenon
    <3> QED BY <1>1, <2>1, <3>1
  <2>4. ASSUME ~(h <= q), Unit * h <= rem PROVE FALSE
    <3>1. (q + 1) * Unit <= h * Unit
      BY <1>1, <2>1, <2>4, MulMonotone
    <3>2. (q + 1) * Unit = q * Unit + Unit /\ h * Unit = Unit * h
      BY <1>1, <2>1
    <3> QED BY <1>1, <2>1, <2>4, <3>1, <3>2
  <2> QED BY <1>2, <2>2, <2>3, <2>4
<1>3. CASE rem < 0
  <2> DEFINE q == (-rem) \div Unit
  <2>1. q \in Int /\ -rem < q * Unit + Unit
    BY <1>1, DivBounds
  <2>2. wholeTokens(rem) = -q
    BY <1>3 DEF wholeTokens
  <2> HIDE DEF q
  <2>3. q >= 0
    <3>1. SUFFICES ASSUME q < 0 PROVE FALSE
      BY <2>1
    <3>2. (q + 1) * Unit <= 0 * Unit
      BY <1>1, <2>1, <3>1, MulMonotone
    <3>3. (q + 1) * Unit = q * Unit + Unit
      BY <1>1, <2>1
    <3> QED BY <1>1, <1>3, <2>1, <3>2, <3>3
  <2> QED BY <1>3, <2>1, <2>2, <2>3
<1> QED BY <1>2, <1>3, Zenon

LEMMA FullType ==
    ASSUME NEW b \in Bucket, NEW v \in Int
    PROVE  fullAt(b, v) \in Int
<1>1. CASE v > 0
  BY <1>1, FullBy
<1>2. CASE ~(v > 0)
  BY <1>2, ForeverAssumption DEF fullAt, unusableRate
<1> QED BY <1>1, <1>2, Zenon

\* Extending the expiry changes nothing else, never shortens it, and covers
\* the moment the bucket is full.
LEMMA Extended ==
    ASSUME NEW b \in Bucket, NEW t \in Int, NEW span \in Int, NEW v \in Int
    PROVE  LET e == extendDebtExpiry(b, t, span, v)
           IN  /\ e \in Bucket
               /\ e.limit = b.limit /\ e.duration = b.duration /\ e.burst = b.burst
               /\ e.rem = b.rem /\ e.updatedAt = b.updatedAt
               /\ e.expireAt >= b.expireAt
               /\ e.expireAt >= t + span
               /\ e.expireAt >= fullAt(b, v)
               /\ fullAt(e, v) = fullAt(b, v)
<1> DEFINE e == extendDebtExpiry(b, t, span, v)
           x == Larger(Larger(b.expireAt, t + span), fullAt(b, v))
<1>1. fullAt(b, v) \in Int
  BY FullType, Zenon
<1>2. b.expireAt \in Int
  BY Zenon DEF Bucket
<1>3. x \in Int /\ x >= b.expireAt /\ x >= t + span /\ x >= fullAt(b, v)
  BY <1>1, <1>2 DEF Larger
<1>4. e = [b EXCEPT !.expireAt = x]
  BY Zenon DEF extendDebtExpiry
<1> HIDE DEF e, x
<1>5. /\ e \in Bucket
      /\ e.limit = b.limit /\ e.duration = b.duration /\ e.burst = b.burst
      /\ e.rem = b.rem /\ e.updatedAt = b.updatedAt /\ e.expireAt = x
  BY <1>3, <1>4, Zenon DEF Bucket
<1>6. fullAt(e, v) = fullAt(b, v)
  BY <1>5, Zenon DEF fullAt
<1> QED BY <1>3, <1>5, <1>6, Zenon DEF e
\* What an answer may do to the settled bucket s of a request with final
\* speed v at the owner's time n, on a key that was in debt or not.
GoodAnswer(s, r, n, v, inDebt, ans) ==
    LET o == ans.bucket
    IN  /\ ans = [bucket |-> o, status |-> ans.status, retryAfter |-> ans.retryAfter, forgave |-> ans.forgave]
        /\ o \in Bucket
        /\ o.limit = s.limit /\ o.duration = s.duration /\ o.burst = s.burst
        /\ o.updatedAt = s.updatedAt /\ o.expireAt >= s.expireAt
        /\ o.rem <= Unit * s.burst
        /\ ans.status \in {"UNDER_LIMIT", "OVER_LIMIT", "SCHEDULED", "NEVER_FITS"}
        /\ ans.retryAfter \in Nat
        /\ ans.status = "SCHEDULED" =>
              /\ r.maxWait > 0 /\ r.hits > 0 /\ v = StoredSpeed(s) /\ v \in Nat \ {0}
              /\ o.rem < 0 /\ o.expireAt >= fullAt(o, v)
              /\ ans.retryAfter \in 1 .. Ceiling
              /\ ClearAt(o) = n + ans.retryAfter
        /\ ans.status # "SCHEDULED" => IF s.rem < 0 THEN o.rem = s.rem ELSE o.rem >= 0
        /\ ans.status = "UNDER_LIMIT" /\ r.hits > 0 => s.rem >= 0
        /\ ans.status = "NEVER_FITS" \/ ans.retryAfter > 0 => r.maxWait > 0
        /\ r.hits >= 0 => IF ans.status \in {"UNDER_LIMIT", "SCHEDULED"}
                          THEN /\ o.rem = s.rem - Unit * r.hits
                               /\ r.hits > 0 => Unit * r.hits <= Unit * s.burst
                          ELSE o.rem = s.rem \/ (s.rem >= 0 /\ o.rem = 0)
        /\ ans.status = "UNDER_LIMIT" /\ r.hits > 0 /\ inDebt => o.expireAt >= fullAt(o, v)

\* The settled bucket a decision is made on.
Decidable(s, r, n, t, v) ==
    /\ Healthy(s) /\ Sound(r) /\ validateMaxWait(r)
    /\ n \in Int /\ t \in Int /\ v \in Int
    /\ s.rem < 0 => v = StoredSpeed(s)
    /\ ~Gregorian(r) => v = StoredSpeed(s)
    /\ r.maxWait > 0 => s.updatedAt >= n

LEMMA AnswerFields ==
    ASSUME NEW b, NEW st, NEW w
    PROVE  LET a == Answer(b, st, w)
           IN  /\ a = [bucket |-> b, status |-> st, retryAfter |-> w, forgave |-> FALSE]
               /\ a.bucket = b /\ a.status = st /\ a.retryAfter = w
  BY Zenon DEF Answer

\* Leaving the settled bucket as it is.
LEMMA AnswerUnchanged ==
    ASSUME NEW s, NEW r, NEW n, NEW t, NEW v, Decidable(s, r, n, t, v),
           NEW st \in {"UNDER_LIMIT", "OVER_LIMIT", "NEVER_FITS"}, NEW w \in Nat,
           st = "NEVER_FITS" \/ w > 0 => r.maxWait > 0,
           st = "UNDER_LIMIT" => r.hits = 0
    PROVE  \A inDebt : GoodAnswer(s, r, n, v, inDebt, Answer(s, st, w))
<1> DEFINE a == Answer(s, st, w)
<1>1. /\ a = [bucket |-> s, status |-> st, retryAfter |-> w, forgave |-> FALSE]
      /\ a.bucket = s /\ a.status = st /\ a.retryAfter = w
  BY AnswerFields
<1>2. s \in Bucket /\ s.rem \in Int /\ s.rem <= Unit * s.burst /\ s.expireAt \in Int
  BY Zenon DEF Decidable, Healthy, Bucket
<1>3. r.hits \in Int /\ Unit * r.hits \in Int /\ (r.hits = 0 => Unit * r.hits = 0)
  BY UnitAssumption DEF Decidable, Sound
<1> HIDE DEF a
<1> QED BY <1>1, <1>2, <1>3 DEF GoodAnswer, a

\* Charging the settled bucket for hits.
LEMMA Charged ==
    ASSUME NEW s \in Bucket, NEW x \in Int
    PROVE  LET c == [s EXCEPT !.rem = x]
           IN  /\ c \in Bucket /\ c.rem = x
               /\ c.limit = s.limit /\ c.duration = s.duration /\ c.burst = s.burst
               /\ c.updatedAt = s.updatedAt /\ c.expireAt = s.expireAt
  BY Zenon DEF Bucket
\* A booked slot is the moment the charged bucket clears.
LEMMA WaitIsClear ==
    ASSUME NEW s \in Bucket, NEW n \in Int, s.updatedAt >= n, NEW h \in Int,
           StoredSpeed(s) \in Nat \ {0}, s.rem - Unit * h < 0,
           NEW c \in Bucket, c.rem = s.rem - Unit * h, c.updatedAt = s.updatedAt,
           StoredSpeed(c) = StoredSpeed(s)
    PROVE  /\ WaitFor(s, h, n, StoredSpeed(s)) \in Nat \ {0}
           /\ ClearAt(c) = n + WaitFor(s, h, n, StoredSpeed(s))
<1> DEFINE v == StoredSpeed(s)
           need == Unit * h - s.rem
           m == CeilDiv(need, v)
<1>1. s.rem \in Int /\ s.updatedAt \in Int /\ Unit * h \in Int
  BY UnitAssumption DEF Bucket
<1>2. need \in Int /\ need > 0 /\ -c.rem = need /\ v \in Nat \ {0}
  BY <1>1
<1>3. m \in Int /\ m >= 1
  <2> HIDE DEF need, v
  <2>1. need \in Int /\ v \in Int /\ v > 0
    BY <1>2
  <2>2. m \in Int /\ \A k \in Int : m <= k <=> need <= k * v
    BY <2>1, CeilDivLeast, Zenon
  <2>3. m <= 0 <=> need <= 0 * v
    BY <2>2
  <2> QED BY <1>2, <2>2, <2>3
<1>4. ClearAt(c) = s.updatedAt + m
  BY <1>2, Zenon DEF ClearAt
<1>5. WaitFor(s, h, n, v) = Larger(1, Larger(s.updatedAt, n) - n + m)
  BY Zenon DEF WaitFor
<1> HIDE DEF m, v
<1>6. WaitFor(s, h, n, v) = s.updatedAt - n + m
  BY <1>1, <1>3, <1>5 DEF Larger
<1> QED BY <1>1, <1>3, <1>4, <1>6 DEF v

LEMMA ScheduleAnswer ==
    ASSUME NEW s, NEW r, NEW n, NEW t, NEW v, Decidable(s, r, n, t, v), r.hits # 0, r.maxWait > 0,
           NEW span \in Int, NEW inDebt
    PROVE  GoodAnswer(s, r, n, v, inDebt, scheduleHits(s, r, n, span, v, inDebt))
<1> DEFINE x == s.rem - Unit * r.hits
           c == [s EXCEPT !.rem = x]
           wait == WaitFor(s, r.hits, n, v)
           e == extendDebtExpiry(c, n, span, v)
           a == scheduleHits(s, r, n, span, v, inDebt)
<1>1. /\ s \in Bucket /\ s.rem \in Int /\ s.expireAt \in Int /\ s.rem <= Unit * s.burst /\ s.burst \in Int
      /\ r.hits \in Int /\ r.hits > 0 /\ ~Gregorian(r) /\ s.updatedAt >= n
      /\ v = StoredSpeed(s) /\ v \in Int /\ n \in Int /\ r.maxWait \in Int
  BY DEF Decidable, Healthy, Bucket, Sound, validateMaxWait, Gregorian, HasBehavior
<1>2. Unit * r.hits \in Int /\ Unit * r.hits > 0 /\ x \in Int
  BY <1>1, UnitAssumption
<1>3. /\ c \in Bucket /\ c.rem = x
      /\ c.limit = s.limit /\ c.duration = s.duration /\ c.burst = s.burst
      /\ c.updatedAt = s.updatedAt /\ c.expireAt = s.expireAt
  <2> HIDE DEF x
  <2> QED BY <1>1, <1>2, Charged, Zenon
<1>4. /\ e \in Bucket /\ e.rem = x
      /\ e.limit = s.limit /\ e.duration = s.duration /\ e.burst = s.burst
      /\ e.updatedAt = s.updatedAt /\ e.expireAt >= s.expireAt /\ e.expireAt >= fullAt(e, v)
  <2> HIDE DEF c
  <2> QED BY <1>1, <1>3, Extended
<1>5. a = IF r.hits > s.burst \/ unusableRate(v) THEN Answer(s, "NEVER_FITS", 0)
          ELSE IF r.hits <= wholeTokens(s.rem)
          THEN Answer(IF inDebt THEN e ELSE c, "UNDER_LIMIT", 0)
          ELSE IF wait > Smaller(r.maxWait, Ceiling) THEN Answer(s, "OVER_LIMIT", wait)
          ELSE Answer(e, "SCHEDULED", wait)
  BY Zenon DEF scheduleHits
<1> HIDE DEF c, e, a, wait
<1>6. CASE r.hits > s.burst \/ unusableRate(v)
  <2>1. a = Answer(s, "NEVER_FITS", 0)
    BY <1>5, <1>6, Zenon
  <2> QED BY <2>1, AnswerUnchanged, Zenon DEF a
<1>7. CASE ~(r.hits > s.burst \/ unusableRate(v)) /\ r.hits <= wholeTokens(s.rem)
  <2> DEFINE o == IF inDebt THEN e ELSE c
  <2>1. a = Answer(o, "UNDER_LIMIT", 0)
    BY <1>5, <1>7, Zenon
  <2>2. /\ a = [bucket |-> o, status |-> "UNDER_LIMIT", retryAfter |-> 0, forgave |-> FALSE]
        /\ a.bucket = o /\ a.status = "UNDER_LIMIT" /\ a.retryAfter = 0
    BY <2>1, Zenon DEF Answer
  <2>3. s.rem >= 0 /\ Unit * r.hits <= s.rem
    BY <1>1, <1>7, WholeTokens
  <2>4. /\ o \in Bucket /\ o.rem = x
        /\ o.limit = s.limit /\ o.duration = s.duration /\ o.burst = s.burst
        /\ o.updatedAt = s.updatedAt /\ o.expireAt >= s.expireAt
        /\ inDebt => o.expireAt >= fullAt(o, v)
    BY <1>1, <1>3, <1>4
  <2>5. Unit * s.burst \in Int
    BY <1>1, UnitAssumption
  <2> HIDE DEF o
  <2>6. GoodAnswer(s, r, n, v, inDebt, a)
    BY <1>1, <1>2, <2>2, <2>3, <2>4, <2>5 DEF GoodAnswer
  <2> QED BY <2>6, Zenon DEF a
<1>8. CASE ~(r.hits > s.burst \/ unusableRate(v)) /\ ~(r.hits <= wholeTokens(s.rem))
  <2>1. v \in Nat \ {0} /\ StoredSpeed(e) = v /\ r.hits <= s.burst
    BY <1>1, <1>4, <1>8 DEF unusableRate, StoredSpeed
  <2>2. x < 0
    BY <1>1, <1>2, <1>8, WholeTokens
  <2>3. wait \in Nat \ {0} /\ ClearAt(e) = n + wait
    BY <1>1, <1>4, <2>1, <2>2, WaitIsClear DEF wait
  <2>4. CASE wait > Smaller(r.maxWait, Ceiling)
    <3>1. a = Answer(s, "OVER_LIMIT", wait)
      BY <1>5, <1>8, <2>4, Zenon
    <3> QED BY <2>3, <3>1, AnswerUnchanged, Zenon DEF a
  <2>5. CASE ~(wait > Smaller(r.maxWait, Ceiling))
    <3>1. a = Answer(e, "SCHEDULED", wait)
      BY <1>5, <1>8, <2>5, Zenon
    <3>2. /\ a = [bucket |-> e, status |-> "SCHEDULED", retryAfter |-> wait, forgave |-> FALSE]
          /\ a.bucket = e /\ a.status = "SCHEDULED" /\ a.retryAfter = wait
      BY <3>1, Zenon DEF Answer
    <3>3. wait \in 1 .. Ceiling
      BY <1>1, <2>3, <2>5, CeilingAssumption DEF Smaller
    <3>4. /\ Unit * s.burst \in Int /\ Unit * r.hits <= Unit * s.burst
      <4>1. r.hits * Unit <= s.burst * Unit
        BY <1>1, <2>1, UnitAssumption, MulMonotone
      <4> QED BY <1>1, <4>1, UnitAssumption
    <3>5. x <= Unit * s.burst
      BY <1>1, <1>2, <3>4
    <3>6. GoodAnswer(s, r, n, v, inDebt, a)
      BY <1>1, <1>2, <1>4, <2>1, <2>2, <2>3, <3>2, <3>3, <3>4, <3>5, Zenon DEF GoodAnswer
    <3> QED BY <3>6, Zenon DEF a
  <2> QED BY <2>4, <2>5, Zenon
<1> QED BY <1>6, <1>7, <1>8, Zenon
LEMMA PlainAnswer ==
    ASSUME NEW s, NEW r, NEW n, NEW t, NEW v, Decidable(s, r, n, t, v), r.hits # 0,
           NEW span \in Int, NEW inDebt
    PROVE  GoodAnswer(s, r, n, v, inDebt, plainHits(s, r, t, span, v, inDebt))
<1> DEFINE low == Smaller(s.rem, 0)
           d == [s EXCEPT !.rem = low]
           x == Smaller(Unit * s.burst, s.rem - Unit * r.hits)
           c == [s EXCEPT !.rem = x]
           es == extendDebtExpiry(s, t, span, v)
           ec == extendDebtExpiry(c, t, span, v)
           a == plainHits(s, r, t, span, v, inDebt)
<1>1. /\ s \in Bucket /\ s.rem \in Int /\ s.expireAt \in Int /\ s.rem <= Unit * s.burst
      /\ s.burst \in Int /\ s.burst >= 0
      /\ r.hits \in Int /\ v \in Int /\ t \in Int /\ r.maxWait \in Int
  BY Zenon DEF Decidable, Healthy, Bucket, Sound
<1>2. /\ Unit * r.hits \in Int /\ Unit * s.burst \in Int /\ Unit * s.burst >= 0
      /\ r.hits > 0 => Unit * r.hits > 0
      /\ r.hits < 0 => Unit * r.hits < 0
  BY <1>1, UnitAssumption
<1>3. x \in Int /\ low \in Int
  BY <1>1, <1>2 DEF Smaller
<1>4. /\ c \in Bucket /\ c.rem = x
      /\ c.limit = s.limit /\ c.duration = s.duration /\ c.burst = s.burst
      /\ c.updatedAt = s.updatedAt /\ c.expireAt = s.expireAt
  <2> HIDE DEF x
  <2> QED BY <1>1, <1>3, Charged, Zenon
<1>5. /\ d \in Bucket /\ d.rem = low
      /\ d.limit = s.limit /\ d.duration = s.duration /\ d.burst = s.burst
      /\ d.updatedAt = s.updatedAt /\ d.expireAt = s.expireAt
  <2> HIDE DEF low
  <2> QED BY <1>1, <1>3, Charged, Zenon
<1>6. /\ ec \in Bucket /\ ec.rem = x
      /\ ec.limit = s.limit /\ ec.duration = s.duration /\ ec.burst = s.burst
      /\ ec.updatedAt = s.updatedAt /\ ec.expireAt >= s.expireAt /\ ec.expireAt >= fullAt(ec, v)
  <2> HIDE DEF c
  <2> QED BY <1>1, <1>4, Extended
<1>7. /\ es \in Bucket /\ es.rem = s.rem
      /\ es.limit = s.limit /\ es.duration = s.duration /\ es.burst = s.burst
      /\ es.updatedAt = s.updatedAt /\ es.expireAt >= s.expireAt
  BY <1>1, Extended
<1>8. a = IF r.hits < 0 /\ s.rem < 0 THEN Answer(es, "UNDER_LIMIT", 0)
          ELSE IF r.hits > wholeTokens(s.rem)
          THEN IF HasBehavior(r, "DRAIN_OVER_LIMIT") THEN Answer(d, "OVER_LIMIT", 0)
               ELSE Answer(s, "OVER_LIMIT", 0)
          ELSE Answer(IF inDebt THEN ec ELSE c, "UNDER_LIMIT", 0)
  BY Zenon DEF plainHits
<1>9. wholeTokens(s.rem) \in Int
  <2>1. Unit \in Int /\ Unit > 0
    BY UnitAssumption
  <2>2. s.rem \div Unit \in Int /\ (-s.rem) \div Unit \in Int
    <3> DEFINE p == -s.rem
    <3>1. p \in Int
      BY <1>1
    <3> HIDE DEF p
    <3>2. p \div Unit \in Int /\ s.rem \div Unit \in Int
      BY <1>1, <2>1, <3>1, DivBounds, Zenon
    <3> QED BY <3>2, Zenon DEF p
  <2> QED BY <2>2 DEF wholeTokens
<1> HIDE DEF x, low, c, d, ec, es, a
<1>10. CASE r.hits < 0 /\ s.rem < 0
  <2>1. /\ a = [bucket |-> es, status |-> "UNDER_LIMIT", retryAfter |-> 0, forgave |-> FALSE]
        /\ a.bucket = es /\ a.status = "UNDER_LIMIT" /\ a.retryAfter = 0
    BY <1>8, <1>10, Zenon DEF Answer
  <2>2. GoodAnswer(s, r, n, v, inDebt, a)
    BY <1>1, <1>7, <1>10, <2>1 DEF GoodAnswer
  <2> QED BY <2>2, Zenon DEF a
<1>11. CASE ~(r.hits < 0 /\ s.rem < 0) /\ r.hits > wholeTokens(s.rem)
  <2>1. CASE HasBehavior(r, "DRAIN_OVER_LIMIT")
    <3>1. /\ a = [bucket |-> d, status |-> "OVER_LIMIT", retryAfter |-> 0, forgave |-> FALSE]
          /\ a.bucket = d /\ a.status = "OVER_LIMIT" /\ a.retryAfter = 0
      BY <1>8, <1>11, <2>1, Zenon DEF Answer
    <3>2. low <= Unit * s.burst /\ IF s.rem < 0 THEN low = s.rem ELSE low = 0
      BY <1>1, <1>2 DEF low, Smaller
    <3>3. GoodAnswer(s, r, n, v, inDebt, a)
      BY <1>1, <1>5, <3>1, <3>2 DEF GoodAnswer
    <3> QED BY <3>3, Zenon DEF a
  <2>2. CASE ~HasBehavior(r, "DRAIN_OVER_LIMIT")
    <3>1. a = Answer(s, "OVER_LIMIT", 0)
      BY <1>8, <1>11, <2>2, Zenon
    <3> QED BY <3>1, AnswerUnchanged DEF a
  <2> QED BY <2>1, <2>2, Zenon
<1>12. CASE ~(r.hits < 0 /\ s.rem < 0) /\ ~(r.hits > wholeTokens(s.rem))
  <2> DEFINE o == IF inDebt THEN ec ELSE c
  <2>1. /\ a = [bucket |-> o, status |-> "UNDER_LIMIT", retryAfter |-> 0, forgave |-> FALSE]
        /\ a.bucket = o /\ a.status = "UNDER_LIMIT" /\ a.retryAfter = 0
    BY <1>8, <1>12, Zenon DEF Answer
  <2>2. /\ o \in Bucket /\ o.rem = x
        /\ o.limit = s.limit /\ o.duration = s.duration /\ o.burst = s.burst
        /\ o.updatedAt = s.updatedAt /\ o.expireAt >= s.expireAt
        /\ inDebt => o.expireAt >= fullAt(o, v)
    BY <1>1, <1>4, <1>6
  <2>3. r.hits <= wholeTokens(s.rem)
    BY <1>1, <1>9, <1>12
  <2>4. s.rem >= 0 /\ Unit * r.hits <= s.rem
    <3>1. s.rem >= 0
      BY <1>1, <1>12, <2>3, WholeTokens
    <3> QED BY <1>1, <2>3, <3>1, WholeTokens, Zenon
  <2>5. /\ x >= 0 /\ x <= Unit * s.burst
        /\ r.hits >= 0 => x = s.rem - Unit * r.hits /\ Unit * r.hits <= Unit * s.burst
    BY <1>1, <1>2, <2>4 DEF x, Smaller
  <2> HIDE DEF o
  <2>6. GoodAnswer(s, r, n, v, inDebt, a)
    BY <1>1, <1>2, <1>3, <2>1, <2>2, <2>4, <2>5 DEF GoodAnswer
  <2> QED BY <2>6, Zenon DEF a
<1> QED BY <1>1, <1>9, <1>10, <1>11, <1>12, Zenon

LEMMA DecideAnswer ==
    ASSUME NEW s, NEW r, NEW n, NEW t, NEW v, Decidable(s, r, n, t, v), NEW inDebt
    PROVE  GoodAnswer(s, r, n, v, inDebt, Decide(s, r, t, n, v, inDebt))
<1>1. Span(r, n) \in Int
  BY SpanType, Zenon DEF Decidable
<1>2. CASE r.hits = 0
  BY <1>2, AnswerUnchanged DEF Decide
<1>3. CASE r.hits # 0 /\ r.maxWait > 0
  BY <1>1, <1>3, ScheduleAnswer, Zenon DEF Decide
<1>4. CASE r.hits # 0 /\ ~(r.maxWait > 0)
  BY <1>1, <1>4, PlainAnswer, Zenon DEF Decide
<1> QED BY <1>2, <1>3, <1>4, Zenon
-----------------------------------------------------------------------------
(* A request on a cached bucket.                                           *)

\* More debt at the same rate clears no earlier.
LEMMA ClearMonotone ==
    ASSUME NEW b \in Bucket, NEW c \in Bucket, StoredSpeed(b) \in Nat \ {0},
           StoredSpeed(c) = StoredSpeed(b), c.updatedAt = b.updatedAt, c.rem <= b.rem
    PROVE  ClearAt(b) <= ClearAt(c)
<1> DEFINE k == ClearAt(c)
           v == StoredSpeed(b)
<1>1. k \in Int
  BY ClearBy, Zenon
<1>2. c.rem + (k - c.updatedAt) * v >= 0
  BY <1>1, ClearBy
<1>3. b.rem + (k - b.updatedAt) * v >= 0
  <2>1. b.rem \in Int /\ c.rem \in Int /\ b.updatedAt \in Int
    BY Zenon DEF Bucket
  <2> HIDE DEF k, v
  <2>2. (k - b.updatedAt) * v \in Int
    BY <1>1, <2>1 DEF v
  <2> QED BY <1>2, <2>1, <2>2
<1> QED BY <1>1, <1>3, ClearBy, Zenon

\* The moment a debt clears depends on the balance, its time and its rate only.
LEMMA ClearDepends ==
    ASSUME NEW b, NEW c, StoredSpeed(b) = StoredSpeed(c), b.updatedAt = c.updatedAt, b.rem = c.rem
    PROVE  ClearAt(b) = ClearAt(c)
  BY Zenon DEF ClearAt

LEMMA FullDepends ==
    ASSUME NEW b, NEW c, NEW v, b.updatedAt = c.updatedAt, b.rem = c.rem, b.burst = c.burst
    PROVE  fullAt(b, v) = fullAt(c, v)
  BY Zenon DEF fullAt

\* The steps of a request r on an existing bucket b: its clock t, the settled
\* bucket s, the speed v it is judged at, and the answer a.
Steps(b, r, n, t, s, v, a) ==
    /\ t = RequestClock(b, r, n)
    /\ s = Settle(b, r, t, n)
    /\ v = FinalSpeed(b, r, s.rem)
    /\ a = OnExisting(b, r, n)

\* What settling and deciding establish on an existing bucket.
LEMMA ExistingDecided ==
    ASSUME NEW b, Healthy(b), NEW r, Sound(r), validateMaxWait(r), NEW n \in Int,
           NEW t, NEW s, NEW v, NEW a, Steps(b, r, n, t, s, v, a)
    PROVE  /\ t \in Int /\ (b.rem < 0 \/ r.maxWait > 0 => t = n)
           /\ Healthy(s) /\ v \in Int
           /\ s.rem < 0 => v = StoredSpeed(s)
           /\ GoodAnswer(s, r, n, v, wasInDebt(b, r), Decide(s, r, t, n, v, wasInDebt(b, r)))
<1>1. t \in Int /\ (b.rem < 0 \/ r.maxWait > 0 => t = n)
  BY Zenon DEF Steps, RequestClock, Sound
<1>2. s = Settle(b, r, t, n) /\ v = FinalSpeed(b, r, s.rem)
  BY Zenon DEF Steps
<1>3. Healthy(s) /\ s.updatedAt = Larger(b.updatedAt, t)
  BY <1>1, <1>2, SettleFields, SettleDebt
<1>4. v \in Int /\ (s.rem < 0 => v = StoredSpeed(s)) /\ (s.rem >= 0 /\ ~Gregorian(r) => v = StoredSpeed(s))
  BY <1>1, <1>2, SettleDebt
<1>5. s.rem \in Int /\ b.updatedAt \in Int
  BY <1>3, Zenon DEF Healthy, Bucket
<1>6. Decidable(s, r, n, t, v)
  BY <1>1, <1>3, <1>4, <1>5 DEF Decidable, Larger
<1> QED BY <1>1, <1>3, <1>4, <1>6, DecideAnswer, Zenon

\* The deferred extension changes only the expiry.
LEMMA ExistingJudged ==
    ASSUME NEW b, Healthy(b), NEW r, Sound(r), validateMaxWait(r), NEW n \in Int,
           NEW t, NEW s, NEW v, NEW a, Steps(b, r, n, t, s, v, a)
    PROVE  /\ GoodAnswer(s, r, n, v, wasInDebt(b, r), a)
           /\ a.forgave = Forgives(b, r, t)
           /\ Reconfigures(b, r, s, v) => a.bucket.expireAt >= fullAt(a.bucket, v)
<1> DEFINE d == Decide(s, r, t, n, v, wasInDebt(b, r))
           c == d.bucket
           span == Span(r, n)
           e == extendDebtExpiry(c, t, span, v)
           o == IF Reconfigures(b, r, s, v) THEN e ELSE c
<1>1. t \in Int /\ v \in Int /\ s.rem \in Int /\ GoodAnswer(s, r, n, v, wasInDebt(b, r), d)
  BY ExistingDecided DEF Healthy, Bucket
<1>2. a = [d EXCEPT !.forgave = Forgives(b, r, t), !.bucket = o]
  BY Zenon DEF Steps, OnExisting
<1>3. span \in Int
  BY SpanType, Zenon
<1> HIDE DEF d, span
<1>4. d = [bucket |-> c, status |-> d.status, retryAfter |-> d.retryAfter, forgave |-> d.forgave]
      /\ c \in Bucket
  BY <1>1, Zenon DEF GoodAnswer
<1> HIDE DEF c
<1>5. /\ e \in Bucket
      /\ e.limit = c.limit /\ e.duration = c.duration /\ e.burst = c.burst
      /\ e.rem = c.rem /\ e.updatedAt = c.updatedAt
      /\ e.expireAt >= c.expireAt
      /\ e.expireAt >= fullAt(c, v) /\ fullAt(e, v) = fullAt(c, v)
  <2>1. c \in Bucket /\ span \in Int /\ t \in Int /\ v \in Int
    BY <1>1, <1>3, <1>4, Zenon
  <2> QED BY <2>1, Extended
<1>6. c.expireAt \in Int
  BY <1>4, Zenon DEF Bucket
<1> HIDE DEF e
<1>7. /\ o \in Bucket
      /\ o.limit = c.limit /\ o.duration = c.duration /\ o.burst = c.burst
      /\ o.rem = c.rem /\ o.updatedAt = c.updatedAt
      /\ o.expireAt >= c.expireAt
      /\ fullAt(o, v) = fullAt(c, v)
      /\ Reconfigures(b, r, s, v) => o.expireAt >= fullAt(o, v)
  BY <1>4, <1>5, <1>6
<1> HIDE DEF o
<1>8. /\ a = [bucket |-> o, status |-> d.status, retryAfter |-> d.retryAfter, forgave |-> a.forgave]
      /\ a.bucket = o /\ a.status = d.status /\ a.retryAfter = d.retryAfter
      /\ a.forgave = Forgives(b, r, t)
  BY <1>2, <1>4
<1>9. ClearAt(o) = ClearAt(c)
  <2>1. StoredSpeed(o) = StoredSpeed(c)
    BY <1>7, Zenon DEF StoredSpeed
  <2> QED BY <1>7, <2>1, ClearDepends, Zenon
<1>10. GoodAnswer(s, r, n, v, wasInDebt(b, r), a)
  <2>1. c.expireAt >= s.expireAt => o.expireAt >= s.expireAt
    BY <1>6, <1>7, ExistingDecided DEF Healthy, Bucket
  <2>2. fullAt(o, v) \in Int
    BY <1>1, <1>7, FullType, Zenon
  <2>3. o.expireAt \in Int
    BY <1>7, Zenon DEF Bucket
  <2> QED BY <1>1, <1>6, <1>7, <1>8, <1>9, <2>1, <2>2, <2>3 DEF GoodAnswer, c
<1> QED BY <1>7, <1>8, <1>10, Zenon

\* What a request does to the debt of the bucket it finds.
DebtAnswer(b, r, n, a) ==
    LET o == a.bucket
        reset == HasBehavior(r, "RESET_REMAINING")
        admits == a.status = "UNDER_LIMIT" /\ r.hits > 0
    IN  /\ Healthy(o)
        /\ a.status \in {"UNDER_LIMIT", "OVER_LIMIT", "SCHEDULED", "NEVER_FITS"}
        /\ a.retryAfter \in Nat /\ a.forgave \in BOOLEAN
        /\ o.rem < 0 => o.expireAt >= fullAt(o, StoredSpeed(o))
        /\ a.status = "SCHEDULED" =>
              /\ ~reset /\ o.rem < 0
              /\ a.retryAfter \in 1 .. Ceiling /\ ClearAt(o) = n + a.retryAfter
              /\ b.rem < 0 => ClearAt(b) <= ClearAt(o)
        /\ a.status # "SCHEDULED" /\ o.rem < 0 =>
              b.rem < 0 /\ ~reset /\ ~admits /\ ClearAt(o) = ClearAt(b)
        /\ o.rem >= 0 \/ admits => (b.rem < 0 /\ ~reset => ClearAt(b) <= n)
        /\ reset /\ b.rem < 0 /\ ClearAt(b) > n => a.forgave
        /\ a.status = "NEVER_FITS" \/ a.retryAfter > 0 => ~reset

LEMMA ExistingAnswer ==
    ASSUME NEW b, Healthy(b), NEW r, Sound(r), validateMaxWait(r), NEW n \in Int,
           b.rem < 0 => b.expireAt >= fullAt(b, StoredSpeed(b))
    PROVE  DebtAnswer(b, r, n, OnExisting(b, r, n))
<1> SUFFICES ASSUME NEW t, NEW s, NEW v, NEW a, Steps(b, r, n, t, s, v, a)
             PROVE  DebtAnswer(b, r, n, a)
  BY Zenon DEF Steps
<1> DEFINE o == a.bucket
           reset == HasBehavior(r, "RESET_REMAINING")
           admits == a.status = "UNDER_LIMIT" /\ r.hits > 0
<1>1. /\ t \in Int /\ (b.rem < 0 \/ r.maxWait > 0 => t = n)
      /\ Healthy(s) /\ v \in Int
      /\ s.rem < 0 => v = StoredSpeed(s)
  BY ExistingDecided
<1>2. /\ GoodAnswer(s, r, n, v, wasInDebt(b, r), a)
      /\ a.forgave = Forgives(b, r, t)
      /\ Reconfigures(b, r, s, v) => o.expireAt >= fullAt(o, v)
  BY ExistingJudged, Zenon
<1>3. s = Settle(b, r, t, n)
  BY Zenon DEF Steps
<1>4. /\ s.rem < 0 => b.rem < 0 /\ ~reset /\ ClearAt(s) = ClearAt(b)
      /\ s.rem >= 0 /\ b.rem < 0 /\ ~reset => ClearAt(b) <= n
  BY <1>1, <1>3, SettleDebt
<1>5. ASSUME s.rem < 0, s.burst = b.burst, ~configChanged(b, r)
      PROVE  /\ fullAt(s, StoredSpeed(s)) = fullAt(b, StoredSpeed(b))
             /\ s.expireAt = b.expireAt
  BY <1>1, <1>3, <1>5, SettleKeepsFull
<1>6. /\ b \in Bucket /\ b.rem \in Int /\ b.expireAt \in Int
      /\ s \in Bucket /\ s.rem \in Int /\ s.expireAt \in Int
      /\ o \in Bucket /\ o.rem \in Int /\ o.expireAt \in Int
  BY <1>1, <1>2, Zenon DEF Healthy, Bucket, GoodAnswer
<1>7. StoredSpeed(o) = StoredSpeed(s)
  BY <1>2, Zenon DEF StoredSpeed, GoodAnswer
<1>8. s.rem < 0 => StoredSpeed(s) \in Nat \ {0}
  BY <1>1, Zenon DEF Healthy
<1>9. r.maxWait > 0 => ~reset
  BY DEF validateMaxWait, HasBehavior
<1>10. ASSUME a.status = "SCHEDULED"
       PROVE  /\ ~reset /\ o.rem < 0
              /\ a.retryAfter \in 1 .. Ceiling /\ ClearAt(o) = n + a.retryAfter
              /\ b.rem < 0 => ClearAt(b) <= ClearAt(o)
              /\ StoredSpeed(o) \in Nat \ {0} /\ o.expireAt >= fullAt(o, StoredSpeed(o))
  <2>1. /\ ~reset /\ o.rem < 0
        /\ a.retryAfter \in 1 .. Ceiling /\ ClearAt(o) = n + a.retryAfter
        /\ StoredSpeed(o) = v /\ v \in Nat \ {0}
        /\ o.expireAt >= fullAt(o, v)
    BY <1>2, <1>7, <1>9, <1>10, Zenon DEF GoodAnswer
  <2>2. ASSUME b.rem < 0 PROVE ClearAt(b) <= ClearAt(o)
    <3>1. CASE s.rem < 0
      <4>1. r.hits >= 0 /\ Unit * r.hits \in Int /\ Unit * r.hits >= 0
        BY <1>2, <1>10, UnitTimes DEF GoodAnswer, Sound
      <4>2. o.rem <= s.rem /\ o.updatedAt = s.updatedAt
        BY <1>2, <1>6, <1>10, <4>1 DEF GoodAnswer
      <4>3. ClearAt(s) <= ClearAt(o)
        BY <1>6, <1>7, <1>8, <3>1, <4>2, ClearMonotone, Zenon
      <4> QED BY <1>4, <3>1, <4>3, Zenon
    <3>2. CASE s.rem >= 0
      <4>1. ClearAt(b) <= n
        BY <1>4, <2>1, <2>2, <3>2, Zenon
      <4>2. StoredSpeed(b) \in Nat \ {0}
        BY <2>2, Zenon DEF Healthy
      <4>3. ClearAt(b) \in Int
        BY <1>6, <4>2, ClearBy, Zenon
      <4> QED BY <2>1, <4>1, <4>3
    <3> QED BY <1>6, <3>1, <3>2
  <2> QED BY <2>1, <2>2, Zenon
<1>11. ASSUME a.status # "SCHEDULED", o.rem < 0
       PROVE  /\ b.rem < 0 /\ ~reset /\ ~admits /\ ClearAt(o) = ClearAt(b)
              /\ StoredSpeed(o) \in Nat \ {0} /\ o.expireAt >= fullAt(o, StoredSpeed(o))
  <2>1. /\ s.rem < 0 /\ o.rem = s.rem /\ ~admits
        /\ o.updatedAt = s.updatedAt /\ o.burst = s.burst /\ o.expireAt >= s.expireAt
    BY <1>2, <1>6, <1>11 DEF GoodAnswer
  <2>2. b.rem < 0 /\ ~reset /\ ClearAt(s) = ClearAt(b) /\ v = StoredSpeed(s) /\ v \in Nat \ {0}
    BY <1>1, <1>4, <1>8, <2>1, Zenon
  <2>3. ClearAt(o) = ClearAt(s)
    BY <1>7, <2>1, ClearDepends, Zenon
  <2>4. o.expireAt >= fullAt(o, v)
    <3>1. CASE Reconfigures(b, r, s, v)
      BY <1>2, <3>1, Zenon
    <3>2. CASE ~Reconfigures(b, r, s, v)
      <4>1. s.burst = b.burst /\ ~configChanged(b, r)
        BY <2>2, <3>2 DEF Reconfigures, wasInDebt, unusableRate
      <4>2. fullAt(s, v) = fullAt(b, StoredSpeed(b)) /\ s.expireAt = b.expireAt
        BY <1>5, <2>1, <2>2, <4>1, Zenon
      <4>3. fullAt(o, v) = fullAt(s, v)
        BY <2>1, FullDepends
      <4>4. fullAt(o, v) \in Int
        BY <1>6, <2>2, FullBy, Zenon
      <4> QED BY <1>6, <2>1, <2>2, <4>2, <4>3, <4>4
    <3> QED BY <3>1, <3>2, Zenon
  <2> QED BY <1>7, <2>1, <2>2, <2>3, <2>4, Zenon
<1>12. o.rem >= 0 \/ admits => (b.rem < 0 /\ ~reset => ClearAt(b) <= n)
  <2>1. o.rem >= 0 \/ admits => s.rem >= 0
    BY <1>2, <1>6, <1>10 DEF GoodAnswer
  <2> QED BY <1>4, <2>1, Zenon
<1>13. reset /\ b.rem < 0 /\ ClearAt(b) > n => a.forgave
  <2>1. SUFFICES ASSUME reset, b.rem < 0, ClearAt(b) > n PROVE Rescaled(b, r, t) < 0
    BY <1>2 DEF Forgives
  <2>2. t = n /\ StoredSpeed(b) \in Nat \ {0}
    BY <1>1, <2>1, Zenon DEF Healthy
  <2>3. ~(b.rem + (t - b.updatedAt) * StoredSpeed(b) >= 0)
    <3>1. ClearAt(b) \in Int /\ (ClearAt(b) <= n <=> b.rem + (n - b.updatedAt) * StoredSpeed(b) >= 0)
      BY <1>6, <2>2, ClearBy, Zenon
    <3> QED BY <2>1, <2>2, <3>1
  <2> QED BY <1>1, <2>1, <2>3, RescaledDebt
<1>14. Healthy(o)
  <2>1. o.rem < 0 => StoredSpeed(o) \in Nat \ {0}
    BY <1>10, <1>11, Zenon
  <2> QED BY <1>1, <1>2, <1>6, <2>1, Zenon DEF Healthy, GoodAnswer
<1>15. /\ a.status = "NEVER_FITS" \/ a.retryAfter > 0 => ~reset
       /\ a.status \in {"UNDER_LIMIT", "OVER_LIMIT", "SCHEDULED", "NEVER_FITS"}
       /\ a.retryAfter \in Nat
  BY <1>2, <1>9, Zenon DEF GoodAnswer
<1>16. a.forgave \in BOOLEAN
  BY <1>2, Zenon DEF Forgives, HasBehavior
<1> HIDE DEF reset
<1>17. /\ o.rem < 0 => o.expireAt >= fullAt(o, StoredSpeed(o))
       /\ a.status = "SCHEDULED" =>
             /\ ~reset /\ o.rem < 0
             /\ a.retryAfter \in 1 .. Ceiling /\ ClearAt(o) = n + a.retryAfter
             /\ b.rem < 0 => ClearAt(b) <= ClearAt(o)
       /\ a.status # "SCHEDULED" /\ o.rem < 0 =>
             b.rem < 0 /\ ~reset /\ ~admits /\ ClearAt(o) = ClearAt(b)
  BY <1>10, <1>11, Zenon
<1> QED BY <1>12, <1>13, <1>14, <1>15, <1>16, <1>17, Zenon DEF DebtAnswer, reset
-----------------------------------------------------------------------------
(* Steps of the key.                                                       *)

\* The inductive invariant: what is checked of the debt, together.
DebtInv == DebtWithinCeiling /\ DebtOutlived /\ DebtIsTheQueue

\* A step of the key whose callers send any well-formed request.
KeyNext ==
    \/ Tick
    \/ LoseItem
    \/ \E q : WellFormed(q) /\ (Reject(Request(q)) \/ FailGregorian(Request(q)) \/ leakyBucket(Request(q)))

LEMMA NextIsKeyNext == [Next]_vars => [KeyNext]_vars
  BY RequestAssumption, Zenon DEF Next, KeyNext

LEMMA RequestSound ==
    ASSUME NEW q, WellFormed(q), now \in Int
    PROVE  LET r == Request(q)
               p == DefaultBurst(r)
           IN  /\ Sound(p)
               /\ p.hits = r.hits /\ p.behavior = r.behavior /\ p.maxWait = r.maxWait
               /\ validateMaxWait(r) => validateMaxWait(p)
<1> DEFINE r == Request(q)
           p == DefaultBurst(r)
<1>1. /\ r.limit = q.limit /\ r.duration = q.duration /\ r.burst = q.burst /\ r.hits = q.hits
      /\ r.maxWait = q.maxWait /\ r.behavior = q.behavior /\ r.createdAt = now + q.skew
  BY Zenon DEF Request
<1>2. /\ p.limit = q.limit /\ p.duration = q.duration /\ p.hits = q.hits
      /\ p.maxWait = q.maxWait /\ p.behavior = q.behavior /\ p.createdAt = now + q.skew
      /\ p.burst = IF q.burst = 0 THEN q.limit ELSE q.burst
  BY Zenon DEF DefaultBurst, Request
<1> HIDE DEF r, p
<1>3. Sound(p)
  BY <1>2 DEF Sound, WellFormed
<1>4. validateMaxWait(r) => validateMaxWait(p)
  BY <1>1, <1>2, Zenon DEF validateMaxWait
<1> QED BY <1>1, <1>2, <1>3, <1>4, Zenon DEF r, p

\* A fresh item is within its burst and never in debt.
LEMMA NewItem ==
    ASSUME NEW r, Sound(r), NEW n \in Int
    PROVE  LET a == leakyBucketNewItem(NoItem, r, n)
           IN  /\ a.bucket = NoItem \/ (Healthy(a.bucket) /\ a.bucket.rem >= 0)
               /\ a.status \in {"UNDER_LIMIT", "OVER_LIMIT", "NEVER_FITS"}
               /\ a.retryAfter = 0 /\ a.forgave = FALSE
<1> DEFINE t == IF r.maxWait > 0 THEN n ELSE r.createdAt
           over == r.hits > r.burst
           rem == IF over THEN 0 ELSE Unit * Smaller(r.burst, r.burst - r.hits)
           b == [limit |-> r.limit, duration |-> Span(r, n), burst |-> r.burst,
                 rem |-> rem, updatedAt |-> t, expireAt |-> t + Span(r, n)]
           a == leakyBucketNewItem(NoItem, r, n)
<1>1. a = IF r.maxWait > 0 /\ over THEN Answer(NoItem, "NEVER_FITS", 0)
          ELSE Answer(b, IF over THEN "OVER_LIMIT" ELSE "UNDER_LIMIT", 0)
  BY Zenon DEF leakyBucketNewItem
<1>2. /\ r.burst \in Nat /\ r.hits \in Int /\ t \in Int /\ Span(r, n) \in Int /\ r.limit \in Int
      /\ Unit \in Nat \ {0}
  BY SpanType, UnitAssumption DEF Sound
<1>3. rem \in Int /\ rem >= 0 /\ rem <= Unit * r.burst
  <2>1. CASE over
    BY <1>2, <2>1
  <2>2. CASE ~over
    <3> DEFINE m == Smaller(r.burst, r.burst - r.hits)
    <3>1. m \in Int /\ m >= 0 /\ m <= r.burst
      BY <1>2, <2>2 DEF Smaller
    <3> HIDE DEF m
    <3>2. Unit * m \in Int /\ Unit * m >= 0 /\ Unit * m <= Unit * r.burst
      BY <1>2, <3>1
    <3> QED BY <2>2, <3>2, Zenon DEF m
  <2> QED BY <2>1, <2>2, Zenon
<1> HIDE DEF t, rem, over
<1>4. b \in Bucket /\ b.burst = r.burst /\ b.rem = rem
  BY <1>2, <1>3 DEF Bucket
<1> HIDE DEF b, a
<1>5. Healthy(b) /\ b.rem >= 0
  BY <1>2, <1>3, <1>4 DEF Healthy
<1>6. CASE r.maxWait > 0 /\ over
  BY <1>1, <1>6 DEF Answer, a
<1>7. CASE ~(r.maxWait > 0 /\ over)
  BY <1>1, <1>5, <1>7 DEF Answer, a
<1> QED BY <1>6, <1>7

\* The invariant makes a cached bucket one the lemmas above speak of.
LEMMA InvHealthy ==
    ASSUME DebtInv, item # NoItem
    PROVE  /\ Healthy(item) /\ now \in Int
           /\ item.rem < 0 => item.expireAt >= fullAt(item, StoredSpeed(item))
<1>1. item \in Bucket /\ item.burst >= 0 /\ item.rem <= Unit * item.burst /\ now \in Int
  BY DEF DebtInv, DebtWithinCeiling, TypeOK
<1>2. item.rem < 0 => StoredSpeed(item) \in Nat \ {0}
  BY <1>1, StoredSpeedType DEF DebtInv, DebtWithinCeiling, InDebt, unusableRate
<1>3. item.rem < 0 => item.expireAt >= fullAt(item, StoredSpeed(item))
  BY Zenon DEF DebtInv, DebtOutlived, InDebt
<1> QED BY <1>1, <1>2, <1>3, Zenon DEF Healthy

\* By the time an item in debt expires its debt has cleared.
LEMMA ExpiredIsClear ==
    ASSUME DebtInv, ~Cached
    PROVE  frontier <= now /\ (InDebt => ClearAt(item) <= now)
<1>1. frontier \in Int /\ now \in Int
  BY DEF DebtInv, DebtWithinCeiling, TypeOK
<1>2. CASE ~InDebt
  BY <1>2, Zenon DEF DebtInv, DebtIsTheQueue
<1>3. CASE InDebt
  <2> DEFINE v == StoredSpeed(item)
             f == fullAt(item, v)
  <2>1. Healthy(item) /\ item.rem < 0 /\ item.expireAt >= f /\ item \in Bucket
    BY <1>3, InvHealthy, Zenon DEF InDebt, Healthy
  <2>2. v \in Nat \ {0}
    BY <2>1, Zenon DEF Healthy
  <2>3. f \in Int /\ item.rem + (f - item.updatedAt) * v >= Unit * item.burst
    <3> HIDE DEF v
    <3>1. f \in Int /\ \A k \in Int : f <= k <=> item.rem + (k - item.updatedAt) * v >= Unit * item.burst
      BY <2>1, <2>2, FullBy, Zenon
    <3> QED BY <3>1
  <2>4. Unit * item.burst \in Int /\ Unit * item.burst >= 0 /\ item.rem \in Int /\ item.updatedAt \in Int
    BY <2>1, UnitTimes, Zenon DEF Healthy, Bucket
  <2>5. item.rem + (f - item.updatedAt) * v >= 0
    <3> HIDE DEF f, v
    <3>1. (f - item.updatedAt) * v \in Int
      BY <2>2, <2>3, <2>4
    <3> QED BY <2>3, <2>4, <3>1
  <2>6. ClearAt(item) \in Int /\ ClearAt(item) <= f
    BY <2>1, <2>2, <2>3, <2>5, ClearBy, Zenon
  <2>7. item.expireAt < now /\ item.expireAt \in Int
    BY <1>1, <1>3, <2>1 DEF Cached, InDebt, Bucket
  <2>8. frontier <= ClearAt(item)
    BY <1>3, Zenon DEF DebtInv, DebtIsTheQueue
  <2> HIDE DEF f
  <2> QED BY <1>1, <2>1, <2>3, <2>6, <2>7, <2>8
<1> QED BY <1>2, <1>3, Zenon
\* The step of SlotQueue a step of the key takes.
SlotStep ==
    \/ frontier' = frontier
    \/ frontier' = 0
    \/ frontier' >= frontier /\ frontier' \in now .. now + Ceiling

\* What the two action properties say of one step.
DebtPaidStep ==
    InDebt /\ ClearAt(item) > now /\ resp'.status # "NONE" /\ ~resp'.forgave
    => item' # NoItem /\ item'.rem < 0 /\ ClearAt(item') >= ClearAt(item)

RefusalStep ==
    InDebt /\ ClearAt(item) > now
    /\ (resp'.status = "NEVER_FITS" \/ resp'.retryAfter > 0)
    /\ resp'.status # "SCHEDULED"
    => item' # NoItem /\ item'.rem < 0 /\ ClearAt(item') = ClearAt(item)

KeyStep == DebtInv' /\ SlotStep /\ DebtPaidStep /\ RefusalStep

LEMMA InvTypes ==
    ASSUME DebtInv
    PROVE  /\ now \in Nat /\ frontier \in Int
           /\ item # NoItem => item \in Bucket
           /\ InDebt => /\ ClearAt(item) \in Int /\ ClearAt(item) <= now + Ceiling
                        /\ frontier <= ClearAt(item)
           /\ ~InDebt => frontier <= now
<1>1. now \in Nat /\ frontier \in Int /\ (item # NoItem => item \in Bucket)
  BY Zenon DEF DebtInv, DebtWithinCeiling, TypeOK
<1>2. ASSUME InDebt PROVE ClearAt(item) \in Int
  <2>1. Healthy(item) /\ item.rem < 0
    BY <1>2, InvHealthy, Zenon DEF InDebt
  <2> QED BY <2>1, ClearBy, Zenon DEF Healthy
<1> QED BY <1>1, <1>2, Zenon DEF DebtInv, DebtWithinCeiling, DebtIsTheQueue

\* The invariant in the next state, from what a step leaves.
LEMMA InvNext ==
    ASSUME now' \in Nat, frontier' \in Int,
           item' = NoItem \/ Healthy(item'),
           resp' \in [status : Statuses, retryAfter : Nat, forgave : BOOLEAN],
           InDebt' => /\ item'.expireAt >= fullAt(item', StoredSpeed(item'))
                      /\ ClearAt(item') <= now' + Ceiling
                      /\ frontier' <= ClearAt(item'),
           ~InDebt' => frontier' <= now'
    PROVE  DebtInv'
<1>1. InDebt' <=> item' # NoItem /\ item'.rem < 0
  BY Zenon DEF InDebt
<1>2. TypeOK'
  BY Zenon DEF TypeOK, Healthy
<1>3. DebtWithinCeiling'
  <2>1. ASSUME InDebt' PROVE ~unusableRate(StoredSpeed(item'))
    BY <1>1, <2>1 DEF Healthy, unusableRate
  <2> QED BY <1>2, <2>1, Zenon DEF DebtWithinCeiling
<1>4. DebtOutlived'
  BY Zenon DEF DebtOutlived
<1>5. DebtIsTheQueue'
  BY Zenon DEF DebtIsTheQueue
<1> QED BY <1>3, <1>4, <1>5, Zenon DEF DebtInv

LEMMA CachedStep ==
    ASSUME DebtInv, Cached, NEW q, WellFormed(q), leakyBucket(Request(q))
    PROVE  KeyStep
<1> DEFINE r == Request(q)
           p == DefaultBurst(r)
           a == OnExisting(item, p, now)
           reset == HasBehavior(p, "RESET_REMAINING")
           admits == a.status = "UNDER_LIMIT" /\ p.hits > 0
<1>1. /\ now \in Nat /\ frontier \in Int /\ item # NoItem /\ item \in Bucket
      /\ InDebt => /\ ClearAt(item) \in Int /\ ClearAt(item) <= now + Ceiling
                   /\ frontier <= ClearAt(item)
      /\ ~InDebt => frontier <= now
      /\ InDebt <=> item.rem < 0
  BY InvTypes, Zenon DEF Cached, InDebt
<1>2. Sound(p) /\ validateMaxWait(p)
  BY <1>1, RequestSound DEF leakyBucket
<1>3. DebtAnswer(item, p, now, a)
  BY <1>1, <1>2, InvHealthy, ExistingAnswer, Zenon
<1>4. /\ item' = a.bucket
      /\ resp' = [status |-> a.status, retryAfter |-> a.retryAfter, forgave |-> a.forgave]
      /\ frontier' = IF reset THEN 0
                     ELSE IF a.status = "SCHEDULED" THEN now + a.retryAfter
                     ELSE IF admits THEN now ELSE frontier
      /\ now' = now
  <2> HIDE DEF r, p
  <2> QED BY Zenon DEF leakyBucket, Applied, Advance, r, p
<1> HIDE DEF r, p, a
<1>5. /\ Healthy(item') /\ item' # NoItem
      /\ resp'.status = a.status /\ resp'.retryAfter = a.retryAfter /\ resp'.forgave = a.forgave
      /\ resp' \in [status : Statuses, retryAfter : Nat, forgave : BOOLEAN]
      /\ InDebt' <=> item'.rem < 0
      /\ item'.rem \in Int
  BY <1>3, <1>4, NoItemAssumption, Zenon DEF DebtAnswer, Healthy, Bucket, Statuses, InDebt
<1>6. /\ item'.rem < 0 => item'.expireAt >= fullAt(item', StoredSpeed(item'))
      /\ a.status = "SCHEDULED" =>
            /\ ~reset /\ item'.rem < 0
            /\ a.retryAfter \in 1 .. Ceiling /\ ClearAt(item') = now + a.retryAfter
            /\ item.rem < 0 => ClearAt(item) <= ClearAt(item')
      /\ a.status # "SCHEDULED" /\ item'.rem < 0 =>
            item.rem < 0 /\ ~reset /\ ~admits /\ ClearAt(item') = ClearAt(item)
      /\ item'.rem >= 0 \/ admits => (item.rem < 0 /\ ~reset => ClearAt(item) <= now)
      /\ reset /\ item.rem < 0 /\ ClearAt(item) > now => a.forgave
      /\ a.status = "NEVER_FITS" \/ a.retryAfter > 0 => ~reset
  BY <1>3, <1>4, Zenon DEF DebtAnswer
<1>7. CASE a.status = "SCHEDULED"
  <2>1. frontier' = now + a.retryAfter /\ frontier' = ClearAt(item') /\ InDebt'
    BY <1>4, <1>5, <1>6, <1>7, Zenon
  <2>2. frontier' >= frontier /\ frontier' \in now .. now + Ceiling /\ frontier' \in Int
    BY <1>1, <1>6, <1>7, <2>1, CeilingAssumption
  <2>3. DebtInv'
    BY <1>1, <1>4, <1>5, <1>6, <2>1, <2>2, InvNext
  <2>4. DebtPaidStep /\ RefusalStep
    BY <1>1, <1>5, <1>6, <1>7, <2>1, <2>2, Zenon DEF DebtPaidStep, RefusalStep
  <2> QED BY <2>2, <2>3, <2>4, Zenon DEF KeyStep, SlotStep
<1>8. CASE a.status # "SCHEDULED" /\ item'.rem < 0
  <2>1. frontier' = frontier /\ ClearAt(item') = ClearAt(item) /\ InDebt /\ InDebt'
    BY <1>1, <1>4, <1>5, <1>6, <1>8
  <2>2. DebtInv'
    BY <1>1, <1>4, <1>5, <1>6, <1>8, <2>1, InvNext
  <2>3. DebtPaidStep /\ RefusalStep
    BY <1>1, <1>5, <1>8, <2>1 DEF DebtPaidStep, RefusalStep
  <2> QED BY <2>1, <2>2, <2>3, Zenon DEF KeyStep, SlotStep
<1>9. CASE a.status # "SCHEDULED" /\ item'.rem >= 0
  <2>1. frontier' = 0 \/ (frontier' = now /\ ~reset) \/ (frontier' = frontier /\ ~reset)
    BY <1>4, <1>9
  <2>2. ~reset => frontier <= now
    BY <1>1, <1>6, <1>9
  <2>3. frontier' \in Int /\ frontier' <= now /\ ~InDebt'
    BY <1>1, <1>5, <1>9, <2>1, <2>2
  <2>4. DebtInv'
    BY <1>1, <1>4, <1>5, <2>3, InvNext
  <2>5. SlotStep
    BY <1>1, <2>1, <2>2, CeilingAssumption DEF SlotStep
  <2>6. DebtPaidStep /\ RefusalStep
    <3>1. InDebt /\ ClearAt(item) > now => reset /\ a.forgave
      BY <1>1, <1>6, <1>9
    <3> QED BY <1>5, <1>6, <3>1 DEF DebtPaidStep, RefusalStep
  <2> QED BY <2>4, <2>5, <2>6 DEF KeyStep
<1> QED BY <1>5, <1>7, <1>8, <1>9
LEMMA UncachedStep ==
    ASSUME DebtInv, ~Cached, NEW q, WellFormed(q), leakyBucket(Request(q))
    PROVE  KeyStep
<1> DEFINE r == Request(q)
           p == DefaultBurst(r)
           a == leakyBucketNewItem(NoItem, p, now)
<1>1. now \in Nat /\ now \in Int /\ frontier \in Int /\ frontier <= now
  BY InvTypes, ExpiredIsClear
<1>2. InDebt => ClearAt(item) \in Int /\ ClearAt(item) <= now
  BY InvTypes, ExpiredIsClear
<1>3. Sound(p)
  BY <1>1, RequestSound
<1>4. /\ item' = a.bucket
      /\ resp' = [status |-> a.status, retryAfter |-> a.retryAfter, forgave |-> a.forgave]
      /\ frontier' = IF a.status = "SCHEDULED" THEN now + a.retryAfter
                     ELSE IF a.status = "UNDER_LIMIT" /\ p.hits > 0 THEN now ELSE frontier
      /\ now' = now
  <2> HIDE DEF r, p
  <2> QED BY DEF leakyBucket, Applied, Advance, r, p
<1> HIDE DEF r, p
<1>5. /\ a.bucket = NoItem \/ (Healthy(a.bucket) /\ a.bucket.rem >= 0)
      /\ a.status \in {"UNDER_LIMIT", "OVER_LIMIT", "NEVER_FITS"}
      /\ a.retryAfter = 0 /\ a.forgave = FALSE
  BY <1>1, <1>3, NewItem
<1> HIDE DEF a
<1>6. /\ resp' \in [status : Statuses, retryAfter : Nat, forgave : BOOLEAN]
      /\ item' = NoItem \/ (Healthy(item') /\ item'.rem >= 0 /\ item'.rem \in Int)
  <2>1. resp' \in [status : Statuses, retryAfter : Nat, forgave : BOOLEAN]
    <3>1. a.status \in Statuses /\ a.retryAfter \in Nat
      BY <1>5 DEF Statuses
    <3>2. a.forgave \in BOOLEAN
      BY <1>5, Zenon
    <3> QED BY <1>4, <3>1, <3>2
  <2>2. Healthy(item') => item'.rem \in Int
    BY DEF Healthy, Bucket
  <2> QED BY <1>4, <1>5, <2>1, <2>2
<1>7. ~InDebt'
  BY <1>6 DEF InDebt
<1>8. frontier' = frontier \/ frontier' = now
  BY <1>4, <1>5
<1>9. DebtInv'
  BY <1>1, <1>4, <1>6, <1>7, <1>8, InvNext
<1>10. SlotStep
  BY <1>1, <1>8, CeilingAssumption DEF SlotStep
<1>11. DebtPaidStep /\ RefusalStep
  BY <1>1, <1>2 DEF DebtPaidStep, RefusalStep
<1> QED BY <1>9, <1>10, <1>11 DEF KeyStep

\* A step that leaves the bucket and the slots alone, the clock apart.
LEMMA QuietStep ==
    ASSUME DebtInv, item' = item, frontier' = frontier, now' \in Nat, now' >= now,
           resp' \in [status : Statuses, retryAfter : Nat, forgave : BOOLEAN]
    PROVE  DebtInv'
<1>1. /\ now \in Nat /\ frontier \in Int
      /\ InDebt => ClearAt(item) \in Int /\ ClearAt(item) <= now + Ceiling /\ frontier <= ClearAt(item)
      /\ ~InDebt => frontier <= now
  BY InvTypes
<1>2. item = NoItem \/ Healthy(item)
  BY InvHealthy
<1>3. InDebt => item.expireAt >= fullAt(item, StoredSpeed(item))
  BY DEF DebtInv, DebtOutlived
<1>4. InDebt' <=> InDebt
  BY DEF InDebt
<1> QED BY <1>1, <1>2, <1>3, <1>4, CeilingAssumption, InvNext

LEMMA NoRespTyped ==
    /\ NoResp \in [status : Statuses, retryAfter : Nat, forgave : BOOLEAN]
    /\ Failed \in [status : Statuses, retryAfter : Nat, forgave : BOOLEAN]
    /\ NoResp.status = "NONE" /\ NoResp.retryAfter = 0
    /\ Failed.status = "ERROR" /\ Failed.retryAfter = 0 /\ Failed.forgave = FALSE
  BY DEF NoResp, Failed, Statuses

LEMMA KeyNextStep ==
    ASSUME DebtInv, [KeyNext]_vars
    PROVE  DebtInv' /\ (KeyStep \/ UNCHANGED vars \/ (Tick /\ UNCHANGED <<item, frontier>>))
<1>1. /\ now \in Nat /\ frontier \in Int
      /\ InDebt => ClearAt(item) \in Int /\ ClearAt(item) <= now + Ceiling /\ frontier <= ClearAt(item)
      /\ ~InDebt => frontier <= now
      /\ resp \in [status : Statuses, retryAfter : Nat, forgave : BOOLEAN]
  BY InvTypes DEF DebtInv, DebtWithinCeiling, TypeOK
<1>2. CASE UNCHANGED vars
  BY <1>1, <1>2, QuietStep DEF vars
<1>3. CASE Tick
  BY <1>1, <1>3, QuietStep, NoRespTyped DEF Tick
<1>4. CASE LoseItem
  <2>1. item' = NoItem /\ resp' = NoResp /\ frontier' = 0 /\ now' = now
    BY <1>4 DEF LoseItem
  <2>2. ~InDebt'
    BY <2>1 DEF InDebt
  <2>3. DebtInv'
    BY <1>1, <2>1, <2>2, InvNext, NoRespTyped
  <2>4. SlotStep /\ DebtPaidStep /\ RefusalStep
    BY <2>1, NoRespTyped DEF SlotStep, DebtPaidStep, RefusalStep
  <2> QED BY <2>3, <2>4 DEF KeyStep
<1>5. ASSUME NEW q, WellFormed(q), Reject(Request(q)) PROVE KeyStep
  <2>1. item' = item /\ frontier' = frontier /\ now' = now /\ resp' = Failed
    BY <1>5 DEF Reject
  <2>2. DebtInv'
    BY <1>1, <2>1, QuietStep, NoRespTyped
  <2>3. SlotStep /\ DebtPaidStep /\ RefusalStep
    BY <1>1, <2>1, NoRespTyped DEF SlotStep, DebtPaidStep, RefusalStep, InDebt
  <2> QED BY <2>2, <2>3 DEF KeyStep
<1>6. ASSUME NEW q, WellFormed(q), FailGregorian(Request(q)) PROVE KeyStep
  <2>1. /\ item' = IF Cached THEN item ELSE NoItem
        /\ frontier' = frontier /\ now' = now /\ resp' = Failed
    BY <1>6 DEF FailGregorian
  <2>2. CASE Cached
    <3>1. DebtInv'
      BY <1>1, <2>1, <2>2, QuietStep, NoRespTyped
    <3>2. SlotStep /\ DebtPaidStep /\ RefusalStep
      BY <1>1, <2>1, <2>2, NoRespTyped DEF SlotStep, DebtPaidStep, RefusalStep, InDebt
    <3> QED BY <3>1, <3>2 DEF KeyStep
  <2>3. CASE ~Cached
    <3>1. frontier <= now /\ (InDebt => ClearAt(item) <= now)
      BY <2>3, ExpiredIsClear
    <3>2. item' = NoItem
      BY <2>1, <2>3
    <3>3. ~InDebt'
      BY <3>2 DEF InDebt
    <3>4. DebtInv'
      BY <1>1, <2>1, <3>1, <3>2, <3>3, InvNext, NoRespTyped
    <3>5. SlotStep /\ DebtPaidStep /\ RefusalStep
      BY <1>1, <2>1, <3>1, NoRespTyped DEF SlotStep, DebtPaidStep, RefusalStep
    <3> QED BY <3>4, <3>5 DEF KeyStep
  <2> QED BY <2>2, <2>3
<1>7. ASSUME NEW q, WellFormed(q), leakyBucket(Request(q)) PROVE KeyStep
  BY <1>7, CachedStep, UncachedStep
<1> QED BY <1>2, <1>3, <1>4, <1>5, <1>6, <1>7 DEF KeyNext, KeyStep, Tick

LEMMA InitInv == Init => DebtInv
<1> SUFFICES ASSUME Init PROVE DebtInv
  OBVIOUS
<1>1. ~InDebt
  BY DEF Init, InDebt
<1>2. TypeOK
  BY NoRespTyped DEF Init, TypeOK
<1> QED BY <1>1, <1>2 DEF DebtInv, DebtWithinCeiling, DebtOutlived, DebtIsTheQueue, Init

-----------------------------------------------------------------------------
(* The theorems.                                                           *)

LEMMA KeyInvariant == Spec => []DebtInv
<1>1. DebtInv /\ [Next]_vars => DebtInv'
  BY NextIsKeyNext, KeyNextStep
<1> QED BY <1>1, InitInv, PTL DEF Spec

\* An item in debt outlives its debt, whatever configurations, refunds,
\* drains, resets and calendar requests reach the key (DebtOutlived).
THEOREM BucketOutlivesDebt == Spec => []DebtOutlived
<1>1. DebtInv => DebtOutlived
  BY DEF DebtInv
<1> QED BY <1>1, KeyInvariant, PTL

\* The state is well typed, a balance never exceeds its burst, and debt is
\* owed at a usable rate and clears within one wait ceiling.
THEOREM DebtBounded == Spec => []DebtWithinCeiling
<1>1. DebtInv => DebtWithinCeiling
  BY DEF DebtInv
<1> QED BY <1>1, KeyInvariant, PTL

\* The balance below zero is the whole queue of bookings: no granted slot
\* lies beyond it.
THEOREM QueueIsDebt == Spec => []DebtIsTheQueue
<1>1. DebtInv => DebtIsTheQueue
  BY DEF DebtInv
<1> QED BY <1>1, KeyInvariant, PTL

\* The key implements SlotQueue: slots are granted in processing order,
\* never before the present, never past the ceiling.
THEOREM ImplementsSlotQueue == Spec => SlotOrder
<1>1. Init => SQ!Init
  BY DEF Init, SQ!Init
<1>2. DebtInv /\ [Next]_vars => [SQ!Next]_(SQ!vars)
  <2> SUFFICES ASSUME DebtInv, [Next]_vars PROVE [SQ!Next]_(SQ!vars)
    OBVIOUS
  <2>1. KeyStep \/ UNCHANGED vars \/ (Tick /\ UNCHANGED <<item, frontier>>)
    BY NextIsKeyNext, KeyNextStep
  <2>2. CASE UNCHANGED vars
    BY <2>2 DEF vars, SQ!vars
  <2>3. CASE Tick
    BY <2>3 DEF Tick, SQ!Next, SQ!Tick
  <2>4. CASE KeyStep /\ ~Tick
    <3>1. now' = now
      BY <2>4 DEF Next, LoseItem, Reject, FailGregorian, leakyBucket, vars
    <3> QED BY <2>4, <3>1 DEF KeyStep, SlotStep, SQ!Next, SQ!Grant, SQ!Forget, SQ!vars
  <2> QED BY <2>1, <2>2, <2>3, <2>4
<1> QED BY <1>1, <1>2, KeyInvariant, PTL DEF Spec, SlotOrder, SQ!Spec

\* Only leak, a counted reset or a loss of state pays a debt
\* (DebtOnlyPaidByLeak).
THEOREM OnlyLeakPays == Spec => DebtOnlyPaidByLeak
<1>1. DebtInv /\ [Next]_vars => [DebtPaidStep]_vars
  <2> SUFFICES ASSUME DebtInv, [Next]_vars PROVE [DebtPaidStep]_vars
    OBVIOUS
  <2>1. CASE Tick
    BY <2>1, NoRespTyped DEF Tick, DebtPaidStep
  <2> QED BY <2>1, NextIsKeyNext, KeyNextStep DEF KeyStep
<1> QED BY <1>1, KeyInvariant, PTL DEF Spec, DebtOnlyPaidByLeak, DebtPaidStep

\* A refused max_wait request leaves the debt where it was
\* (RefusalChargesNothing).
THEOREM RefusalsChargeNothing == Spec => RefusalChargesNothing
<1>1. DebtInv /\ [Next]_vars => [RefusalStep]_vars
  <2> SUFFICES ASSUME DebtInv, [Next]_vars PROVE [RefusalStep]_vars
    OBVIOUS
  <2>1. CASE Tick
    BY <2>1, NoRespTyped DEF Tick, RefusalStep
  <2> QED BY <2>1, NextIsKeyNext, KeyNextStep DEF KeyStep
<1> QED BY <1>1, KeyInvariant, PTL DEF Spec, RefusalChargesNothing, RefusalStep
============================================================================

------------------------- MODULE LeakySpacingProofs ------------------------
(***************************************************************************)
(* Proof that leaky slots keep the configured rate, for any configuration  *)
(* that LeakySpacing meters.                                               *)
(***************************************************************************)
EXTENDS LeakySpacing, LeakyBucketProofs

LEMMA SpacingIsKeyNext == [SpacingNext]_spacingVars => [KeyNext]_vars
<1> SUFFICES ASSUME [SpacingNext]_spacingVars PROVE [KeyNext]_vars
  BY Zenon
<1>1. CASE cfg = AnyConfig /\ Next
  BY <1>1, NextIsKeyNext, Zenon
<1>2. CASE Tick
  BY <1>2, Zenon DEF KeyNext
<1>3. CASE \E q \in Metered : Reject(Request(q)) \/ leakyBucket(Request(q))
  BY <1>3, MeteredAssumption, Zenon DEF KeyNext, Meterable
<1>4. CASE UNCHANGED spacingVars
  BY <1>4, Zenon DEF spacingVars
<1> QED BY <1>1, <1>2, <1>3, <1>4, Zenon DEF SpacingNext

\* One configuration as numbers: limit l, duration d, burst B; v units leak
\* per millisecond, the bucket holds cap, slots round by at most R.
Metric(l, d, B, v, cap, R) ==
    /\ l \in Nat /\ d \in Nat \ {0} /\ B \in Nat /\ B <= l
    /\ v \in Nat /\ v = Speed(l, d) /\ v * d = Unit * l
    /\ cap \in Nat /\ cap = Unit * B /\ cap <= Unit * l
    /\ R \in Nat /\ R <= v
    /\ v > 0 => R = v - 1 \/ (R = 0 /\ \E m \in Int : Unit = m * v)

\* The bucket b never holds more than the reference, whose balance was cr at
\* the latest slot f; a full reference is due when b expires.
Metering(v, cap, R, b, n, f, cr) ==
    /\ cr >= -R
    /\ b.updatedAt <= n
    /\ (\E m \in Int : Unit = m * v) => \E m \in Int : b.rem = m * v
    /\ cr + (b.expireAt + 1 - f) * v >= cap
    /\ IF b.rem < 0
       THEN f = ClearAt(b) /\ cr + R >= b.rem + (f - b.updatedAt) * v
       ELSE cr + (n - f) * v + R >= Smaller(cap, b.rem + (n - b.updatedAt) * v)

\* A request of the one configuration, stamped by the owner's clock.
OfConfig(p, l, d, B, n) ==
    /\ Sound(p) /\ p.limit = l /\ p.duration = d /\ p.burst = B /\ p.createdAt = n
    /\ ~HasBehavior(p, "RESET_REMAINING") /\ ~Gregorian(p) /\ p.hits >= 0

LEMMA SteadySettle ==
    ASSUME NEW l, NEW d, NEW B, NEW v, NEW cap, NEW R, Metric(l, d, B, v, cap, R),
           NEW b, Healthy(b), b.limit = l, b.duration = d, b.burst = B,
           NEW n \in Int, b.updatedAt <= n, NEW p, OfConfig(p, l, d, B, n),
           NEW s, s = Settle(b, p, n, n)
    PROVE  /\ RequestClock(b, p, n) = n
           /\ s \in Bucket /\ s.limit = l /\ s.duration = d /\ s.burst = B /\ s.updatedAt = n
           /\ s.rem = Smaller(cap, b.rem + (n - b.updatedAt) * v)
           /\ s.expireAt = IF p.hits # 0 /\ ~(b.rem < 0) THEN n + d ELSE b.expireAt
           /\ FinalSpeed(b, p, s.rem) = v
           /\ wasInDebt(b, p) <=> b.rem < 0
<1> DEFINE x == b.rem + (n - b.updatedAt) * v
<1>1. /\ b \in Bucket /\ b.rem \in Int /\ b.updatedAt \in Int
      /\ Sound(p) /\ p.limit = l /\ p.duration = d /\ p.burst = B /\ p.createdAt = n
      /\ ~HasBehavior(p, "RESET_REMAINING") /\ ~Gregorian(p)
      /\ v \in Nat /\ v = Speed(l, d) /\ cap = Unit * B
  BY Zenon DEF Healthy, Bucket, OfConfig, Metric
<1>2. StoredSpeed(b) = v /\ RequestSpeed(p) = v
  BY <1>1, Zenon DEF StoredSpeed, RequestSpeed
<1>3. RequestClock(b, p, n) = n
  BY <1>1, Zenon DEF RequestClock
<1>4. creditedLeak(b, n, v) = (n - b.updatedAt) * v
  <2>1. n = b.updatedAt => (n - b.updatedAt) * v = 0
    BY <1>1
  <2> QED BY <1>1, <2>1 DEF creditedLeak
<1>5. Credited(b, p, n) = x
  BY <1>2, <1>4, Zenon DEF Credited
<1>6. Rescaled(b, p, n) = x
  <2>1. ~rescale(b, p)
    BY <1>1, Zenon DEF rescale, configChanged
  <2> QED BY <1>5, <2>1, Zenon DEF Rescaled
<1>7. NewBurst(b, p, n) = B
  BY <1>1, Zenon DEF NewBurst
<1>8. Settled(b, p, n, B) = Smaller(cap, x)
  <2>1. Shifted(b, p, n, B) = x
    BY <1>6, Zenon DEF Shifted
  <2> QED BY <1>1, <2>1, Zenon DEF Settled
<1>9. wasInDebt(b, p) <=> b.rem < 0
  BY <1>1, Zenon DEF wasInDebt
<1>10. Larger(b.updatedAt, n) = n
  BY <1>1 DEF Larger
<1>11. Span(p, n) = d
  BY <1>1, Zenon DEF Span
<1>12. /\ s \in Bucket /\ s.burst = B /\ s.rem = Settled(b, p, n, s.burst) /\ s.updatedAt = n
       /\ s.limit = (IF Adopts(b, p, s.rem) THEN l ELSE b.limit)
       /\ s.duration = (IF Adopts(b, p, s.rem) THEN d ELSE b.duration)
       /\ s.expireAt = (IF p.hits # 0 /\ ~wasInDebt(b, p) THEN n + d ELSE b.expireAt)
  BY <1>1, <1>7, <1>10, <1>11, SettleFields
<1> HIDE DEF x
<1>13. FinalSpeed(b, p, s.rem) = v
  BY <1>2, Zenon DEF FinalSpeed
<1> QED BY <1>3, <1>8, <1>9, <1>12, <1>13, Zenon DEF x

\* Multiples of v below v and not below zero are zero.
LEMMA SmallMultiple ==
    ASSUME NEW m \in Int, NEW v \in Nat \ {0}, m * v >= 0, m * v < v
    PROVE  m * v = 0
<1>1. CASE m >= 1
  <2>1. 1 * v <= m * v
    BY <1>1, MulMonotone
  <2> QED BY <2>1
<1>2. CASE m <= -1
  <2>1. m * v <= (-1) * v
    BY <1>2, MulMonotone
  <2> QED BY <2>1
<1>3. CASE m = 0
  BY <1>3
<1> QED BY <1>1, <1>2, <1>3

\* The least moment at which the leak covers a debt leaves less than one
\* millisecond's leak over.
LEMMA ClearIsTight ==
    ASSUME NEW b \in Bucket, NEW v \in Nat \ {0}, StoredSpeed(b) = v
    PROVE  LET rest == b.rem + (ClearAt(b) - b.updatedAt) * v
           IN  ClearAt(b) \in Int /\ rest \in Int /\ rest >= 0 /\ rest < v
<1> DEFINE k == ClearAt(b)
<1>1. b.rem \in Int /\ b.updatedAt \in Int
  BY Zenon DEF Bucket
<1>2. k \in Int /\ \A j \in Int : k <= j <=> b.rem + (j - b.updatedAt) * v >= 0
  BY ClearBy, Zenon
<1> HIDE DEF k
<1>3. b.rem + (k - b.updatedAt) * v >= 0
  BY <1>2
<1>4. ~(b.rem + (k - 1 - b.updatedAt) * v >= 0)
  BY <1>2
<1>5. (k - 1 - b.updatedAt) * v = (k - b.updatedAt) * v - v /\ (k - b.updatedAt) * v \in Int
  BY <1>1, <1>2
<1> QED BY <1>1, <1>2, <1>3, <1>4, <1>5 DEF k

LEMMA BucketFields ==
    ASSUME NEW b \in Bucket
    PROVE  b.rem \in Int /\ b.updatedAt \in Int /\ b.expireAt \in Int
BY DEF Bucket

LEMMA TimesMultiple ==
    ASSUME NEW v \in Int, NEW k \in Int, \E m \in Int : Unit = m * v
    PROVE  \E m \in Int : Unit * k = m * v
<1>1. PICK j \in Int : Unit = j * v
  BY Zenon
<1>2. Unit * k = (j * k) * v /\ j * k \in Int
  BY <1>1
<1> QED BY <1>2, Zenon

LEMMA MeterSettled ==
    ASSUME NEW l, NEW d, NEW B, NEW v, NEW cap, NEW R, Metric(l, d, B, v, cap, R),
           NEW b, Healthy(b), b.limit = l, b.duration = d, b.burst = B,
           NEW n \in Int, NEW f \in Int, NEW cr \in Int,
           Metering(v, cap, R, b, n, f, cr), b.rem >= 0 => f <= n,
           NEW p, OfConfig(p, l, d, B, n), NEW s, s = Settle(b, p, n, n)
    PROVE  /\ s.rem \in Int /\ s.rem <= cap
           /\ (\E m \in Int : Unit = m * v) => \E m \in Int : s.rem = m * v
           /\ s.rem < 0 => b.rem < 0 /\ f = ClearAt(s) /\ cr + R >= s.rem + (f - n) * v
           /\ s.rem >= 0 => f <= n /\ cr + (n - f) * v + R >= s.rem
<1> DEFINE x == b.rem + (n - b.updatedAt) * v
           Exact == \E m \in Int : Unit = m * v
<1>1. /\ b \in Bucket /\ b.rem \in Int /\ b.updatedAt \in Int /\ b.updatedAt <= n
      /\ v \in Nat /\ cap \in Int /\ R \in Int /\ B \in Nat /\ cap = Unit * B /\ cap >= 0
  BY DEF Healthy, Bucket, Metric, Metering
<1>2. /\ s.rem = Smaller(cap, x) /\ s.updatedAt = n
      /\ ~HasBehavior(p, "RESET_REMAINING") /\ Sound(p)
  BY <1>1, SteadySettle DEF OfConfig
<1>3. x \in Int /\ (n - b.updatedAt) * v \in Int
  BY <1>1
<1>4. /\ s.rem < 0 => b.rem < 0 /\ ClearAt(s) = ClearAt(b)
      /\ s.rem >= 0 /\ b.rem < 0 => ClearAt(b) <= n
  BY <1>2, SettleDebt
<1>5. s.rem \in Int /\ s.rem <= cap /\ s.rem <= x /\ (s.rem < 0 => s.rem = x)
  <2> HIDE DEF x
  <2> QED BY <1>1, <1>2, <1>3 DEF Smaller
<1>6. ASSUME Exact PROVE \E m \in Int : s.rem = m * v
  <2>1. \E m \in Int : cap = m * v
    BY <1>1, <1>6, TimesMultiple
  <2>2. \E m \in Int : b.rem = m * v
    BY <1>6, Zenon DEF Metering
  <2>3. \E m \in Int : x = m * v
    <3>1. PICK j \in Int : b.rem = j * v
      BY <2>2, Zenon
    <3>2. x = (j + (n - b.updatedAt)) * v /\ j + (n - b.updatedAt) \in Int
      BY <1>1, <3>1
    <3> HIDE DEF x
    <3> QED BY <3>2, Zenon
  <2>4. s.rem = cap \/ s.rem = x
    BY <1>2, Zenon DEF Smaller
  <2> QED BY <2>1, <2>3, <2>4, Zenon
<1>7. ASSUME b.rem < 0
      PROVE  f = ClearAt(b) /\ cr + R >= b.rem + (f - b.updatedAt) * v
  BY <1>7, Zenon DEF Metering
<1>8. /\ (f - b.updatedAt) * v \in Int /\ (f - n) * v \in Int /\ (n - f) * v \in Int
      /\ (f - n) * v + (n - b.updatedAt) * v = (f - b.updatedAt) * v
      /\ (n - f) * v = -((f - n) * v)
  BY <1>1
<1>9. ASSUME s.rem < 0
      PROVE  b.rem < 0 /\ f = ClearAt(s) /\ cr + R >= s.rem + (f - n) * v
  <2>1. b.rem < 0 /\ f = ClearAt(s) /\ cr + R >= b.rem + (f - b.updatedAt) * v
    BY <1>4, <1>7, <1>9, Zenon
  <2> QED BY <1>1, <1>3, <1>5, <1>8, <1>9, <2>1
<1>10. ASSUME s.rem >= 0
       PROVE  f <= n /\ cr + (n - f) * v + R >= s.rem
  <2>1. CASE b.rem < 0
    <3>1. f <= n /\ cr + R >= b.rem + (f - b.updatedAt) * v
      BY <1>4, <1>7, <1>10, <2>1, Zenon
    <3>2. cr + (n - f) * v + R >= x
      BY <1>1, <1>3, <1>8, <3>1
    <3> HIDE DEF x
    <3> QED BY <1>1, <1>3, <1>5, <1>8, <3>1, <3>2
  <2>2. CASE b.rem >= 0
    BY <1>1, <1>2, <2>2 DEF Metering
  <2> QED BY <1>1, <2>1, <2>2
<1> QED BY <1>5, <1>6, <1>9, <1>10, Zenon

\* The part of Metering about the expiry after a charge: a bucket kept until
\* it is full again expires no earlier than the reference is full.
LEMMA FullReferenceDue ==
    ASSUME NEW l, NEW d, NEW B, NEW v, NEW cap, NEW R, Metric(l, d, B, v, cap, R),
           NEW o \in Bucket, NEW f \in Int, NEW cr \in Int, o.burst = B, v > 0,
           o.expireAt >= fullAt(o, v), cr + R >= o.rem + (f - o.updatedAt) * v
    PROVE  cr + (o.expireAt + 1 - f) * v >= cap
<1> DEFINE e == o.expireAt
           u == o.updatedAt
<1>1. /\ v \in Nat \ {0} /\ cap \in Int /\ cap = Unit * B /\ R \in Int /\ R <= v
      /\ o.rem \in Int /\ u \in Int /\ e \in Int
  BY DEF Metric, Bucket
<1>2. \A k \in Int : fullAt(o, v) <= k <=> o.rem + (k - o.updatedAt) * v >= Unit * o.burst
  BY <1>1, FullBy, Zenon
<1>3. fullAt(o, v) \in Int
  BY <1>1, FullBy, Zenon
<1>4. o.rem + (e - u) * v >= cap
  BY <1>1, <1>2, <1>3, Zenon
<1>5. cr + R >= o.rem + (f - u) * v
  BY Zenon
<1> HIDE DEF e, u
<1>6. /\ (e + 1 - f) * v = (e - u) * v + v - (f - u) * v
      /\ (e - u) * v \in Int /\ (f - u) * v \in Int
  BY <1>1
<1> QED BY <1>1, <1>4, <1>5, <1>6 DEF e

\* One duration refills the bucket: so it does the reference.
LEMMA DurationRefills ==
    ASSUME NEW l, NEW d, NEW B, NEW v, NEW cap, NEW R, Metric(l, d, B, v, cap, R),
           NEW n \in Int, NEW f \in Int, NEW cr \in Int, NEW e \in Int,
           cr >= -R, f <= n, e >= n + d
    PROVE  cr + (e + 1 - f) * v >= cap
<1>1. /\ v \in Nat /\ d \in Nat /\ cap \in Int /\ R \in Int /\ R <= v
      /\ v * d \in Int /\ cap <= v * d
  BY DEF Metric
<1>2. (e + 1 - f) * v >= (d + 1) * v
  <2>1. CASE v = 0
    BY <1>1, <2>1
  <2>2. CASE v > 0
    BY <1>1, <2>2, MulMonotone
  <2> QED BY <1>1, <2>1, <2>2
<1>3. (d + 1) * v = v * d + v /\ (e + 1 - f) * v \in Int
  BY <1>1
<1> QED BY <1>1, <1>2, <1>3

\* A later expiry is no worse.
LEMMA LaterExpiry ==
    ASSUME NEW v \in Nat, NEW cap \in Int, NEW f \in Int, NEW cr \in Int, NEW e \in Int, NEW g \in Int,
           e <= g, cr + (e + 1 - f) * v >= cap
    PROVE  cr + (g + 1 - f) * v >= cap
<1>1. (e + 1 - f) * v <= (g + 1 - f) * v
  <2>1. CASE v = 0
    BY <2>1
  <2>2. CASE v > 0
    BY <2>2, MulMonotone
  <2> QED BY <2>1, <2>2
<1>2. (e + 1 - f) * v \in Int /\ (g + 1 - f) * v \in Int
  OBVIOUS
<1> QED BY <1>1, <1>2

\* A booking of h units from the balance x, the slot g where the debt clears
\* and the reference's balance c there.
Booked(v, cap, R, n, f, cr, x, h, o, g, c) ==
    /\ v > 0 /\ x \in Int /\ h \in Int /\ g \in Int
    /\ o.updatedAt = n /\ o.rem < 0 /\ o.rem = x - h
    /\ StoredSpeed(o) = v /\ o.expireAt >= fullAt(o, v)
    /\ (\E m \in Int : Unit = m * v) => \E m \in Int : o.rem = m * v
    /\ h <= cap /\ cr + R >= x + (f - n) * v
    /\ g = ClearAt(o) /\ c = Smaller(cap, cr + (g - f) * v) - h

\* The charged reference still covers what the bucket holds at the slot.
LEMMA BookedReference ==
    ASSUME NEW l, NEW d, NEW B, NEW v, NEW cap, NEW R, Metric(l, d, B, v, cap, R),
           NEW n \in Int, NEW f \in Int, NEW cr \in Int, NEW x, NEW h,
           NEW o \in Bucket, NEW g, NEW c, Booked(v, cap, R, n, f, cr, x, h, o, g, c),
           o.rem + (g - n) * v >= 0, o.rem + (g - n) * v < v
    PROVE  c + R >= o.rem + (g - n) * v
<1> DEFINE rest == o.rem + (g - n) * v
<1>1. /\ v \in Nat \ {0} /\ cap \in Int /\ R \in Int /\ o.rem \in Int /\ g \in Int /\ h \in Int /\ x \in Int
      /\ o.rem = x - h /\ h <= cap /\ cr + R >= x + (f - n) * v
      /\ c = Smaller(cap, cr + (g - f) * v) - h
  BY DEF Metric, Bucket, Booked
<1>2. /\ (g - f) * v \in Int /\ (g - n) * v \in Int /\ (f - n) * v \in Int
      /\ (g - f) * v + (f - n) * v = (g - n) * v
  BY <1>1
<1>3. CASE cap <= cr + (g - f) * v
  <2>1. c = cap - h
    BY <1>1, <1>3, Zenon DEF Smaller
  <2>2. CASE R = v - 1
    BY <1>1, <1>2, <2>1, <2>2
  <2>3. CASE R = 0 /\ \E m \in Int : Unit = m * v
    <3>1. PICK m \in Int : o.rem = m * v
      BY <2>3, Zenon DEF Booked
    <3> DEFINE j == m + (g - n)
    <3>2. rest = j * v /\ j \in Int
      BY <1>1, <3>1
    <3>3. rest = 0
      <4>1. rest >= 0 /\ rest < v
        BY Zenon
      <4> HIDE DEF j, rest
      <4> QED BY <1>1, <3>2, <4>1, SmallMultiple, Zenon
    <3> QED BY <1>1, <1>2, <2>1, <2>3, <3>3
  <2> QED BY <1>1, <2>2, <2>3 DEF Metric
<1>4. CASE ~(cap <= cr + (g - f) * v)
  <2>1. c = cr + (g - f) * v - h
    BY <1>1, <1>4 DEF Smaller
  <2> QED BY <1>1, <1>2, <2>1
<1> QED BY <1>3, <1>4, Zenon

LEMMA MeterBooked ==
    ASSUME NEW l, NEW d, NEW B, NEW v, NEW cap, NEW R, Metric(l, d, B, v, cap, R),
           NEW n \in Int, NEW f \in Int, NEW cr \in Int, NEW x, NEW h,
           NEW o \in Bucket, o.burst = B, NEW g, NEW c, Booked(v, cap, R, n, f, cr, x, h, o, g, c)
    PROVE  c \in Int /\ Metering(v, cap, R, o, n, g, c)
<1>1. /\ v \in Nat \ {0} /\ cap \in Int /\ R \in Int /\ o.rem \in Int /\ g \in Int /\ h \in Int /\ x \in Int
      /\ (g - f) * v \in Int /\ (g - n) * v \in Int
  BY DEF Metric, Bucket, Booked
<1>2. /\ o.updatedAt = n /\ o.rem < 0 /\ o.rem = x - h
      /\ StoredSpeed(o) = v /\ o.expireAt >= fullAt(o, v)
      /\ (\E m \in Int : Unit = m * v) => \E m \in Int : o.rem = m * v
      /\ h <= cap /\ cr + R >= x + (f - n) * v
      /\ g = ClearAt(o) /\ c = Smaller(cap, cr + (g - f) * v) - h
  BY Zenon DEF Booked
<1>3. c \in Int
  BY <1>1, <1>2 DEF Smaller
<1>4. o.rem + (g - n) * v >= 0 /\ o.rem + (g - n) * v < v
  BY <1>1, <1>2, ClearIsTight, Zenon
<1>5. c + R >= o.rem + (g - n) * v
  BY <1>4, BookedReference, Zenon
<1>6. c >= -R
  BY <1>1, <1>3, <1>4, <1>5
<1>7. c + (o.expireAt + 1 - g) * v >= cap
  BY <1>1, <1>2, <1>3, <1>5, FullReferenceDue
<1> QED BY <1>2, <1>3, <1>5, <1>6, <1>7 DEF Metering

\* An admission of h units from the balance x, charged now.
Admitted(v, cap, R, n, d, f, cr, x, h, o, c) ==
    /\ x \in Int /\ h \in Int
    /\ o.updatedAt = n /\ o.rem >= 0 /\ o.rem = x - h
    /\ (\E m \in Int : Unit = m * v) => \E m \in Int : o.rem = m * v
    /\ f <= n /\ x <= cap /\ cr + (n - f) * v + R >= x
    /\ o.expireAt >= n + d \/ (v > 0 /\ o.expireAt >= fullAt(o, v))
    /\ c = Smaller(cap, cr + (n - f) * v) - h

LEMMA MeterAdmitted ==
    ASSUME NEW l, NEW d, NEW B, NEW v, NEW cap, NEW R, Metric(l, d, B, v, cap, R),
           NEW n \in Int, NEW f \in Int, NEW cr \in Int, NEW x, NEW h,
           NEW o \in Bucket, o.burst = B, NEW c, Admitted(v, cap, R, n, d, f, cr, x, h, o, c)
    PROVE  c \in Int /\ Metering(v, cap, R, o, n, n, c)
<1>1. /\ v \in Nat /\ cap \in Int /\ R \in Nat /\ o.rem \in Int /\ o.expireAt \in Int /\ x \in Int /\ h \in Int
      /\ (n - f) * v \in Int /\ (n - n) * v = 0
  BY DEF Metric, Bucket, Admitted
<1>2. /\ o.updatedAt = n /\ o.rem >= 0 /\ o.rem = x - h
      /\ f <= n /\ x <= cap /\ cr + (n - f) * v + R >= x
      /\ o.expireAt >= n + d \/ (v > 0 /\ o.expireAt >= fullAt(o, v))
      /\ c = Smaller(cap, cr + (n - f) * v) - h
  BY Zenon DEF Admitted
<1>3. c \in Int /\ c + R >= o.rem
  BY <1>1, <1>2 DEF Smaller
<1>4. c >= -R
  BY <1>1, <1>2, <1>3
<1>5. c + (o.expireAt + 1 - n) * v >= cap
  <2>1. CASE o.expireAt >= n + d
    <3> DEFINE e == o.expireAt
    <3>1. e \in Int /\ e >= n + d /\ n <= n
      BY <1>1, <2>1
    <3> HIDE DEF e
    <3>2. c + (e + 1 - n) * v >= cap
      BY <1>3, <1>4, <3>1, DurationRefills, Zenon
    <3> QED BY <3>2, Zenon DEF e
  <2>2. CASE v > 0 /\ o.expireAt >= fullAt(o, v)
    <3>1. c + R >= o.rem + (n - o.updatedAt) * v
      BY <1>1, <1>2, <1>3
    <3> QED BY <1>3, <2>2, <3>1, FullReferenceDue, Zenon
  <2> QED BY <1>2, <2>1, <2>2, Zenon
<1>6. c + (n - n) * v + R >= Smaller(cap, o.rem + (n - o.updatedAt) * v)
  BY <1>1, <1>2, <1>3 DEF Smaller
<1> QED BY <1>1, <1>2, <1>3, <1>4, <1>5, <1>6 DEF Metering, Admitted

\* No charge of the reference: the bucket keeps its settled balance x or
\* loses of it.
Kept(v, cap, R, n, f, cr, x, o) ==
    /\ x \in Int /\ o.updatedAt = n
    /\ (\E m \in Int : Unit = m * v) => \E m \in Int : o.rem = m * v
    /\ cr >= -R /\ cr + (o.expireAt + 1 - f) * v >= cap
    /\ IF o.rem < 0
       THEN o.rem = x /\ f = ClearAt(o) /\ cr + R >= x + (f - n) * v
       ELSE o.rem <= x /\ cr + (n - f) * v + R >= x

LEMMA MeterKept ==
    ASSUME NEW l, NEW d, NEW B, NEW v, NEW cap, NEW R, Metric(l, d, B, v, cap, R),
           NEW n \in Int, NEW f \in Int, NEW cr \in Int, NEW x,
           NEW o \in Bucket, Kept(v, cap, R, n, f, cr, x, o)
    PROVE  Metering(v, cap, R, o, n, f, cr)
<1>1. /\ v \in Nat /\ cap \in Int /\ R \in Int /\ o.rem \in Int /\ x \in Int
      /\ (n - f) * v \in Int /\ (n - n) * v = 0
  BY DEF Metric, Bucket, Kept
<1>2. CASE o.rem < 0
  BY <1>1, <1>2 DEF Metering, Kept
<1>3. CASE ~(o.rem < 0)
  <2>1. o.updatedAt = n /\ o.rem <= x /\ cr + (n - f) * v + R >= x
    BY <1>3, Zenon DEF Kept
  <2>2. cr + (n - f) * v + R >= Smaller(cap, o.rem + (n - o.updatedAt) * v)
    BY <1>1, <2>1 DEF Smaller
  <2> QED BY <1>1, <1>3, <2>2 DEF Metering, Kept
<1> QED BY <1>2, <1>3, Zenon

\* The slot and the balance of the reference after an answer.
SlotAfter(p, a, n, f) ==
    IF a.status = "SCHEDULED" THEN n + a.retryAfter
    ELSE IF a.status = "UNDER_LIMIT" /\ p.hits > 0 THEN n ELSE f

CreditAfter(p, a, v, cap, f, g, cr) ==
    IF p.hits > 0 /\ a.status \in {"UNDER_LIMIT", "SCHEDULED"}
    THEN Smaller(cap, cr + (g - f) * v) - Unit * p.hits ELSE cr

\* What a request of the one configuration does to the cached bucket b, from
\* the balance x it settles at.
Charge(b, p, n, v, cap, x, h, a) ==
    LET o == a.bucket
    IN  CASE a.status = "SCHEDULED" ->
               /\ p.hits > 0 /\ v > 0 /\ h <= cap
               /\ o.rem < 0 /\ o.rem = x - h /\ o.expireAt >= fullAt(o, v) /\ StoredSpeed(o) = v
               /\ a.retryAfter \in Nat /\ ClearAt(o) = n + a.retryAfter
          [] a.status = "UNDER_LIMIT" /\ p.hits > 0 ->
               /\ x >= 0 /\ o.rem >= 0 /\ o.rem = x - h
               /\ o.expireAt >= n + p.duration \/ (v > 0 /\ o.expireAt >= fullAt(o, v))
          [] OTHER ->
               /\ o.rem = x \/ (x >= 0 /\ o.rem = 0)
               /\ o.expireAt >= b.expireAt \/ (b.rem >= 0 /\ o.expireAt >= n + p.duration)

\* A request of the configuration that meets the cached bucket, and one that meets none.
OnCached(l, d, B, v, cap, R, b, n, f, cr, p, a, g, c) ==
    /\ Metric(l, d, B, v, cap, R) /\ Healthy(b) /\ n \in Int /\ f \in Int /\ cr \in Int
    /\ b.limit = l /\ b.duration = d /\ b.burst = B
    /\ Metering(v, cap, R, b, n, f, cr) /\ (b.rem >= 0 => f <= n)
    /\ OfConfig(p, l, d, B, n) /\ validateMaxWait(p) /\ a = OnExisting(b, p, n)
    /\ g = SlotAfter(p, a, n, f) /\ c = CreditAfter(p, a, v, cap, f, g, cr)

OnFresh(l, d, B, v, cap, R, n, f, cr, p, a, g, c) ==
    /\ Metric(l, d, B, v, cap, R) /\ n \in Int /\ f \in Int /\ cr \in Int
    /\ cr >= -R /\ f <= n /\ cr + (n - f) * v >= cap
    /\ OfConfig(p, l, d, B, n) /\ a = leakyBucketNewItem(NoItem, p, n)
    /\ g = SlotAfter(p, a, n, f) /\ c = CreditAfter(p, a, v, cap, f, g, cr)

\* The meter after a request, whichever way it was answered.
Answered(l, d, B, v, cap, R, n, a, g, c) ==
    /\ c \in Int /\ c >= -R
    /\ a.bucket = NoItem => c + (n - g) * v >= cap
    /\ a.bucket # NoItem =>
          /\ a.bucket.limit = l /\ a.bucket.duration = d /\ a.bucket.burst = B
          /\ Metering(v, cap, R, a.bucket, n, g, c)

\* The bucket a request of the one configuration leaves.
Effect(l, d, B, v, cap, b, p, n, a) ==
    LET s == Settle(b, p, n, n)
        o == a.bucket
    IN  /\ o \in Bucket /\ o.limit = l /\ o.duration = d /\ o.burst = B /\ o.updatedAt = n
        /\ o.rem = s.rem => ClearAt(o) = ClearAt(s)
        /\ Charge(b, p, n, v, cap, s.rem, Unit * p.hits, a)

LEMMA ExistingCharge ==
    ASSUME NEW l, NEW d, NEW B, NEW v, NEW cap, NEW R, NEW b, NEW n, NEW f, NEW cr,
           NEW p, NEW a, NEW g, NEW c, OnCached(l, d, B, v, cap, R, b, n, f, cr, p, a, g, c)
    PROVE  Effect(l, d, B, v, cap, b, p, n, a)
<1> DEFINE s == Settle(b, p, n, n)
           o == a.bucket
<1>0. /\ Metric(l, d, B, v, cap, R) /\ Healthy(b) /\ n \in Int /\ b.updatedAt <= n
      /\ b.limit = l /\ b.duration = d /\ b.burst = B
      /\ OfConfig(p, l, d, B, n) /\ validateMaxWait(p) /\ a = OnExisting(b, p, n)
  BY Zenon DEF OnCached, Metering
<1> USE <1>0
<1>1. /\ RequestClock(b, p, n) = n
      /\ s \in Bucket /\ s.limit = l /\ s.duration = d /\ s.burst = B /\ s.updatedAt = n
      /\ s.expireAt = IF p.hits # 0 /\ ~(b.rem < 0) THEN n + d ELSE b.expireAt
      /\ FinalSpeed(b, p, s.rem) = v
      /\ wasInDebt(b, p) <=> b.rem < 0
  BY SteadySettle
<1> HIDE DEF s
<1>2. Sound(p) /\ p.hits \in Int /\ p.hits >= 0 /\ p.duration = d /\ cap = Unit * B
  BY Zenon DEF OfConfig, Sound, Metric
<1>3. GoodAnswer(s, p, n, v, wasInDebt(b, p), a)
  <2>1. Steps(b, p, n, n, s, v, a)
    BY <1>1, Zenon DEF Steps, s
  <2> QED BY <1>2, <2>1, ExistingJudged, Zenon
<1>4. /\ o \in Bucket /\ o.limit = l /\ o.duration = d /\ o.burst = B /\ o.updatedAt = n
      /\ o.expireAt >= s.expireAt
  BY <1>1, <1>3, Zenon DEF GoodAnswer
<1>5. o.rem = s.rem => ClearAt(o) = ClearAt(s)
  <2>1. StoredSpeed(o) = StoredSpeed(s)
    BY <1>1, <1>4, Zenon DEF StoredSpeed
  <2> QED BY <1>1, <1>4, <2>1, ClearDepends, Zenon
<1>6. o.expireAt \in Int /\ b.expireAt \in Int /\ b.rem \in Int /\ s.rem \in Int /\ n + d \in Int
  BY <1>1, <1>4 DEF Bucket, Healthy, Metric
<1>7. StoredSpeed(b) = v /\ StoredSpeed(o) = v /\ (b.rem < 0 => v > 0)
  <2>1. StoredSpeed(b) = v /\ StoredSpeed(o) = v
    BY <1>4, Zenon DEF StoredSpeed, Metric
  <2> QED BY <2>1 DEF Healthy, Metric
<1>8. Charge(b, p, n, v, cap, s.rem, Unit * p.hits, a)
  <2>1. CASE a.status = "SCHEDULED"
    <3>1. /\ p.hits > 0 /\ v > 0 /\ Unit * p.hits <= cap
          /\ o.rem < 0 /\ o.rem = s.rem - Unit * p.hits /\ o.expireAt >= fullAt(o, v)
          /\ a.retryAfter \in Nat /\ ClearAt(o) = n + a.retryAfter
      BY <1>1, <1>2, <1>3, <2>1 DEF GoodAnswer
    <3> QED BY <1>7, <2>1, <3>1, Zenon DEF Charge
  <2>2. CASE a.status = "UNDER_LIMIT" /\ p.hits > 0
    <3>1. /\ s.rem >= 0 /\ o.rem >= 0 /\ o.rem = s.rem - Unit * p.hits
          /\ b.rem < 0 => o.expireAt >= fullAt(o, v)
      BY <1>1, <1>2, <1>3, <1>6, <2>2, Zenon DEF GoodAnswer
    <3>2. o.expireAt >= n + d \/ (v > 0 /\ o.expireAt >= fullAt(o, v))
      BY <1>1, <1>4, <1>6, <1>7, <2>2, <3>1
    <3> QED BY <1>2, <2>2, <3>1, <3>2, Zenon DEF Charge
  <2>3. CASE a.status # "SCHEDULED" /\ ~(a.status = "UNDER_LIMIT" /\ p.hits > 0)
    <3>1. p.hits = 0 => s.rem - Unit * p.hits = s.rem
      BY <1>6, UnitAssumption
    <3>2. o.rem = s.rem \/ (s.rem >= 0 /\ o.rem = 0)
      BY <1>2, <1>3, <2>3, <3>1 DEF GoodAnswer
    <3>3. o.expireAt >= b.expireAt \/ (b.rem >= 0 /\ o.expireAt >= n + d)
      BY <1>1, <1>4, <1>6
    <3> QED BY <1>2, <2>3, <3>2, <3>3, Zenon DEF Charge
  <2> QED BY <2>1, <2>2, <2>3, Zenon
<1> QED BY <1>4, <1>5, <1>8, Zenon DEF Effect, s

\* A request on the cached bucket keeps the reference ahead of it.
LEMMA CachedAnswered ==
    ASSUME NEW l, NEW d, NEW B, NEW v, NEW cap, NEW R, NEW b, NEW n, NEW f, NEW cr,
           NEW p, NEW a, NEW g, NEW c, OnCached(l, d, B, v, cap, R, b, n, f, cr, p, a, g, c)
    PROVE  Answered(l, d, B, v, cap, R, n, a, g, c)
<1> DEFINE s == Settle(b, p, n, n)
           x == s.rem
           o == a.bucket
           h == Unit * p.hits
           Exact == \E m \in Int : Unit = m * v
<1>0. /\ o \in Bucket /\ o.limit = l /\ o.duration = d /\ o.burst = B /\ o.updatedAt = n
      /\ o.rem = x => ClearAt(o) = ClearAt(s)
      /\ Charge(b, p, n, v, cap, x, h, a)
  <2>1. Effect(l, d, B, v, cap, b, p, n, a)
    BY ExistingCharge, Zenon
  <2> QED BY <2>1, Zenon DEF Effect
<1> SUFFICES ASSUME Metric(l, d, B, v, cap, R), Healthy(b), n \in Int, f \in Int, cr \in Int,
                    b.limit = l, b.duration = d, b.burst = B,
                    Metering(v, cap, R, b, n, f, cr), b.rem >= 0 => f <= n,
                    OfConfig(p, l, d, B, n), validateMaxWait(p), a = OnExisting(b, p, n),
                    g = SlotAfter(p, a, n, f), c = CreditAfter(p, a, v, cap, f, g, cr)
             PROVE  Answered(l, d, B, v, cap, R, n, a, g, c)
  BY Zenon DEF OnCached
<1>1. b.updatedAt <= n /\ cr >= -R /\ cr + (b.expireAt + 1 - f) * v >= cap
  BY Zenon DEF Metering
<1>2. /\ v \in Nat /\ cap \in Int /\ R \in Nat /\ d \in Nat /\ b.expireAt \in Int
      /\ p.hits \in Int /\ p.hits >= 0 /\ h \in Int /\ p.duration = d
      /\ (n - f) * v \in Int /\ (n - f) * v = -((f - n) * v)
  <2>1. v \in Nat /\ cap \in Int /\ R \in Nat /\ d \in Nat
    BY DEF Metric
  <2>2. b.expireAt \in Int
    BY DEF Healthy, Bucket
  <2>3. p.hits \in Int /\ p.hits >= 0 /\ p.duration = d
    BY Zenon DEF OfConfig, Sound
  <2>4. h \in Int
    BY <2>3, UnitTimes, Zenon
  <2> HIDE DEF h
  <2>5. (n - f) * v \in Int /\ (n - f) * v = -((f - n) * v)
    BY <2>1
  <2> QED BY <2>1, <2>2, <2>3, <2>4, <2>5, Zenon
<1>4. /\ x \in Int /\ x <= cap
      /\ Exact => \E m \in Int : x = m * v
      /\ x < 0 => b.rem < 0 /\ f = ClearAt(s) /\ cr + R >= x + (f - n) * v
      /\ x >= 0 => f <= n /\ cr + (n - f) * v + R >= x
  BY MeterSettled, Zenon
<1> HIDE DEF s, x, h, o
<1>5. o.rem \in Int /\ o.expireAt \in Int /\ o # NoItem
  BY <1>0, BucketFields, NoItemAssumption, Zenon
<1>6. ASSUME Exact PROVE \E m \in Int : o.rem = m * v
  <2>1. PICK k \in Int : x = k * v
    BY <1>4, <1>6, Zenon
  <2>2. PICK i \in Int : h = i * v
    <3>1. v \in Int
      BY <1>2
    <3> QED BY <1>2, <1>6, <3>1, TimesMultiple, Zenon DEF h
  <2>3. /\ x - h = (k - i) * v /\ k - i \in Int /\ 0 = 0 * v /\ 0 \in Int
    BY <1>2, <2>1, <2>2
  <2>4. o.rem \in {x - h, x, 0}
    BY <1>0, Zenon DEF Charge, o
  <2>5. CASE o.rem = x - h
    BY <2>3, <2>5, Zenon
  <2>6. CASE o.rem = x
    BY <2>1, <2>6, Zenon
  <2>7. CASE o.rem = 0
    BY <2>3, <2>7, Zenon
  <2> QED BY <2>4, <2>5, <2>6, <2>7, Zenon
<1>7. CASE a.status = "SCHEDULED"
  <2>1. /\ v > 0 /\ h <= cap /\ o.rem < 0 /\ o.rem = x - h
        /\ o.expireAt >= fullAt(o, v) /\ StoredSpeed(o) = v
        /\ g \in Int /\ g = ClearAt(o) /\ c = Smaller(cap, cr + (g - f) * v) - h
    BY <1>0, <1>7 DEF Charge, SlotAfter, CreditAfter, h, o
  <2>2. cr + R >= x + (f - n) * v
    BY <1>2, <1>4
  <2>3. c \in Int /\ Metering(v, cap, R, o, n, g, c)
    <3>1. Booked(v, cap, R, n, f, cr, x, h, o, g, c)
      BY <1>2, <1>0, <1>4, <1>6, <2>1, <2>2, Zenon DEF Booked
    <3> QED BY <1>0, <3>1, MeterBooked
  <2> QED BY <1>0, <1>5, <2>3, Zenon DEF Answered, Metering, o
<1>8. CASE a.status = "UNDER_LIMIT" /\ p.hits > 0
  <2>1. /\ x >= 0 /\ o.rem >= 0 /\ o.rem = x - h
        /\ o.expireAt >= n + d \/ (v > 0 /\ o.expireAt >= fullAt(o, v))
        /\ g = n /\ c = Smaller(cap, cr + (n - f) * v) - h
    BY <1>2, <1>0, <1>8, Zenon DEF Charge, SlotAfter, CreditAfter, h, o
  <2>2. c \in Int /\ Metering(v, cap, R, o, n, g, c)
    <3>1. Admitted(v, cap, R, n, d, f, cr, x, h, o, c)
      BY <1>2, <1>0, <1>4, <1>6, <2>1, Zenon DEF Admitted
    <3> QED BY <1>0, <2>1, <3>1, MeterAdmitted
  <2> QED BY <1>0, <1>5, <2>2, Zenon DEF Answered, Metering, o
<1>9. CASE a.status # "SCHEDULED" /\ ~(a.status = "UNDER_LIMIT" /\ p.hits > 0)
  <2>1. /\ o.rem = x \/ (x >= 0 /\ o.rem = 0)
        /\ o.expireAt >= b.expireAt \/ (b.rem >= 0 /\ o.expireAt >= n + d)
        /\ g = f /\ c = cr
    BY <1>2, <1>0, <1>9, Zenon DEF Charge, SlotAfter, CreditAfter, o
  <2>2. cr + (o.expireAt + 1 - f) * v >= cap
    <3>1. CASE o.expireAt >= b.expireAt
      BY <1>1, <1>2, <1>5, <3>1, LaterExpiry, Zenon
    <3>2. CASE b.rem >= 0 /\ o.expireAt >= n + d
      BY <1>1, <1>5, <3>2, DurationRefills
    <3> QED BY <2>1, <3>1, <3>2, Zenon
  <2>3. IF o.rem < 0
        THEN o.rem = x /\ f = ClearAt(o) /\ cr + R >= x + (f - n) * v
        ELSE o.rem <= x /\ cr + (n - f) * v + R >= x
    BY <1>0, <1>4, <1>5, <2>1
  <2>4. Metering(v, cap, R, o, n, f, cr)
    <3>1. Kept(v, cap, R, n, f, cr, x, o)
      BY <1>1, <1>0, <1>4, <1>6, <2>2, <2>3, Zenon DEF Kept
    <3> QED BY <1>0, <3>1, MeterKept, Zenon
  <2> QED BY <1>0, <1>5, <2>1, <2>4, Zenon DEF Answered, Metering, o
<1> QED BY <1>7, <1>8, <1>9, Zenon

\* A fresh item starts no fuller than a full reference.
LEMMA FreshAnswered ==
    ASSUME NEW l, NEW d, NEW B, NEW v, NEW cap, NEW R, NEW n, NEW f, NEW cr,
           NEW p, NEW a, NEW g, NEW c, OnFresh(l, d, B, v, cap, R, n, f, cr, p, a, g, c)
    PROVE  Answered(l, d, B, v, cap, R, n, a, g, c)
<1> SUFFICES ASSUME Metric(l, d, B, v, cap, R), n \in Int, f \in Int, cr \in Int,
                    cr >= -R, f <= n, cr + (n - f) * v >= cap,
                    OfConfig(p, l, d, B, n), a = leakyBucketNewItem(NoItem, p, n),
                    g = SlotAfter(p, a, n, f), c = CreditAfter(p, a, v, cap, f, g, cr)
             PROVE  Answered(l, d, B, v, cap, R, n, a, g, c)
  BY Zenon DEF OnFresh
<1> DEFINE over == p.hits > B
           h == Unit * p.hits
           rem == IF over THEN 0 ELSE Unit * Smaller(B, B - p.hits)
           b == [limit |-> l, duration |-> d, burst |-> B,
                 rem |-> rem, updatedAt |-> n, expireAt |-> n + d]
<1>1. /\ v \in Nat /\ cap \in Nat /\ R \in Nat /\ B \in Nat /\ cap = Unit * B /\ d \in Nat /\ l \in Nat
  BY Zenon DEF Metric
<1>2. /\ p.limit = l /\ p.duration = d /\ p.burst = B /\ p.createdAt = n
      /\ p.hits \in Int /\ p.hits >= 0 /\ Span(p, n) = d
  BY Zenon DEF OfConfig, Sound, Span
<1>3. a = IF p.maxWait > 0 /\ over THEN Answer(NoItem, "NEVER_FITS", 0)
          ELSE Answer(b, IF over THEN "OVER_LIMIT" ELSE "UNDER_LIMIT", 0)
  BY <1>2, Zenon DEF leakyBucketNewItem
<1>4. h \in Int /\ h >= 0
  BY <1>2, UnitTimes, Zenon
<1>5. /\ rem \in Int /\ rem >= 0 /\ rem <= cap
      /\ rem = IF over THEN 0 ELSE cap - h
  <2>1. CASE over
    BY <1>1, <2>1
  <2>2. CASE ~over
    <3>1. Smaller(B, B - p.hits) = B - p.hits
      BY <1>1, <1>2, <2>2 DEF Smaller
    <3>2. Unit * (B - p.hits) = Unit * B - Unit * p.hits /\ B - p.hits \in Int /\ B - p.hits >= 0
      BY <1>1, <1>2, <2>2, UnitAssumption
    <3>3. Unit * (B - p.hits) >= 0
      BY <3>2, UnitTimes, Zenon
    <3> QED BY <1>1, <1>4, <2>2, <3>1, <3>2, <3>3
  <2> QED BY <2>1, <2>2, Zenon
<1> HIDE DEF rem, h, over
<1>6. /\ b.limit = l /\ b.duration = d /\ b.burst = B /\ b.rem = rem /\ b.updatedAt = n /\ b.expireAt = n + d
      /\ b \in Bucket
  BY <1>1, <1>5 DEF Bucket
<1> HIDE DEF b
<1>7. b # NoItem
  BY <1>6, NoItemAssumption, Zenon
<1>8. ASSUME \E m \in Int : Unit = m * v PROVE \E m \in Int : b.rem = m * v
  <2>0. v \in Int /\ B \in Int /\ cap = Unit * B
    BY <1>1
  <2>1. PICK i \in Int : cap = i * v
    BY <1>8, <2>0, TimesMultiple, Zenon
  <2>2. PICK k \in Int : h = k * v
    BY <1>2, <1>8, <2>0, TimesMultiple, Zenon DEF h
  <2>3. cap - h = (i - k) * v /\ i - k \in Int /\ 0 = 0 * v
    BY <1>1, <2>1, <2>2
  <2> QED BY <1>5, <1>6, <2>3, Zenon
<1>9. cr + (n - f) * v + R >= cap /\ cap <= cap
  BY <1>1
<1>10. CASE p.maxWait > 0 /\ over
  <2>1. a.bucket = NoItem /\ a.status = "NEVER_FITS"
    BY <1>3, <1>10 DEF Answer
  <2> QED BY <2>1, Zenon DEF Answered, SlotAfter, CreditAfter
<1>11. CASE ~(p.maxWait > 0 /\ over) /\ (over \/ p.hits = 0)
  <2>1. a.bucket = b /\ a.status = IF over THEN "OVER_LIMIT" ELSE "UNDER_LIMIT"
    BY <1>3, <1>11 DEF Answer
  <2>2. g = f /\ c = cr
    BY <1>1, <1>2, <1>11, <2>1 DEF SlotAfter, CreditAfter, over
  <2>3. cr + (b.expireAt + 1 - f) * v >= cap
    <3> DEFINE e == n + d
    <3>1. e \in Int /\ e >= n + d
      BY <1>1
    <3> HIDE DEF e
    <3>2. cr + (e + 1 - f) * v >= cap
      BY <3>1, DurationRefills, Zenon
    <3> QED BY <1>6, <3>2, Zenon DEF e
  <2>4. ~(b.rem < 0) /\ b.rem <= cap
    BY <1>1, <1>5, <1>6
  <2>5. Metering(v, cap, R, b, n, f, cr)
    <3>1. Kept(v, cap, R, n, f, cr, cap, b)
      BY <1>1, <1>6, <1>8, <1>9, <2>3, <2>4 DEF Kept
    <3> QED BY <1>6, <3>1, MeterKept, Zenon
  <2> QED BY <1>6, <1>7, <2>1, <2>2, <2>5, Zenon DEF Answered
<1>12. CASE ~over /\ p.hits > 0
  <2>1. a.bucket = b /\ a.status = "UNDER_LIMIT"
    BY <1>3, <1>12 DEF Answer
  <2>2. g = n /\ c = Smaller(cap, cr + (n - f) * v) - h
    BY <1>12, <2>1, Zenon DEF SlotAfter, CreditAfter, h
  <2>3. b.rem >= 0 /\ b.rem = cap - h /\ b.expireAt >= n + d
    BY <1>1, <1>5, <1>6, <1>12
  <2>4. c \in Int /\ Metering(v, cap, R, b, n, n, c)
    <3>1. Admitted(v, cap, R, n, d, f, cr, cap, h, b, c)
      BY <1>1, <1>4, <1>6, <1>8, <1>9, <2>2, <2>3 DEF Admitted
    <3> QED BY <1>6, <3>1, MeterAdmitted
  <2>5. c >= -R
    BY <2>4, Zenon DEF Metering
  <2> QED BY <1>6, <1>7, <2>1, <2>2, <2>4, <2>5, Zenon DEF Answered
<1> QED BY <1>2, <1>10, <1>11, <1>12

\* Time passing keeps the reference ahead.
LEMMA MeterTick ==
    ASSUME NEW l, NEW d, NEW B, NEW v, NEW cap, NEW R, Metric(l, d, B, v, cap, R),
           NEW b \in Bucket, NEW n \in Int, NEW f \in Int, NEW cr \in Int,
           Metering(v, cap, R, b, n, f, cr)
    PROVE  Metering(v, cap, R, b, n + 1, f, cr)
<1>1. v \in Nat /\ cap \in Int /\ R \in Int /\ b.rem \in Int /\ b.updatedAt \in Int
  BY DEF Metric, Bucket
<1>2. /\ ((n + 1) - f) * v = (n - f) * v + v /\ (n - f) * v \in Int
      /\ ((n + 1) - b.updatedAt) * v = (n - b.updatedAt) * v + v /\ (n - b.updatedAt) * v \in Int
  BY <1>1
<1>3. ASSUME ~(b.rem < 0)
      PROVE  cr + ((n + 1) - f) * v + R >= Smaller(cap, b.rem + ((n + 1) - b.updatedAt) * v)
  <2>1. cr + (n - f) * v + R >= Smaller(cap, b.rem + (n - b.updatedAt) * v)
    BY <1>3, Zenon DEF Metering
  <2> QED BY <1>1, <1>2, <2>1 DEF Smaller
<1>4. b.updatedAt <= n + 1
  BY <1>1 DEF Metering
<1>5. /\ cr >= -R
      /\ (\E m \in Int : Unit = m * v) => \E m \in Int : b.rem = m * v
      /\ cr + (b.expireAt + 1 - f) * v >= cap
      /\ b.rem < 0 => f = ClearAt(b) /\ cr + R >= b.rem + (f - b.updatedAt) * v
  BY Zenon DEF Metering
<1> QED BY <1>3, <1>4, <1>5, Zenon DEF Metering

BurstOf(k) == IF k.burst = 0 THEN k.limit ELSE k.burst

\* The inductive invariant behind Spacing.
SpacingInv ==
    /\ cfg \in {ConfigOf(q) : q \in Metered} \cup {AnyConfig}
    /\ credit \in Int
    /\ cfg # AnyConfig =>
          /\ credit >= -Rounding
          /\ item = NoItem => credit + (now - frontier) * MeterSpeed >= Capacity
          /\ item # NoItem =>
                /\ item.limit = cfg.limit /\ item.duration = cfg.duration /\ item.burst = BurstOf(cfg)
                /\ Metering(MeterSpeed, Capacity, Rounding, item, now, frontier, credit)

LEMMA CfgMetric ==
    ASSUME NEW q \in Metered, cfg = ConfigOf(q)
    PROVE  Metric(cfg.limit, cfg.duration, BurstOf(cfg), MeterSpeed, Capacity, Rounding)
<1> DEFINE l == cfg.limit
           d == cfg.duration
           B == BurstOf(cfg)
           v == MeterSpeed
           cap == Capacity
           R == Rounding
<1>1. /\ WellFormed(q) /\ q.burst <= q.limit
      /\ Speed(q.limit, q.duration) * q.duration = Unit * q.limit
  BY MeteredAssumption, Zenon DEF Meterable
<1>2. l = q.limit /\ d = q.duration /\ cfg.burst = q.burst
  BY Zenon DEF ConfigOf
<1>3. l \in Nat /\ d \in Nat \ {0} /\ B \in Nat /\ B <= l
  BY <1>1, <1>2 DEF WellFormed, BurstOf
<1>4. v = Speed(l, d) /\ v * d = Unit * l
  BY <1>1, <1>2, Zenon DEF MeterSpeed
<1>5. v \in Nat
  <2>1. Speed(l, d) \in Int /\ Speed(l, d) >= 0
    <3> HIDE DEF l, d
    <3>1. l \in Int /\ l >= 0 /\ d \in Int
      BY <1>3
    <3> QED BY <3>1, SpeedType, Zenon
  <2> QED BY <1>4, <2>1
<1>6. cap = Unit * B
  BY Zenon DEF Capacity, BurstOf
<1>7. cap \in Nat /\ cap <= Unit * l
  <2> HIDE DEF B, l, cap
  <2> QED BY <1>3, <1>6, UnitAssumption
<1>8. R = IF v = 0 \/ Unit % v = 0 THEN 0 ELSE v - 1
  BY Zenon DEF Rounding
<1> HIDE DEF l, d, B, v, cap, R
<1>9. R \in Nat /\ R <= v
  BY <1>5, <1>8
<1>10. ASSUME v > 0 PROVE R = v - 1 \/ (R = 0 /\ \E m \in Int : Unit = m * v)
  <2>1. CASE Unit % v = 0
    <3>1. Unit = (Unit \div v) * v /\ Unit \div v \in Int
      BY <1>5, <1>10, <2>1, UnitAssumption
    <3> QED BY <1>8, <2>1, <3>1, Zenon
  <2>2. CASE Unit % v # 0
    BY <1>8, <1>10, <2>2
  <2> QED BY <2>1, <2>2, Zenon
<1>11. Metric(l, d, B, v, cap, R)
  BY <1>3, <1>4, <1>5, <1>6, <1>7, <1>9, <1>10, Zenon DEF Metric
<1> QED BY <1>11, Zenon DEF l, d, B, v, cap, R

\* A metered request as it reaches the algorithm.
LEMMA MeteredRequest ==
    ASSUME NEW q \in Metered, cfg = ConfigOf(q), now \in Int
    PROVE  LET p == DefaultBurst(Request(q))
           IN  /\ OfConfig(p, cfg.limit, cfg.duration, BurstOf(cfg), now)
               /\ WellFormed(q) /\ p.hits = Request(q).hits
               /\ validateMaxWait(Request(q)) => validateMaxWait(p)
<1> DEFINE r == Request(q)
           p == DefaultBurst(r)
<1>1. /\ WellFormed(q) /\ q.hits >= 0 /\ q.skew = 0
      /\ q.behavior \cap {"RESET_REMAINING", "DURATION_IS_GREGORIAN"} = {}
  BY MeteredAssumption, Zenon DEF Meterable
<1>2. /\ Sound(p) /\ p.hits = r.hits
      /\ validateMaxWait(r) => validateMaxWait(p)
  BY <1>1, RequestSound, Zenon
<1>3. cfg.limit = q.limit /\ cfg.duration = q.duration /\ cfg.burst = q.burst
  BY Zenon DEF ConfigOf
<1>4. /\ p.limit = q.limit /\ p.duration = q.duration /\ p.hits = q.hits
      /\ p.behavior = q.behavior /\ p.createdAt = now + q.skew
      /\ p.burst = IF q.burst = 0 THEN q.limit ELSE q.burst
  BY Zenon DEF DefaultBurst, Request
<1> HIDE DEF r, p
<1>5. p.createdAt = now
  BY <1>1, <1>4
<1>6. ~HasBehavior(p, "RESET_REMAINING") /\ ~Gregorian(p)
  BY <1>1, <1>4, Zenon DEF HasBehavior, Gregorian
<1> QED BY <1>1, <1>2, <1>3, <1>4, <1>5, <1>6 DEF OfConfig, BurstOf, r, p

LEMMA SpacingInitially == SpacingInit => SpacingInv
<1> SUFFICES ASSUME SpacingInit PROVE SpacingInv
  BY Zenon
<1>1. /\ now = 0 /\ item = NoItem /\ frontier = 0
      /\ cfg \in {ConfigOf(q) : q \in Metered} \cup {AnyConfig}
      /\ credit = IF cfg = AnyConfig THEN 0 ELSE Capacity
  BY Zenon DEF SpacingInit, Init
<1>2. CASE cfg = AnyConfig
  BY <1>1, <1>2 DEF SpacingInv
<1>3. CASE cfg # AnyConfig
  <2>1. PICK q \in Metered : cfg = ConfigOf(q)
    BY <1>1, <1>3, Zenon
  <2>2. Metric(cfg.limit, cfg.duration, BurstOf(cfg), MeterSpeed, Capacity, Rounding)
    BY <2>1, CfgMetric, Zenon
  <2>3. MeterSpeed \in Nat /\ Capacity \in Nat /\ Rounding \in Nat
    BY <2>2, Zenon DEF Metric
  <2>4. credit + (now - frontier) * MeterSpeed >= Capacity /\ credit >= -Rounding /\ credit \in Int
    BY <1>1, <1>3, <2>3
  <2> QED BY <1>1, <2>4, Zenon DEF SpacingInv
<1> QED BY <1>2, <1>3, Zenon

\* A metered request: settled on the cached bucket or starting a new one.
LEMMA SpacingRequest ==
    ASSUME DebtInv, SpacingInv, NEW q \in Metered, ConfigOf(q) = cfg, cfg' = cfg,
           leakyBucket(Request(q)), Meter(Request(q))
    PROVE  SpacingInv'
<1> DEFINE r == Request(q)
           p == DefaultBurst(r)
           a == IF Cached THEN OnExisting(item, p, now) ELSE leakyBucketNewItem(NoItem, p, now)
           v == MeterSpeed
           cap == Capacity
           R == Rounding
           g == SlotAfter(p, a, now, frontier)
           c == CreditAfter(p, a, v, cap, frontier, g, credit)
<1>1. cfg # AnyConfig
  BY MeteredAssumption, Zenon
<1>2. Metric(cfg.limit, cfg.duration, BurstOf(cfg), v, cap, R)
  BY CfgMetric, Zenon
<1>3. /\ now \in Int /\ frontier \in Int
      /\ item # NoItem => Healthy(item)
      /\ item # NoItem /\ ~(item.rem < 0) => frontier <= now
  BY InvTypes, InvHealthy DEF InDebt
<1>4. /\ OfConfig(p, cfg.limit, cfg.duration, BurstOf(cfg), now)
      /\ WellFormed(q) /\ p.hits = r.hits /\ validateMaxWait(p)
  BY <1>3, MeteredRequest, Zenon DEF leakyBucket
<1>5. ~HasBehavior(p, "RESET_REMAINING")
  BY <1>4 DEF OfConfig
<1>6. /\ credit \in Int /\ credit >= -R
      /\ item = NoItem => credit + (now - frontier) * v >= cap
      /\ item # NoItem =>
            /\ item.limit = cfg.limit /\ item.duration = cfg.duration /\ item.burst = BurstOf(cfg)
            /\ Metering(v, cap, R, item, now, frontier, credit)
  BY <1>1, Zenon DEF SpacingInv
<1>7. /\ MeterSpeed' = v /\ Capacity' = cap /\ Rounding' = R /\ BurstOf(cfg)' = BurstOf(cfg)
  BY Zenon DEF MeterSpeed, Capacity, Rounding, BurstOf
<1>8. /\ item' = a.bucket /\ frontier' = g /\ now' = now /\ resp'.status = a.status
  <2> HIDE DEF r, p, v, cap, R
  <2>1. /\ item' = a.bucket /\ now' = now
        /\ resp' = [status |-> a.status, retryAfter |-> a.retryAfter, forgave |-> a.forgave]
        /\ frontier' = Advance(p, a, Cached)
    BY Zenon DEF leakyBucket, Applied, r, p
  <2>2. resp'.status = a.status
    BY <2>1, Zenon
  <2>3. Advance(p, a, Cached) = g
    BY <1>5, Zenon DEF Advance, SlotAfter
  <2> QED BY <2>1, <2>2, <2>3, Zenon
<1>9. g = SlotAfter(p, a, now, frontier) /\ c = CreditAfter(p, a, v, cap, frontier, g, credit)
  BY Zenon
<1> HIDE DEF a
<1>10. credit' = c
  <2>1. credit' = IF r.hits > 0 /\ resp'.status \in {"UNDER_LIMIT", "SCHEDULED"}
                  THEN Smaller(cap, credit + (frontier' - frontier) * v) - Unit * r.hits ELSE credit
    BY Zenon DEF Meter
  <2> HIDE DEF r, p, g, v, cap, R
  <2> QED BY <1>4, <1>8, <2>1, Zenon DEF CreditAfter
<1> HIDE DEF r, p, v, cap, R, g, c
<1>11. Answered(cfg.limit, cfg.duration, BurstOf(cfg), v, cap, R, now, a, g, c)
  <2>1. CASE Cached
    <3>1. item # NoItem
      BY <2>1, Zenon DEF Cached
    <3>2. item.rem >= 0 => frontier <= now
      BY <1>3, <3>1 DEF Healthy, Bucket
    <3>3. a = OnExisting(item, p, now)
      BY <2>1, Zenon DEF a
    <3>4. OnCached(cfg.limit, cfg.duration, BurstOf(cfg), v, cap, R, item, now, frontier, credit, p, a, g, c)
      BY <1>2, <1>3, <1>4, <1>6, <1>9, <3>1, <3>2, <3>3, Zenon DEF OnCached
    <3> QED BY <3>4, CachedAnswered, Zenon
  <2>2. CASE ~Cached
    <3>1. frontier <= now
      BY <2>2, ExpiredIsClear, Zenon
    <3>2. v \in Nat /\ cap \in Int
      BY <1>2 DEF Metric
    <3>3. credit + (now - frontier) * v >= cap
      <4>1. CASE item # NoItem
        <5>1. item.expireAt \in Int /\ item.expireAt <= now - 1
          BY <1>3, <2>2, <4>1 DEF Cached, Healthy, Bucket
        <5>2. credit + (item.expireAt + 1 - frontier) * v >= cap
          BY <1>6, <4>1, Zenon DEF Metering
        <5>3. credit + ((now - 1) + 1 - frontier) * v >= cap
          <6> DEFINE e == now - 1
          <6>1. e \in Int /\ item.expireAt <= e
            BY <1>3, <5>1
          <6> HIDE DEF e
          <6>2. credit + (e + 1 - frontier) * v >= cap
            BY <1>3, <1>6, <3>2, <5>1, <5>2, <6>1, LaterExpiry, Zenon
          <6> QED BY <6>2, Zenon DEF e
        <5> QED BY <1>3, <1>6, <3>2, <5>3
      <4> QED BY <1>6, <4>1, Zenon
    <3>4. a = leakyBucketNewItem(NoItem, p, now)
      BY <2>2, Zenon DEF a
    <3>5. OnFresh(cfg.limit, cfg.duration, BurstOf(cfg), v, cap, R, now, frontier, credit, p, a, g, c)
      BY <1>2, <1>3, <1>4, <1>6, <1>9, <3>1, <3>3, <3>4, Zenon DEF OnFresh
    <3> QED BY <3>5, FreshAnswered, Zenon
  <2> QED BY <2>1, <2>2, Zenon
<1>12. cfg' \in {ConfigOf(k) : k \in Metered} \cup {AnyConfig}
  BY Zenon
<1> QED BY <1>7, <1>8, <1>10, <1>11, <1>12, Zenon DEF SpacingInv, Answered

LEMMA SpacingQuiet ==
    ASSUME DebtInv, SpacingInv, cfg' = cfg, credit' = credit, item' = item, frontier' = frontier,
           now' = now \/ now' = now + 1
    PROVE  SpacingInv'
<1>1. CASE cfg = AnyConfig
  BY <1>1, Zenon DEF SpacingInv
<1>2. CASE cfg # AnyConfig
  <2> DEFINE v == MeterSpeed
             cap == Capacity
             R == Rounding
  <2>1. PICK q \in Metered : cfg = ConfigOf(q)
    BY <1>2, Zenon DEF SpacingInv
  <2>2. Metric(cfg.limit, cfg.duration, BurstOf(cfg), v, cap, R)
    BY <2>1, CfgMetric, Zenon
  <2>3. now \in Int /\ frontier \in Int /\ (item # NoItem => item \in Bucket)
    BY InvTypes
  <2>4. /\ credit \in Int /\ credit >= -R
        /\ item = NoItem => credit + (now - frontier) * v >= cap
        /\ item # NoItem =>
              /\ item.limit = cfg.limit /\ item.duration = cfg.duration /\ item.burst = BurstOf(cfg)
              /\ Metering(v, cap, R, item, now, frontier, credit)
    BY <1>2, Zenon DEF SpacingInv
  <2>5. /\ MeterSpeed' = v /\ Capacity' = cap /\ Rounding' = R /\ BurstOf(cfg)' = BurstOf(cfg)
    BY Zenon DEF MeterSpeed, Capacity, Rounding, BurstOf
  <2> HIDE DEF v, cap, R
  <2>6. item = NoItem => credit + (now' - frontier) * v >= cap
    <3>1. v \in Nat /\ cap \in Int
      BY <2>2 DEF Metric
    <3>2. ((now + 1) - frontier) * v = (now - frontier) * v + v /\ (now - frontier) * v \in Int
      BY <2>3, <3>1
    <3> QED BY <2>4, <3>1, <3>2
  <2>7. item # NoItem => Metering(v, cap, R, item, now', frontier, credit)
    BY <2>2, <2>3, <2>4, MeterTick
  <2> QED BY <2>4, <2>5, <2>6, <2>7, Zenon DEF SpacingInv
<1> QED BY <1>1, <1>2, Zenon

LEMMA SpacingStep ==
    ASSUME DebtInv, SpacingInv, [SpacingNext]_spacingVars
    PROVE  SpacingInv'
<1>1. CASE UNCHANGED spacingVars
  BY <1>1, SpacingQuiet, Zenon DEF spacingVars, vars
<1>2. CASE cfg' = cfg /\ cfg = AnyConfig /\ credit' = credit
  BY <1>2, Zenon DEF SpacingInv
<1>3. CASE cfg' = cfg /\ Tick /\ UNCHANGED credit
  BY <1>3, SpacingQuiet, Zenon DEF Tick
<1>4. ASSUME NEW q \in Metered, ConfigOf(q) = cfg, cfg' = cfg,
             Reject(Request(q)), Meter(Request(q))
      PROVE  SpacingInv'
  <2>1. item' = item /\ frontier' = frontier /\ now' = now /\ resp' = Failed
    BY <1>4, Zenon DEF Reject
  <2>2. resp'.status = "ERROR"
    BY <2>1, NoRespTyped, Zenon
  <2>3. credit' = credit
    BY <1>4, <2>2, Zenon DEF Meter
  <2> QED BY <1>4, <2>1, <2>3, SpacingQuiet, Zenon
<1> QED BY <1>1, <1>2, <1>3, <1>4, SpacingRequest, Zenon DEF SpacingNext

\* With no state loss and callers of one configuration acting at their slots,
\* admissions and slots together never overdraw a bucket of that burst and
\* rate, over any window and across expiry, but for slots being whole
\* milliseconds (Spacing).
THEOREM SlotsKeepRate == SpacingSpec => []Spacing
<1>1. SpacingInit => DebtInv /\ SpacingInv
  BY InitInv, SpacingInitially, Zenon DEF SpacingInit
<1>2. DebtInv /\ SpacingInv /\ [SpacingNext]_spacingVars => DebtInv' /\ SpacingInv'
  BY SpacingIsKeyNext, KeyNextStep, SpacingStep, Zenon
<1>3. SpacingInv => Spacing
  BY Zenon DEF SpacingInv, Spacing
<1> QED BY <1>1, <1>2, <1>3, PTL DEF SpacingSpec
=============================================================================

--------------------------- MODULE LeakyAlgorithm ---------------------------
(***************************************************************************)
(* The leaky bucket of algorithms.go as pure operators: what one request   *)
(* does to one bucket.  LeakyBucket.tla runs it against a clock.           *)
(*                                                                         *)
(* Balances are fixed point: Unit units are one token.  The code's rate    *)
(* (milliseconds per token, duration / limit) appears as its inverse, the  *)
(* speed in units per millisecond, so dividing by a rate is multiplying by *)
(* a speed and math.Ceil(tokens * rate) is CeilDiv(units, speed).  Speeds  *)
(* are integers for the configurations in use, which makes leak and waits  *)
(* exact; the float guards (snapToZero, the 1e-6 and 1e-9 epsilons) exist  *)
(* to recover the exact value and have nothing left to do here.            *)
(***************************************************************************)
EXTENDS RateLimitReq

CONSTANTS
    Unit,      \* units per token
    Ceiling,   \* GUBER_SCHEDULE_MAX_WAIT in milliseconds
    Forever    \* math.MaxInt64 as an expiry

ASSUME UnitAssumption == Unit \in Nat \ {0}
ASSUME CeilingAssumption == Ceiling \in Nat
ASSUME ForeverAssumption == Forever \in Nat

CeilDiv(a, n) == -((-a) \div n)

\* A max_wait is refused when negative or combined with what it does not support.
validateMaxWait(r) ==
    \/ r.maxWait = 0
    \/ /\ r.maxWait > 0
       /\ r.behavior \cap {"GLOBAL", "DURATION_IS_GREGORIAN",
                           "DRAIN_OVER_LIMIT", "RESET_REMAINING"} = {}
       /\ r.hits >= 0

\* A burst of zero means "same as limit".
DefaultBurst(r) == IF r.burst = 0 THEN [r EXCEPT !.burst = r.limit] ELSE r

-----------------------------------------------------------------------------
(* Rates as speeds.  A speed of zero or less is an unusable rate.          *)

Speed(limit, duration) == IF duration > 0 THEN (Unit * limit) \div duration ELSE 0

unusableRate(speed) == speed <= 0

StoredSpeed(b) == Speed(b.limit, b.duration)

RequestSpeed(r) ==
    IF Gregorian(r) THEN (Unit * r.limit) \div GregorianLength
                    ELSE Speed(r.limit, r.duration)

\* How far past now a request's duration reaches.
Span(r, now) ==
    IF Gregorian(r) THEN GregorianExpiration(now) - now ELSE r.duration

creditedLeak(b, t, speed) ==
    IF t <= b.updatedAt THEN 0 ELSE (t - b.updatedAt) * speed

debtAt(b, t) == b.rem + creditedLeak(b, t, StoredSpeed(b)) < 0

\* With no leak a bucket below its burst is never full again, and a full one needs no expiry.
fullAt(b, speed) ==
    IF unusableRate(speed) THEN IF b.rem < Unit * b.burst THEN Forever ELSE 0
    ELSE b.updatedAt + CeilDiv(Unit * b.burst - b.rem, speed)

\* Faulty: rounds a fraction of a token up.
wholeTokensUp(rem) == CeilDiv(rem, Unit)

\* Tokens a caller can spend, rounded toward zero as int64() does.
wholeTokens(rem) == IF rem >= 0 THEN rem \div Unit ELSE -((-rem) \div Unit)

\* Faulty: forgets the moment the balance is back at burst.
extendToDuration(b, t, span, speed) == [b EXCEPT !.expireAt = Larger(b.expireAt, t + span)]

extendDebtExpiry(b, t, span, speed) ==
    [b EXCEPT !.expireAt = Larger(Larger(b.expireAt, t + span), fullAt(b, speed))]

-----------------------------------------------------------------------------
(* An existing bucket meets a request: choose the clock, credit the leak,  *)
(* rescale or keep the debt, shift the burst, reset, clamp, adopt.         *)

\* Faulty: a key in debt is timed by the client's clock.
ClientClock(b, r, now) == IF r.maxWait > 0 THEN now ELSE r.createdAt

RequestClock(b, r, now) == IF r.maxWait > 0 \/ b.rem < 0 THEN now ELSE r.createdAt

requestUsable(r) == r.limit > 0 /\ r.duration > 0 /\ ~unusableRate(Speed(r.limit, r.duration))

configChanged(b, r) == b.limit # r.limit \/ b.duration # r.duration

keepStored(b, r) ==
    /\ Gregorian(r) \/ ~requestUsable(r)
    /\ b.rem < 0
    /\ ~unusableRate(StoredSpeed(b))

rescale(b, r) ==
    /\ ~Gregorian(r) /\ requestUsable(r)
    /\ b.rem < 0
    /\ configChanged(b, r)
    /\ ~unusableRate(StoredSpeed(b))

wasInDebt(b, r) == b.rem < 0 /\ ~HasBehavior(r, "RESET_REMAINING")

NewBurst(b, r, t) ==
    IF /\ debtAt(b, t)
       /\ r.burst < 0 \/ (r.burst = 0 /\ ~HasBehavior(r, "RESET_REMAINING"))
    THEN b.burst ELSE r.burst

Credited(b, r, t) ==
    b.rem + creditedLeak(b, t, IF keepStored(b, r) \/ rescale(b, r)
                               THEN StoredSpeed(b) ELSE RequestSpeed(r))

\* Faulty: debt keeps its tokens when the rate changes.
NotRescaled(b, r, t) == Credited(b, r, t)

\* Debt times old rate over new rate: it clears at the same moment.
Rescaled(b, r, t) ==
    LET x == Credited(b, r, t)
    IN  IF rescale(b, r) /\ x < 0 THEN (x * RequestSpeed(r)) \div StoredSpeed(b) ELSE x

Shifted(b, r, t, burst) ==
    LET x == Rescaled(b, r, t)
    IN  IF b.burst # burst /\ x >= 0 THEN Larger(0, x + Unit * (burst - b.burst)) ELSE x

Settled(b, r, t, burst) ==
    Smaller(Unit * burst,
            IF HasBehavior(r, "RESET_REMAINING") THEN Unit * burst ELSE Shifted(b, r, t, burst))

\* A request that keeps the stored config adopts its own once the debt is gone.
Adopts(b, r, rem) == ~keepStored(b, r) \/ rem >= 0

FinalSpeed(b, r, rem) == IF Adopts(b, r, rem) THEN RequestSpeed(r) ELSE StoredSpeed(b)

Settle(b, r, t, now) ==
    LET burst == NewBurst(b, r, t)
        rem == Settled(b, r, t, burst)
        adopts == Adopts(b, r, rem)
    IN  [limit     |-> IF adopts THEN r.limit ELSE b.limit,
         duration  |-> IF adopts THEN r.duration ELSE b.duration,
         burst     |-> burst,
         rem       |-> rem,
         updatedAt |-> Larger(b.updatedAt, t),
         expireAt  |-> IF r.hits # 0 /\ ~wasInDebt(b, r) THEN t + Span(r, now) ELSE b.expireAt]

-----------------------------------------------------------------------------
(* Outcomes: the bucket left behind and the answer.                        *)

Answer(b, status, retryAfter) ==
    [bucket |-> b, status |-> status, retryAfter |-> retryAfter, forgave |-> FALSE]

\* The wait until the balance could pay for hits; s is settled at the owner's clock.
WaitFor(s, hits, now, speed) ==
    Larger(1, Larger(s.updatedAt, now) - now + CeilDiv(Unit * hits - s.rem, speed))

\* Faulty: charges before it decides whether the wait is allowed.
chargeFirst(s, r, now, span, speed, inDebt) ==
    LET charged == [s EXCEPT !.rem = s.rem - Unit * r.hits]
        wait == WaitFor(s, r.hits, now, speed)
    IN  IF r.hits > s.burst \/ unusableRate(speed) THEN Answer(s, "NEVER_FITS", 0)
        ELSE Answer(extendDebtExpiry(charged, now, span, speed),
                    IF r.hits <= wholeTokens(s.rem) THEN "UNDER_LIMIT"
                    ELSE IF wait > Smaller(r.maxWait, Ceiling) THEN "OVER_LIMIT" ELSE "SCHEDULED",
                    IF r.hits <= wholeTokens(s.rem) THEN 0 ELSE wait)

\* A max_wait request: admit, book as debt, or refuse and charge nothing.
scheduleHits(s, r, now, span, speed, inDebt) ==
    LET charged == [s EXCEPT !.rem = s.rem - Unit * r.hits]
        wait == WaitFor(s, r.hits, now, speed)
    IN  IF r.hits > s.burst \/ unusableRate(speed)
        THEN Answer(s, "NEVER_FITS", 0)
        ELSE IF r.hits <= wholeTokens(s.rem)
        THEN Answer(IF inDebt THEN extendDebtExpiry(charged, now, span, speed) ELSE charged,
                    "UNDER_LIMIT", 0)
        ELSE IF wait > Smaller(r.maxWait, Ceiling)
        THEN Answer(s, "OVER_LIMIT", wait)
        ELSE Answer(extendDebtExpiry(charged, now, span, speed), "SCHEDULED", wait)

\* Faulty: a drain raises debt to zero.
drainToZero(s, r, t, span, speed, inDebt) ==
    IF r.hits > wholeTokens(s.rem)
    THEN Answer(IF HasBehavior(r, "DRAIN_OVER_LIMIT") THEN [s EXCEPT !.rem = 0] ELSE s,
                "OVER_LIMIT", 0)
    ELSE Answer([s EXCEPT !.rem = s.rem - Unit * r.hits], "UNDER_LIMIT", 0)

\* Faulty: a refund pays off booked debt.
refundDebt(s, r, t, span, speed, inDebt) ==
    IF r.hits > wholeTokens(s.rem)
    THEN Answer(s, "OVER_LIMIT", 0)
    ELSE Answer(extendDebtExpiry([s EXCEPT !.rem = Smaller(Unit * s.burst, s.rem - Unit * r.hits)],
                                 t, span, speed), "UNDER_LIMIT", 0)

\* A request without max_wait.
plainHits(s, r, t, span, speed, inDebt) ==
    LET drained == [s EXCEPT !.rem = Smaller(s.rem, 0)]
        charged == [s EXCEPT !.rem = Smaller(Unit * s.burst, s.rem - Unit * r.hits)]
    IN  IF r.hits < 0 /\ s.rem < 0
        THEN Answer(extendDebtExpiry(s, t, span, speed), "UNDER_LIMIT", 0)
        ELSE IF r.hits > wholeTokens(s.rem)
        THEN IF HasBehavior(r, "DRAIN_OVER_LIMIT")
             THEN Answer(drained, "OVER_LIMIT", 0)
             ELSE Answer(s, "OVER_LIMIT", 0)
        ELSE Answer(IF inDebt THEN extendDebtExpiry(charged, t, span, speed) ELSE charged,
                    "UNDER_LIMIT", 0)

Decide(s, r, t, now, speed, inDebt) ==
    IF r.hits = 0 THEN Answer(s, "UNDER_LIMIT", 0)
    ELSE IF r.maxWait > 0 THEN scheduleHits(s, r, now, Span(r, now), speed, inDebt)
    ELSE plainHits(s, r, t, Span(r, now), speed, inDebt)

\* A reset of a balance still below zero is counted as forgiven debt.
Forgives(b, r, t) == HasBehavior(r, "RESET_REMAINING") /\ Rescaled(b, r, t) < 0

\* A changed burst, limit or duration extends the expiry of a key that was in
\* debt whatever the outcome (the deferred call).
Reconfigures(b, r, s, speed) ==
    /\ wasInDebt(b, r)
    /\ b.burst # s.burst \/ configChanged(b, r)
    /\ ~unusableRate(speed)

OnExisting(b, r, now) ==
    LET t == RequestClock(b, r, now)
        s == Settle(b, r, t, now)
        speed == FinalSpeed(b, r, s.rem)
        ans == Decide(s, r, t, now, speed, wasInDebt(b, r))
    IN  [ans EXCEPT !.forgave = Forgives(b, r, t),
                    !.bucket = IF Reconfigures(b, r, s, speed)
                               THEN extendDebtExpiry(@, t, Span(r, now), speed) ELSE @]

\* No bucket: a request that never fits creates none, any other starts full.
leakyBucketNewItem(none, r, now) ==
    LET t == IF r.maxWait > 0 THEN now ELSE r.createdAt
        over == r.hits > r.burst
        rem == Unit * Smaller(r.burst, r.burst - r.hits)
    IN  IF r.maxWait > 0 /\ over THEN Answer(none, "NEVER_FITS", 0)
        ELSE Answer([limit |-> r.limit, duration |-> Span(r, now), burst |-> r.burst,
                     rem |-> IF over THEN 0 ELSE rem,
                     updatedAt |-> t, expireAt |-> t + Span(r, now)],
                    IF over THEN "OVER_LIMIT" ELSE "UNDER_LIMIT", 0)
=============================================================================

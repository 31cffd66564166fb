---------------------------- MODULE RateLimitReq ----------------------------
(***************************************************************************)
(* What the two bucket algorithms share: the behavior flags of a request   *)
(* and the calendar intervals of interval.go.  A request is a record with  *)
(* limit, duration, burst, hits, maxWait, createdAt and behavior; clocks   *)
(* are in milliseconds and every calendar interval has the same length.    *)
(***************************************************************************)
EXTENDS Integers

CONSTANTS
    GregorianCodes,   \* the durations that name a calendar interval
    GregorianLength   \* length of that interval in milliseconds

ASSUME GregorianAssumption == GregorianCodes \subseteq Nat /\ GregorianLength \in Nat \ {0}

Larger(a, b) == IF a >= b THEN a ELSE b
Smaller(a, b) == IF a <= b THEN a ELSE b

HasBehavior(r, flag) == flag \in r.behavior

Gregorian(r) == HasBehavior(r, "DURATION_IS_GREGORIAN")

\* The last millisecond of the calendar interval now lies in.
GregorianExpiration(now) ==
    ((now \div GregorianLength) + 1) * GregorianLength - 1

GregorianError(r) == Gregorian(r) /\ r.duration \notin GregorianCodes
=============================================================================

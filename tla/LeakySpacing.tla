---------------------------- MODULE LeakySpacing ----------------------------
(***************************************************************************)
(* LeakyBucket with its callers of two kinds: either they send anything,   *)
(* or all send one limit, duration and burst and lose no state, and then a *)
(* reference bucket meters them.  It is filled and charged at the slots    *)
(* callers act at: what a third party that enforces the same limit sees.   *)
(***************************************************************************)
EXTENDS LeakyBucket

CONSTANTS
    Metered,     \* what callers of one configuration send
    AnyConfig,   \* the callers send anything (Requests)
    MixedTime    \* bound: the clock of callers that do stops here

ConfigOf(q) == [limit |-> q.limit, duration |-> q.duration, burst |-> q.burst]

\* Metered callers take hits on the owner's clock, at a rate in whole units per
\* millisecond, with a burst the limit refills in one duration.
Meterable(q) ==
    /\ WellFormed(q)
    /\ q.hits >= 0 /\ q.skew = 0
    /\ q.behavior \cap {"RESET_REMAINING", "DURATION_IS_GREGORIAN"} = {}
    /\ q.burst <= q.limit /\ Speed(q.limit, q.duration) * q.duration = Unit * q.limit

ASSUME MeteredAssumption ==
    MixedTime \in Nat /\ \A q \in Metered : Meterable(q) /\ ConfigOf(q) # AnyConfig

VARIABLES
    cfg,     \* the configuration every caller of the key sends, or AnyConfig
    credit   \* units the reference bucket holds at the latest slot

spacingVars == <<vars, cfg, credit>>

Capacity == Unit * (IF cfg.burst = 0 THEN cfg.limit ELSE cfg.burst)

MeterSpeed == Speed(cfg.limit, cfg.duration)

SpacingInit ==
    /\ Init
    /\ cfg \in {ConfigOf(q) : q \in Metered} \cup {AnyConfig}
    /\ credit = IF cfg = AnyConfig THEN 0 ELSE Capacity

\* A caller granted hits acts at its slot and is metered there.
Meter(r) ==
    credit' = IF r.hits > 0 /\ resp'.status \in {"UNDER_LIMIT", "SCHEDULED"}
              THEN Smaller(Capacity, credit + (frontier' - frontier) * MeterSpeed)
                   - Unit * r.hits
              ELSE credit

SpacingNext ==
    /\ UNCHANGED cfg
    /\ \/ cfg = AnyConfig /\ Next /\ now' <= MixedTime /\ UNCHANGED credit
       \/ cfg # AnyConfig /\ Tick /\ UNCHANGED credit
       \/ \E q \in {q \in Metered : ConfigOf(q) = cfg} :
             LET r == Request(q)
             IN  (Reject(r) \/ leakyBucket(r)) /\ Meter(r)

SpacingSpec == SpacingInit /\ [][SpacingNext]_spacingVars

\* A slot is a whole millisecond: unless a token takes a whole number of them,
\* the reference may be short of less than one millisecond's leak.
Rounding == IF MeterSpeed = 0 \/ Unit % MeterSpeed = 0 THEN 0 ELSE MeterSpeed - 1

\* Spacing: with no state loss and every caller acting at its slot, plain
\* admissions and booked slots together never overdraw a bucket of the
\* configured burst and rate, over any window of time, expiry included, but
\* for the rounding of slots to milliseconds.
Spacing == cfg # AnyConfig => credit >= -Rounding
=============================================================================

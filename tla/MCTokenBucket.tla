--------------------------- MODULE MCTokenBucket ----------------------------
(* Small instances of TokenBucket for TLC. *)
EXTENDS TokenBucket

Config(l, d) == [limit |-> l, duration |-> d]

\* Limits that grow and shrink, durations that end a running window.
MixedConfigs == {Config(2, 4), Config(3, 1), Config(0, 2)}

\* A refund, a query, one hit and two.
MixedHits == {-1, 0, 1, 2}

MixedBehaviors == {{}, {"RESET_REMAINING"}, {"DRAIN_OVER_LIMIT"}, {"DURATION_IS_GREGORIAN"}}

SkewedClocks == {-2, 0, 3}
=============================================================================

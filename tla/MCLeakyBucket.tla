--------------------------- MODULE MCLeakyBucket ----------------------------
(* A small instance of LeakyBucket and LeakySpacing for TLC. *)
EXTENDS LeakySpacing

Config(l, d, b) == [limit |-> l, duration |-> d, burst |-> b]

Sent(configs, hits, maxWaits, behaviors, skews) ==
    {[limit |-> c.limit, duration |-> c.duration, burst |-> c.burst, hits |-> h,
      maxWait |-> w, behavior |-> b, skew |-> s] :
        c \in configs, h \in hits, w \in maxWaits, b \in behaviors, s \in skews}

\* Two usable rates; a limit of zero; a burst above the limit at a short
\* duration that is also a calendar code.
Steady == {Config(2, 4, 0), Config(1, 4, 2)}
Mixed == Steady \cup {Config(0, 4, 0), Config(1, 1, 2)}

\* Queries, one hit and a whole burst, plain and booked, refunds, every
\* behavior, and client clocks behind and ahead of the owner's.
MixedRequests ==
    Sent(Mixed, {0, 1, 2}, {0, 9}, {{}}, {0})
    \cup Sent(Mixed, {-1}, {0}, {{}}, {0})
    \cup Sent(Mixed, {1}, {0}, {{"RESET_REMAINING"}, {"DURATION_IS_GREGORIAN"}}, {0})
    \cup Sent(Mixed, {1, 2}, {0}, {{"DRAIN_OVER_LIMIT"}}, {0})
    \cup Sent({Config(2, 4, 0)}, {1, 2}, {0, 9}, {{}}, {-2, 3})
    \cup Sent({Config(1, 4, 2)}, {1}, {9}, {{"RESET_REMAINING"}}, {0})

\* One configuration at a time: bursts up to the limit, at three rates, one of
\* them no whole number of milliseconds per token.
MeteredRequests ==
    Sent({Config(2, 4, 0), Config(1, 4, 0), Config(3, 3, 2), Config(3, 4, 1)},
         {0, 1, 2}, {0, 3, 9}, {{}, {"DRAIN_OVER_LIMIT"}}, {0})
=============================================================================

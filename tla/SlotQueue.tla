----------------------------- MODULE SlotQueue ------------------------------
(***************************************************************************)
(* What scheduled admission promises the callers of one key, without the   *)
(* bucket: slots are handed out in the order requests are processed, never *)
(* before the present and never more than the wait ceiling ahead.          *)
(***************************************************************************)
EXTENDS Integers

CONSTANT Ceiling   \* the longest wait a slot may impose

VARIABLES
    now,       \* the owner's clock
    frontier   \* the latest slot granted and not forgotten

vars == <<now, frontier>>

Init == now = 0 /\ frontier = 0

\* Time passes; no slot moves.
Tick == now' = now + 1 /\ UNCHANGED frontier

\* A request is granted a slot, at or after every slot granted before it.
Grant ==
    /\ frontier' >= frontier
    /\ frontier' \in now .. now + Ceiling
    /\ UNCHANGED now

\* A documented reset or a state loss forgets the bookings.
Forget == frontier' = 0 /\ UNCHANGED now

Next == Tick \/ Grant \/ Forget

Spec == Init /\ [][Next]_vars
=============================================================================

------------------------- MODULE MCMemberListPeers -------------------------
(* A small instance of MemberListPeers for TLC. *)
EXTENDS MemberListPeers

CONSTANTS me, a, here

InLists == {[addr : S, dc : {here}] : S \in SUBSET Addrs}

\* One point per peer.
InHashings == {[x \in Addrs \X (1 .. Replicas) |-> IF x[1] = me THEN 0 ELSE IF x[1] = a THEN 1 ELSE 2]}
=============================================================================

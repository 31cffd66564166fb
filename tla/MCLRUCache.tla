----------------------------- MODULE MCLRUCache -----------------------------
(* Small instances of LRUCache for TLC. *)
EXTENDS LRUCache

CONSTANTS k1, k2, k3

\* In debt, and not.
BothSides == {-1, 1}

AnyKey == Permutations(ItemKeys)
=============================================================================

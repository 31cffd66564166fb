--------------------------- MODULE MCGlobalManager --------------------------
(* Small instances of GlobalManager for TLC. *)
EXTENDS GlobalManager

CONSTANTS k1, k2, k3
=============================================================================

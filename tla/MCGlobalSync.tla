---------------------------- MODULE MCGlobalSync ----------------------------
(* A small instance of GlobalSync for TLC. *)
EXTENDS GlobalSync

CONSTANTS p1, p2
=============================================================================

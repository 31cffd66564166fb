---------------------------- MODULE MCForwarding ----------------------------
(* A small instance of Forwarding for TLC. *)
EXTENDS Forwarding

CONSTANTS k1, me, p1, p2, q1, s1
=============================================================================

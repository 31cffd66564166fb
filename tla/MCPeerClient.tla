---------------------------- MODULE MCPeerClient ----------------------------
(* A small instance of PeerClient for TLC. *)
EXTENDS PeerClient

CONSTANTS c1, c2, d1
=============================================================================

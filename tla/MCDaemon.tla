------------------------------ MODULE MCDaemon ------------------------------
(* A small instance of Daemon for TLC. *)
EXTENDS Daemon

CONSTANTS me, a

InQueries == <<"A", "AAAA">>
InAnswered == [n \in Nodes |-> IF n = me THEN "A" ELSE "AAAA"]
=============================================================================

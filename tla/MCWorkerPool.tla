---------------------------- MODULE MCWorkerPool ----------------------------
(* A small instance of WorkerPool for TLC. *)
EXTENDS WorkerPool

CONSTANTS k1, k2, h1, h2, a1

\* Two callers share a key, the third adds an item of its own.
SharedKey == [c \in Callers |-> IF c \in {h1, h2} THEN k1 ELSE k2]
=============================================================================

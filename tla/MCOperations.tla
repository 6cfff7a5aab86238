------------------------------ MODULE MCOperations ------------------------------
(* Small instances of Operations for TLC. *)
EXTENDS Operations

CONSTANTS q1, q2

MCRequests == {q1, q2}
MCPartitions == {0, 1}

\* A consumer process over a topic that moves; the health server by itself.
Apart == {{"process", "topic"}, {"health"}}
=============================================================================

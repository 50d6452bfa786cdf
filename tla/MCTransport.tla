----------------------------- MODULE MCTransport -----------------------------
(* Constants for the model-checking run of Transport.                       *)
EXTENDS Transport

CONSTANTS c1, c2, t1, t2

(* An app with two requests, and one that only connects and leaves.         *)
MCRequests == [c \in Channels |-> IF c = c1 THEN 2 ELSE 0]
=============================================================================

----------------------------- MODULE MCSessions ------------------------------
(* Constants for the runs of Sessions.                                      *)
EXTENDS Sessions, TLC

CONSTANTS u1, u2, c1, c2, c3

(* u1's app has two channels; in the run with one per app c3 is absent.     *)
MCOwner == [c \in Channels |-> IF c = c2 THEN u2 ELSE u1]

(* The two channels of u1's app are alike.                                  *)
AppSymmetry == Permutations({c1, c3})
=============================================================================

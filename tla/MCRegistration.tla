--------------------------- MODULE MCRegistration ----------------------------
(* Constants for the runs of Registration.                                  *)
EXTENDS Registration, TLC

CONSTANTS l1, l2, l3, c1, c2, c3

(* Garbage ids: those of users to come, one that is congruent to such an   *)
(* id modulo Word, and one that is no id at all.                           *)
MCStrayIds == {0, 1, 2, Word + 2}

ChannelSymmetry == Permutations(Channels)
=============================================================================

--------------------------- MODULE MCPackageView ---------------------------
(* Constants for the run of PackageView.  The customer can afford one       *)
(* purchase of s1; everything else is connected by the administrator, who   *)
(* may also overwrite the score.  What the offers promise plays no part.    *)
EXTENDS PackageView

CONSTANTS u1, r1, s1, c1, a1, v1

MCCost  == [i \in Offers |-> IF i = s1 THEN 1 ELSE 2]
MCGives == [i \in Offers |-> Empty]

OneUser == [c \in Clients |-> u1]

MCOpening     == {1}
MCScores      == {1}
MCStrayScores == {0}
EmptyPacks    == {Empty}
=============================================================================

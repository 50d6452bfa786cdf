-------------------------- MODULE MCIsolatedBilling --------------------------
(* Constants for the run of IsolatedBilling.                                *)
EXTENDS IsolatedBilling

CONSTANTS u1, u2, r1, r2, s1, c1, c2, a1

MCCost  == [i \in Offers |-> IF i = r1 THEN 2 ELSE 1]
MCGives == [i \in Offers |-> IF i = r1 THEN [mb |-> 2, sms |-> 1] ELSE [mb |-> 1, sms |-> 1]]

TwoUsers == [c \in Clients |-> IF c = c1 THEN u1 ELSE u2]

MCOpening    == {0, 3}
MCScores     == {-1, 3}
FittingPacks == {[mb |-> 1, sms |-> 2]}
=============================================================================

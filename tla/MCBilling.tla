------------------------------ MODULE MCBilling ------------------------------
(* Constants for the model-checking runs of Billing.                        *)
EXTENDS Billing, TLC

CONSTANTS u1, u2, r1, r2, s1, c1, c2, a1

MCCost  == [i \in Offers |-> IF i = r1 THEN 2 ELSE 1]
MCGives == [i \in Offers |-> IF i = r1 THEN [mb |-> 2, sms |-> 1] ELSE [mb |-> 1, sms |-> 1]]

(* Two phones of one customer, and two customers.                           *)
OneUser  == [c \in Clients |-> u1]
TwoUsers == [c \in Clients |-> IF c = c1 THEN u1 ELSE u2]

(* An account that pays for r1 once, and an administrator's debt.           *)
MCOpening     == {2}
MCScores      == {-1}
MCStrayScores == {5}
MCAdminPacks  == {[mb |-> 1, sms |-> 2], [mb |-> 4, sms |-> 0]}
LargePack     == {[mb |-> 4, sms |-> 0]}
(* Garbage to which r1 can be added (7 wraps around) and s1 cannot.         *)
MCStrayPacks  == {[mb |-> 1, sms |-> 7]}

(* Both phones of OneUser are alike: sound for invariants and single steps. *)
PhoneSymmetry == Permutations({c1, c2})
=============================================================================

---------------------------- MODULE AtomicBilling ----------------------------
(***************************************************************************)
(* What a billing request promises: it takes effect in one step or not at  *)
(* all.  The tables are those of Billing, and a handler is seen only as    *)
(* the moment its request takes effect.                                    *)
(***************************************************************************)
EXTENDS Integers

CONSTANTS Users, Offers, Listed, Cost, Delivers, Opening, Scores, Packs, Requests

VARIABLES users, package_state, connected

vars == <<users, package_state, connected>>

Sum(p, q) == [mb |-> p.mb + q.mb, sms |-> p.sms + q.sms]

(* An offer is connected, paid for or granted, and delivered.               *)
Obtain(u, i, price) ==
    /\ i \in Listed
    /\ users' = [users EXCEPT ![u] = @ - price]
    /\ package_state' = [package_state EXCEPT ![u] = Sum(@, Delivers[i])]
    /\ \E n \in Requests :
          /\ \A e \in connected : e.req # n
          /\ connected' = connected \cup {[req |-> n, user |-> u, item |-> i]}

(* Who buys has the money; a gift reaches whoever is in debt, too.          *)
Buy(u, i)   == users[u] >= Cost[i] /\ Obtain(u, i, Cost[i])
Grant(u, i) == Obtain(u, i, 0)

(* An administrator replaces score and package of a user.                   *)
Adjust(u, score, pack) ==
    /\ users' = [users EXCEPT ![u] = score]
    /\ package_state' = [package_state EXCEPT ![u] = pack]
    /\ UNCHANGED connected

Next ==
    \/ \E u \in Users, i \in Offers : Buy(u, i) \/ Grant(u, i)
    \/ \E u \in Users, s \in Scores, p \in Packs : Adjust(u, s, p)

Init ==
    /\ users \in [Users -> Opening]
    /\ package_state = [u \in Users |-> [mb |-> 0, sms |-> 0]]
    /\ connected = {}

Spec == Init /\ [][Next]_vars
=============================================================================

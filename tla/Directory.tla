------------------------------ MODULE Directory ------------------------------
(***************************************************************************)
(* What the registrations of an operator promise, whatever they are doing  *)
(* at the moment: the tables of Registration as one book that is only ever *)
(* added to, entry by entry and in an order that makes sense.              *)
(***************************************************************************)
EXTENDS Integers

CONSTANTS None, Unnamed, Logins, LongLogins, Ids

VARIABLES server_users, users, package_state, connected

vars == <<server_users, users, package_state, connected>>

(* A login gets an id, for good, that no other login has.                  *)
Enroll(l) ==
    /\ server_users[l] = None
    /\ server_users' = [server_users EXCEPT ![l] = server_users'[l]]
    /\ server_users'[l] \in Nat
    /\ \A k \in Logins \ {l} : server_users[k] # server_users'[l]
    /\ UNCHANGED <<users, package_state, connected>>

(* An account is opened, for good: its owner's, or nobody's.               *)
Open(i) ==
    /\ users[i] = None
    /\ \/ users' = [users EXCEPT ![i] = Unnamed]
       \/ \E l \in Logins \ LongLogins :
             server_users[l] = i /\ users' = [users EXCEPT ![i] = l]
    /\ UNCHANGED <<server_users, package_state, connected>>

(* An account that has been opened gets its package, once ...              *)
Furnish(i) ==
    /\ users[i] # None /\ i \notin package_state
    /\ package_state' = package_state \cup {i}
    /\ UNCHANGED <<server_users, users, connected>>

(* ... and rates: what is kept is which accounts have been given one, not   *)
(* how many rows there are, so a second rate is no step.                    *)
Subscribe(i) ==
    /\ users[i] # None /\ i \notin connected
    /\ connected' = connected \cup {i}
    /\ UNCHANGED <<server_users, users, package_state>>

Next ==
    \/ \E l \in Logins : Enroll(l)
    \/ \E i \in Ids : Open(i) \/ Furnish(i) \/ Subscribe(i)

Init ==
    /\ server_users = [l \in Logins |-> None]
    /\ users = [i \in Ids |-> None]
    /\ package_state = {}
    /\ connected = {}

Spec == Init /\ [][Next]_vars
=============================================================================

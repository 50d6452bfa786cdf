--------------------------- MODULE IsolatedBilling ---------------------------
(***************************************************************************)
(* Billing when nothing interferes: no two handlers work on one user at a  *)
(* time, no call fails, no counter outgrows its column, the server stays   *)
(* up, every user is registered completely.  Handlers of different users   *)
(* still interleave call by call.  Under these conditions, and only then,  *)
(* each request is atomic: the module maps Billing to AtomicBilling.       *)
(***************************************************************************)
EXTENDS Billing

ASSUME NoneAssumption == None \notin Job

CompleteInit == Init /\ \A u \in Users : users[u] # None /\ package_state[u] # None

Isolated ==
    \A c, d \in Channels :
        c # d /\ job[c] # None /\ job[d] # None => job[c].user # job[d].user

(* The columns take what handlers are about to write.                       *)
Roomy ==
    \A c \in Channels :
        /\ At(c, "putPack") => Fits(Sum(package_state[job[c].user], Parsed(job[c].item)))
        /\ At(c, "setPack") => Fits(job[c].pack)

IsolatedSpec == CompleteInit /\ [][Serve /\ NoFault /\ (Isolated /\ Roomy)']_vars

(* A request takes effect when its row is inserted (or the score is set);   *)
(* the updates that its handler has still to make are anticipated.          *)
Pending(u, steps) ==
    {c \in Channels : job[c] # None /\ job[c].user = u /\ job[c].pc \in steps}

Only(S) == CHOOSE x \in S : TRUE

AtomicUsers ==
    [u \in Users |->
        LET paying == Pending(u, {"charge"}) IN
        IF paying = {} THEN users[u] ELSE users[u] - Cost[job[Only(paying)].item]]

AtomicPackages ==
    [u \in Users |->
        LET delivery == Pending(u, {"charge", "getPack", "putPack"})
            edit     == Pending(u, {"setPack"})
        IN  IF delivery # {} THEN Sum(package_state[u], Parsed(job[Only(delivery)].item))
            ELSE IF edit # {} THEN job[Only(edit)].pack
            ELSE package_state[u]]

Atomic == INSTANCE AtomicBilling WITH
    users         <- AtomicUsers,
    package_state <- AtomicPackages,
    Delivers      <- [i \in Offers |-> Parsed(i)],
    Packs         <- AdminPacks,
    Requests      <- 0 .. MaxRequests - 1

(* The five handlers, call by call, implement one atomic step per request.  *)
ImplementsAtomicBilling == Atomic!Spec

(* "Success!" then means that the package grew by exactly the offer: all of *)
(* a rate's row, of a service's row all that ProtoHelper parses of it.  For *)
(* rates this is SuccessMeansDelivered, which Billing alone does not have.  *)
SuccessDeliversAlone ==
    [][\A c \in Channels :
          Leaves(c, "putPack") /\ At(c, "reply")' /\ job'[c].text = "success" =>
              LET u == job[c].user
                  i == job[c].item IN
              /\ package_state[u] # None
              /\ package_state'[u] = Sum(package_state[u], Parsed(i))
              /\ i \in Rates => Parsed(i) = Gives[i]]_vars
=============================================================================

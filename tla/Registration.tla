---------------------------- MODULE Registration -----------------------------
(***************************************************************************)
(* AuthLogic::createUser: a registration writes to two databases, in four  *)
(* transactions.  The login gets its id in server_users (auth.sql), the    *)
(* account of that id a row each in users, package_state and               *)
(* user_connected_rate (malahov.sql).                                      *)
(*                                                                         *)
(* Only the first two results are looked at; from getUserByLogin on every  *)
(* failure is ignored and the answer is "Success".                         *)
(***************************************************************************)
EXTENDS Integers

CONSTANTS
    None,         \* no row, no handler
    Unnamed,      \* the empty user_login of an unread UserInfo
    Logins,       \* logins that register
    LongLogins,   \* those that do not fit users.phone, varchar(12)
    RateListed,   \* whether table rates has the row with id 3
    Channels,     \* connections registrations come from
    StrayIds,     \* what an uninitialised UserInfo.user_id may hold
    MaxId,        \* the largest id that fits users.id, an integer
    Word,         \* createEmptyPackage takes the id modulo Word
    MaxRequests,  \* bound on the requests of a behaviour
    MaxFaults     \* bound on failing calls and restarts of a behaviour

Ids    == 0 .. MaxId
Phones == Logins \cup {Unnamed}

Steps == {"exists", "insert", "lookup", "account", "package", "rate", "reply"}
Texts == {"none", "wrong", "exists", "again", "success"}

(* The locals of a handler: id and phone are its UserInfo.                 *)
Handler == [pc : Steps, login : Logins, id : Nat, phone : Phones, text : Texts]

ASSUME ConstantsAssumption ==
    /\ None \notin Nat /\ None \notin Phones /\ None \notin Handler /\ Unnamed \notin Logins
    /\ LongLogins \subseteq Logins
    /\ RateListed \in BOOLEAN
    /\ StrayIds \subseteq Nat
    /\ MaxId \in Nat /\ Word \in Nat /\ MaxId < Word
    /\ MaxRequests \in Nat /\ MaxFaults \in Nat

VARIABLES
    server_users,   \* user_id by user_login
    next_id,        \* the sequence behind server_users.user_id, a bigint
    users,          \* users.phone by users.id
    package_state,  \* the ids with a package
    connected,      \* the ids with rate 3
    handler,        \* the registration running on each channel, or None
    requests,       \* number of requests begun
    faults          \* number of calls that failed, and of restarts

accounts == <<users, package_state, connected>>
vars == <<server_users, next_id, users, package_state, connected, handler, requests, faults>>

TypeOK ==
    /\ server_users \in [Logins -> Nat \cup {None}]
    /\ next_id \in Nat
    /\ users \in [Ids -> Phones \cup {None}]
    /\ package_state \subseteq Ids
    /\ connected \subseteq Ids
    /\ handler \in [Channels -> Handler \cup {None}]
    /\ requests \in 0 .. MaxRequests
    /\ faults \in 0 .. MaxFaults

At(c, step) == handler[c] # None /\ handler[c].pc = step

Goto(c, h, step) == handler' = [handler EXCEPT ![c] = [h EXCEPT !.pc = step]]

Answer(c, text) ==
    handler' = [handler EXCEPT ![c] = [handler[c] EXCEPT !.pc = "reply", !.text = text]]

NoFault == UNCHANGED faults
Fault   == faults < MaxFaults /\ faults' = faults + 1

-----------------------------------------------------------------------------
Init ==
    /\ server_users = [l \in Logins |-> None]
    /\ next_id = 1
    /\ users = [i \in Ids |-> None]
    /\ package_state = {}
    /\ connected = {}
    /\ handler = [c \in Channels |-> None]
    /\ requests = 0
    /\ faults = 0

RegisterRR(c) ==
    /\ handler[c] = None
    /\ requests < MaxRequests
    /\ requests' = requests + 1
    /\ \E l \in Logins :
          handler' = [handler EXCEPT ![c] =
              [pc |-> "exists", login |-> l, id |-> 0, phone |-> Unnamed, text |-> "none"]]
    /\ UNCHANGED <<server_users, next_id, accounts, faults>>

IsUserExist(c) ==
    /\ At(c, "exists")
    /\ LET h == handler[c] IN
       \/ server_users[h.login] = None /\ NoFault /\ Goto(c, h, "insert")
       \/ server_users[h.login] # None /\ NoFault /\ Answer(c, "exists")
       \/ Fault /\ Answer(c, "wrong")
    /\ UNCHANGED <<server_users, next_id, accounts, requests>>

(* Mutant: user_login is no key of server_users.                           *)
InsertAlways(c) ==
    /\ At(c, "insert")
    /\ server_users' = [server_users EXCEPT ![handler[c].login] = next_id]
    /\ next_id' = next_id + 1
    /\ Goto(c, handler[c], "lookup")
    /\ UNCHANGED <<accounts, requests, faults>>

(* Mutant: the next id is the number of the last one.                      *)
InsertReusesId(c) ==
    /\ At(c, "insert")
    /\ server_users[handler[c].login] = None
    /\ server_users' = [server_users EXCEPT ![handler[c].login] = next_id]
    /\ Goto(c, handler[c], "lookup")
    /\ UNCHANGED <<next_id, accounts, requests, faults>>

(* AuthPostgresManager::createUser: user_login is the key, and an id taken *)
(* from the sequence is not given back.                                    *)
InsertServerUser(c) ==
    /\ At(c, "insert")
    /\ LET h == handler[c] IN
       \/ /\ server_users[h.login] = None
          /\ server_users' = [server_users EXCEPT ![h.login] = next_id]
          /\ next_id' = next_id + 1
          /\ \/ NoFault /\ Goto(c, h, "lookup")
             \/ Fault /\ Answer(c, "again")
       \/ /\ IF server_users[h.login] = None THEN Fault ELSE NoFault
          /\ next_id' = next_id + 1
          /\ Answer(c, "again")
          /\ UNCHANGED server_users
       \/ Fault /\ Answer(c, "again") /\ UNCHANGED <<server_users, next_id>>
    /\ UNCHANGED <<accounts, requests>>

(* getUserByLogin: its result is ignored, and after a failure the UserInfo *)
(* is what its constructor leaves: an empty login and no id.               *)
GetUserByLogin(c) ==
    /\ At(c, "lookup")
    /\ LET h == handler[c] IN
       \/ /\ NoFault
          /\ Goto(c, [h EXCEPT !.id = server_users[h.login], !.phone = h.login], "account")
       \/ /\ Fault
          /\ \E id \in StrayIds : Goto(c, [h EXCEPT !.id = id], "account")
    /\ UNCHANGED <<server_users, next_id, accounts, requests>>

-----------------------------------------------------------------------------
(* The inserts of the account.                                             *)

(* A statement that may be executed, and is, with or without               *)
(* acknowledgement; or one that has no effect.                             *)
Try(allowed, effect, none) ==
    \/ allowed /\ effect /\ (NoFault \/ Fault)
    \/ (IF allowed THEN Fault ELSE NoFault) /\ none

(* ClientPostgresManager::createUser                                       *)
CreateUser(c) ==
    /\ At(c, "account")
    /\ LET h == handler[c] IN
       /\ Try(h.id \in Ids /\ users[h.id] = None /\ h.phone \notin LongLogins,
              users' = [users EXCEPT ![h.id] = h.phone], UNCHANGED users)
       /\ Goto(c, h, "package")
    /\ UNCHANGED <<server_users, next_id, package_state, connected, requests>>

(* Mutant: no foreign keys to users.                                       *)
AnyAccount(id) == id \in Nat

HasAccount(id) == id \in Ids /\ users[id] # None

(* The id is passed as uint32_t.                                           *)
CreateEmptyPackage(c) ==
    /\ At(c, "package")
    /\ LET h  == handler[c]
           id == h.id % Word IN
       /\ Try(HasAccount(id) /\ id \notin package_state,
              package_state' = package_state \cup {id}, UNCHANGED package_state)
       /\ Goto(c, h, "rate")
    /\ UNCHANGED <<server_users, next_id, users, connected, requests>>

(* createUserRate with rate 3                                              *)
CreateUserRate(c) ==
    /\ At(c, "rate")
    /\ LET h == handler[c] IN
       Try(HasAccount(h.id) /\ RateListed,
           connected' = connected \cup {h.id}, UNCHANGED connected)
    /\ Answer(c, "success")
    /\ UNCHANGED <<server_users, next_id, users, package_state, requests>>

Reply(c) ==
    /\ At(c, "reply")
    /\ handler' = [handler EXCEPT ![c] = None]
    /\ UNCHANGED <<server_users, next_id, accounts, requests, faults>>

(* The server process ends: only the tables survive.                       *)
Crash ==
    /\ \E c \in Channels : handler[c] # None
    /\ Fault
    /\ handler' = [c \in Channels |-> None]
    /\ UNCHANGED <<server_users, next_id, accounts, requests>>

Call(c) ==
    \/ IsUserExist(c) \/ InsertServerUser(c) \/ GetUserByLogin(c) \/ CreateUser(c)
    \/ CreateEmptyPackage(c) \/ CreateUserRate(c) \/ Reply(c)

Next == (\E c \in Channels : RegisterRR(c) \/ Call(c)) \/ Crash

Spec == Init /\ [][Next]_vars

-----------------------------------------------------------------------------
(* Properties                                                              *)

(* An account that bears a login is the account of that login's id in the  *)
(* other database, and no id has two logins: whatever registrations race,  *)
(* fail half-way or are retried, and although garbage ids are inserted.    *)
AccountIsOwners ==
    /\ \A i \in Ids : users[i] \in Logins => server_users[users[i]] = i
    /\ \A l, k \in Logins :
          server_users[l] = server_users[k] /\ server_users[l] # None => l = k

(* Of all registrations of one login, only one ever writes an account.     *)
Writing(c) == handler[c] # None /\ handler[c].pc \in {"lookup", "account", "package", "rate"}
OneWriterPerLogin ==
    \A c, d \in Channels :
        Writing(c) /\ Writing(d) /\ handler[c].login = handler[d].login => c = d

(* What a registered user can rely on: account, package and rate.          *)
Complete(l) ==
    LET id == server_users[l] IN
    /\ id \in Ids
    /\ users[id] = l
    /\ id \in package_state
    /\ RateListed => id \in connected

(* As long as no call failed and the server stayed up, a login that is     *)
(* stored and on which nobody works any more is registered completely,     *)
(* however registrations of the same and of other logins interleave.       *)
CompleteUnlessDisturbed ==
    \A l \in Logins \ LongLogins :
        /\ faults = 0
        /\ server_users[l] \in Ids
        /\ \A c \in Channels : Writing(c) => handler[c].login # l
        => Complete(l)

(* The answer "Success" is given for a complete registration only.         *)
SuccessMeansRegistered ==
    \A c \in Channels :
        At(c, "reply") /\ handler[c].text = "success" => Complete(handler[c].login)

(* It is, for an id and a login that fit users, as long as no call failed. *)
SuccessUnlessDisturbed ==
    \A c \in Channels :
        LET h == handler[c] IN
        /\ faults = 0
        /\ At(c, "reply") /\ h.text = "success"
        /\ server_users[h.login] \in Ids /\ h.login \notin LongLogins
        => Complete(h.login)

(* Between them the handlers, whatever fails half-way, is retried or dies  *)
(* with the server, only ever add to the tables, and in order: ids and     *)
(* accounts are given once, an account never to anyone but the owner of    *)
(* its id, packages and rates to accounts that exist.                      *)
Directory == INSTANCE Directory
ImplementsDirectory == Directory!Spec
=============================================================================

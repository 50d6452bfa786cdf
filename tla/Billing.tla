------------------------------- MODULE Billing -------------------------------
(***************************************************************************)
(* The operator's accounts and packages, and the five request handlers of  *)
(* AuthLogic that change them: ratePayment, servicePayment,                *)
(* adminUserRateChange, adminUserServiceChange, adminUpdateUserPackage.    *)
(*                                                                         *)
(* A handler is a script of calls to the Postgres managers.  Every call    *)
(* opens a connection and commits a transaction of its own, so the unit of *)
(* interleaving is the call, and an action of this module is one call      *)
(* together with the code the handler runs before the next one.  Handlers  *)
(* of different channels run on different worker threads.                  *)
(*                                                                         *)
(* A call succeeds, fails without effect (no connection, a rolled back     *)
(* transaction), or loses the acknowledgement of its commit: the managers  *)
(* map every exception to status_internal_error.                           *)
(*                                                                         *)
(* Registrations go on beside the requests.  Of them this module keeps the *)
(* two inserts that the five handlers can see, into users and into         *)
(* package_state; module Registration has the whole.                       *)
(***************************************************************************)
EXTENDS Integers

CONSTANTS
    None,         \* no row, no job, no offer
    Users,        \* ids that may have a row in table users
    Rates,        \* rate ids a request may name
    Services,     \* service ids a request may name
    Listed,       \* the offers that have a row in rates or services
    Cost,         \* price of an offer
    Gives,        \* what an offer's row promises: megabytes and messages
    Clients,      \* channels of customers
    Admins,       \* channels of administrators
    SessionUser,  \* the user a customer's channel is logged in as
    Opening,      \* scores accounts may have before the first request
    Scores,       \* scores an administrator may set, of whatever sign
    AdminPacks,   \* packages an administrator may set
    StrayScores,  \* what an uninitialised UserInfo.score may hold
    StrayPacks,   \* what an uninitialised PackageInfo may hold
    MaxCount,     \* the largest value of an integer column
    Word,         \* uint32_t arithmetic is modulo Word
    MaxRequests,  \* bound on the requests of a behaviour
    MaxFaults     \* bound on the failing calls of a behaviour

Offers   == Rates \cup Services
Channels == Clients \cup Admins
Counter  == 0 .. Word - 1
Stored   == 0 .. MaxCount
PackageInfo == [mb : Counter, sms : Counter]   \* in memory
PackageRow  == [mb : Stored, sms : Stored]     \* in table package_state

ASSUME ConstantsAssumption ==
    /\ None \notin Int /\ None \notin PackageInfo /\ None \notin Offers
    /\ Listed \subseteq Offers
    /\ Rates \cap Services = {}
    /\ Clients \cap Admins = {}
    /\ SessionUser \in [Clients -> Users]
    /\ MaxCount \in Nat /\ Word \in Nat /\ MaxCount < Word
    /\ Cost \in [Offers -> Nat]
    /\ Gives \in [Offers -> PackageRow]
    /\ Opening \subseteq Int /\ Scores \subseteq Int
    /\ AdminPacks \subseteq PackageInfo
    /\ StrayScores \subseteq Int
    /\ StrayPacks \subseteq PackageInfo
    /\ MaxRequests \in Nat /\ MaxFaults \in Nat

VARIABLES
    users,          \* users.score by users.id
    package_state,  \* package_state by user_id
    connected,      \* user_connected_rate and user_connected_service
    job,            \* the handler running on each channel, or None
    requests,       \* number of requests begun
    faults,         \* number of calls that failed
    charged,        \* history: accounts updated by payments
    credited,       \* history: packages updated by an offer
    missed          \* history: updates by an offer that found no package

tables  == <<users, package_state, connected>>
history == <<charged, credited, missed>>
vars    == <<users, package_state, connected, job, requests, faults, charged, credited, missed>>

Payments == {"ratePayment", "servicePayment"}
Grants   == {"adminUserRateChange", "adminUserServiceChange"}
Kinds    == Payments \cup Grants \cup {"adminUpdateUserPackage"}
Steps    == {"getOffer", "getUser", "connect", "charge", "getPack", "putPack",
             "setScore", "setPack", "reply"}
Codes    == {"status_success", "status_internal_error", "status_does_not_exist"}
Texts    == {"none", "success", "poor", "unknown", "wrong"}

(* The locals of a handler; req stands for the time of the request, uid    *)
(* and score are its UserInfo, which came from a row or not, pack its      *)
(* PackageInfo.                                                            *)
Job == [kind : Kinds, pc : Steps, req : Nat, user : Users, item : Offers \cup {None},
        uid : Users, score : Int, isRow : BOOLEAN, pack : PackageInfo,
        code : Codes, text : Texts]

Entry   == [req : Nat, user : Users, item : Offers]
Charges == [req : Nat, user : Users, item : Offers, uid : Users, isRow : BOOLEAN]

-----------------------------------------------------------------------------
(* The handlers: which call follows which.                                 *)

(* Mutant: the row is inserted before the account is looked at.            *)
ratePaymentConnectFirst ==
    [getOffer |-> "connect", connect |-> "getUser", getUser |-> "charge",
     charge |-> "getPack", getPack |-> "putPack"]

ratePayment ==
    [getOffer |-> "getUser", getUser |-> "connect", connect |-> "charge",
     charge |-> "getPack", getPack |-> "putPack"]

servicePayment ==
    [getOffer |-> "getUser", getUser |-> "connect", connect |-> "charge",
     charge |-> "getPack", getPack |-> "putPack"]

adminUserRateChange ==
    [getOffer |-> "getUser", getUser |-> "connect", connect |-> "getPack",
     getPack |-> "putPack"]

adminUserServiceChange ==
    [getOffer |-> "connect", connect |-> "getPack", getPack |-> "putPack"]

adminUpdateUserPackage ==
    [getUser |-> "setScore", setScore |-> "setPack"]

Script(kind) ==
    CASE kind = "ratePayment"            -> ratePayment
      [] kind = "servicePayment"         -> servicePayment
      [] kind = "adminUserRateChange"    -> adminUserRateChange
      [] kind = "adminUserServiceChange" -> adminUserServiceChange
      [] kind = "adminUpdateUserPackage" -> adminUpdateUserPackage

LastStep(kind) == IF kind = "adminUpdateUserPackage" THEN "setPack" ELSE "putPack"

(* A handler is at a step of its own script.                               *)
Handler ==
    {j \in Job :
        /\ j.pc \in DOMAIN Script(j.kind) \cup {LastStep(j.kind), "reply"}
        /\ j.item = None <=> j.kind = "adminUpdateUserPackage"}

TablesOK ==
    /\ users \in [Users -> Int \cup {None}]
    /\ package_state \in [Users -> PackageRow \cup {None}]
    /\ connected \subseteq Entry

TypeOK ==
    /\ TablesOK
    /\ job \in [Channels -> Handler \cup {None}]
    /\ requests \in 0 .. MaxRequests
    /\ faults \in 0 .. MaxFaults
    /\ charged \subseteq Charges
    /\ credited \subseteq Entry
    /\ missed \subseteq Entry

At(c, step) == job[c] # None /\ job[c].pc = step

Proceed(c, j) ==
    job' = [job EXCEPT ![c] = [j EXCEPT !.pc = Script(j.kind)[j.pc]]]

Answer(c, code, text) ==
    job' = [job EXCEPT ![c] = [job[c] EXCEPT !.pc = "reply", !.code = code, !.text = text]]

NoFault == UNCHANGED faults
Fault   == faults < MaxFaults /\ faults' = faults + 1

-----------------------------------------------------------------------------
(* What the statements of the Postgres managers read and write.            *)

(* Mutant: SELECT ... FROM users without its WHERE clause.                 *)
AnyUserInfo(id) ==
    {[user_id |-> u, score |-> users[u], isRow |-> TRUE] : u \in {v \in Users : users[v] # None}}

(* SELECT ... FROM users: without a row the UserInfo stays uninitialised   *)
(* and the call still succeeds.                                            *)
UserInfo(id) ==
    IF users[id] = None
    THEN [user_id : Users, score : StrayScores, isRow : {FALSE}]
    ELSE {[user_id |-> id, score |-> users[id], isRow |-> TRUE]}

(* Mutant: UPDATE users without its WHERE clause.                          *)
UpdatedEveryUser(id, score) ==
    [u \in Users |-> IF users[u] = None THEN None ELSE score]

(* UPDATE users: no row with this id is no error.                          *)
UpdatedUsers(id, score) ==
    IF users[id] = None THEN users ELSE [users EXCEPT ![id] = score]

(* The foreign keys of user_connected_rate and user_connected_service.     *)
MayConnect(user, item) == users[user] # None /\ item \in Listed

(* Mutant: columns without a range.                                        *)
FitsAnything(pack) == pack \in PackageInfo

(* UPDATE package_state: a value beyond the column's type is an error, no  *)
(* row with this id is none.                                               *)
Fits(pack) == pack \in PackageRow
UpdatedPackages(user, pack) ==
    IF package_state[user] = None
    THEN package_state
    ELSE [package_state EXCEPT ![user] = pack]

(* The offer as the program holds it: ProtoHelper reads every column of    *)
(* services but count_sms, which stays 0.                                  *)
Parsed(item) ==
    IF item \in Services THEN [Gives[item] EXCEPT !.sms = 0] ELSE Gives[item]

(* Mutant: the offer's counters replace those of the package.              *)
CreditOverwrites(pack, item) == Parsed(item)

(* pInfo.count_x += info.count_x, in uint32_t                              *)
Credit(pack, item) ==
    [mb  |-> (pack.mb + Parsed(item).mb) % Word,
     sms |-> (pack.sms + Parsed(item).sms) % Word]

EntryOf(j) == [req |-> j.req, user |-> j.user, item |-> j.item]

(* Whose account the request's updateUser addressed.                       *)
ChargeOf(j) ==
    [req |-> j.req, user |-> j.user, item |-> j.item, uid |-> j.uid, isRow |-> j.isRow]

(* The updates that find their row.                                        *)
ChargedBy(j) == IF users[j.uid] = None THEN {} ELSE {ChargeOf(j)}
CreditedBy(j) == IF package_state[j.user] = None THEN {} ELSE {EntryOf(j)}

-----------------------------------------------------------------------------
(* The tables may hold what an interrupted registration left: a user       *)
(* without a package, or neither.                                          *)
Init ==
    /\ users \in [Users -> Opening \cup {None}]
    /\ package_state \in [Users -> {[mb |-> 0, sms |-> 0], None}]
    /\ \A u \in Users : users[u] = None => package_state[u] = None
    /\ connected = {}
    /\ job = [c \in Channels |-> None]
    /\ requests = 0
    /\ faults = 0
    /\ charged = {}
    /\ credited = {}
    /\ missed = {}

Begin(c, kind, step, user, item, score, pack) ==
    /\ job[c] = None
    /\ requests < MaxRequests
    /\ requests' = requests + 1
    /\ job' = [job EXCEPT ![c] =
                 [kind |-> kind, pc |-> step, req |-> requests, user |-> user,
                  item |-> item, uid |-> user, score |-> score, isRow |-> FALSE, pack |-> pack,
                  code |-> "status_internal_error", text |-> "none"]]
    /\ UNCHANGED <<tables, faults, history>>

Empty == [mb |-> 0, sms |-> 0]

RatePaymentRR(c) ==
    \E i \in Rates : Begin(c, "ratePayment", "getOffer", SessionUser[c], i, 0, Empty)

ServicePaymentRR(c) ==
    \E i \in Services : Begin(c, "servicePayment", "getOffer", SessionUser[c], i, 0, Empty)

AdminRateChangeRR(c) ==
    \E u \in Users, i \in Rates : Begin(c, "adminUserRateChange", "getOffer", u, i, 0, Empty)

AdminServiceChangeRR(c) ==
    \E u \in Users, i \in Services :
        Begin(c, "adminUserServiceChange", "getOffer", u, i, 0, Empty)

UpdateUserPackage(c) ==
    \E u \in Users, s \in Scores, p \in AdminPacks :
        Begin(c, "adminUpdateUserPackage", "getUser", u, None, s, p)

-----------------------------------------------------------------------------
(* One action per call.                                                    *)

(* The SELECT for an offer by its id.                                      *)
GetOffer(c) ==
    /\ At(c, "getOffer")
    /\ \/ job[c].item \in Listed /\ NoFault /\ Proceed(c, job[c])
       \/ job[c].item \notin Listed /\ NoFault /\ Answer(c, "status_does_not_exist", "unknown")
       \/ Fault /\ Answer(c, "status_internal_error", "unknown")
    /\ UNCHANGED <<tables, requests, history>>

GetRateInfo(c)    == At(c, "getOffer") /\ job[c].item \in Rates /\ GetOffer(c)
GetServiceInfo(c) == At(c, "getOffer") /\ job[c].item \in Services /\ GetOffer(c)

(* Mutant: ratePayment does not compare score and cost.                    *)
TooPoorForService(j, info) == j.kind = "servicePayment" /\ info.score < Cost[j.item]

TooPoor(j, info) == j.kind \in Payments /\ info.score < Cost[j.item]

(* An administrator's score replaces the one that was read.                *)
WithUser(j, info) ==
    IF j.kind = "adminUpdateUserPackage"
    THEN [j EXCEPT !.uid = info.user_id, !.isRow = info.isRow]
    ELSE [j EXCEPT !.uid = info.user_id, !.isRow = info.isRow, !.score = info.score]

(* getUserInfo, and the comparison of score and cost: its refusal carries  *)
(* the code of the call that succeeded.                                    *)
GetUser(c) ==
    /\ At(c, "getUser")
    /\ \/ /\ NoFault
          /\ \E info \in UserInfo(job[c].user) :
                IF TooPoor(job[c], info)
                THEN Answer(c, "status_success", "poor")
                ELSE Proceed(c, WithUser(job[c], info))
       \/ Fault /\ Answer(c, "status_internal_error", "wrong")
    /\ UNCHANGED <<tables, requests, history>>

(* Mutant: the result of the INSERT is ignored.                            *)
ConnectUnchecked(c) ==
    /\ At(c, "connect")
    /\ LET j == job[c] IN
       \/ /\ MayConnect(j.user, j.item)
          /\ connected' = connected \cup {EntryOf(j)}
          /\ NoFault \/ Fault
       \/ /\ IF MayConnect(j.user, j.item) THEN Fault ELSE NoFault
          /\ UNCHANGED connected
    /\ Proceed(c, job[c])
    /\ UNCHANGED <<users, package_state, requests, history>>

(* The INSERT into user_connected_rate or user_connected_service.          *)
Connect(c) ==
    /\ At(c, "connect")
    /\ LET j == job[c] IN
       \/ /\ MayConnect(j.user, j.item)
          /\ connected' = connected \cup {EntryOf(j)}
          /\ \/ NoFault /\ Proceed(c, j)
             \/ Fault /\ Answer(c, "status_internal_error", "wrong")
       \/ /\ IF MayConnect(j.user, j.item) THEN Fault ELSE NoFault
          /\ Answer(c, "status_internal_error", "wrong")
          /\ UNCHANGED connected
    /\ UNCHANGED <<users, package_state, requests, history>>

CreateUserRate(c)    == At(c, "connect") /\ job[c].item \in Rates /\ Connect(c)
CreateUserService(c) == At(c, "connect") /\ job[c].item \in Services /\ Connect(c)

(* updateUser of a payment: its result is ignored.  The id of a user       *)
(* without a row is garbage that may exceed the column's type.             *)
Charge(c) ==
    /\ At(c, "charge")
    /\ LET j == job[c] IN
       /\ \/ /\ users' = UpdatedUsers(j.uid, j.score - Cost[j.item])
             /\ charged' = charged \cup ChargedBy(j)
             /\ NoFault \/ Fault
          \/ /\ IF j.isRow THEN Fault ELSE NoFault
             /\ UNCHANGED <<users, charged>>
       /\ Proceed(c, j)
    /\ UNCHANGED <<package_state, connected, requests, credited, missed>>

(* getPackage: its result is overwritten, and after a failure the counters *)
(* are what the stack held.                                                *)
GetPack(c) ==
    /\ At(c, "getPack")
    /\ LET j == job[c]
           row == package_state[j.user] IN
       \/ /\ row # None
          /\ NoFault
          /\ Proceed(c, [j EXCEPT !.pack = Credit(row, j.item)])
       \/ /\ IF row = None THEN NoFault ELSE Fault
          /\ \E p \in StrayPacks : Proceed(c, [j EXCEPT !.pack = Credit(p, j.item)])
    /\ UNCHANGED <<tables, requests, history>>

(* An updatePackage that finds a row, or none.                             *)
Records(j) ==
    /\ credited' = credited \cup CreditedBy(j)
    /\ missed' = missed \cup ({EntryOf(j)} \ CreditedBy(j))

(* Mutant: the result of updatePackage is ignored, the answer is always    *)
(* "Success!".                                                             *)
PutPackUnchecked(c) ==
    /\ At(c, "putPack")
    /\ LET j == job[c] IN
       \/ /\ Fits(j.pack)
          /\ package_state' = UpdatedPackages(j.user, j.pack)
          /\ Records(j)
          /\ NoFault \/ Fault
       \/ /\ IF Fits(j.pack) THEN Fault ELSE NoFault
          /\ UNCHANGED <<package_state, credited, missed>>
    /\ Answer(c, "status_success", "success")
    /\ UNCHANGED <<users, connected, requests, charged>>

(* updatePackage: a package that is not there is no error.                 *)
PutPack(c) ==
    /\ At(c, "putPack")
    /\ LET j == job[c] IN
       \/ /\ Fits(j.pack)
          /\ package_state' = UpdatedPackages(j.user, j.pack)
          /\ Records(j)
          /\ \/ NoFault /\ Answer(c, "status_success", "success")
             \/ Fault /\ Answer(c, "status_internal_error", "wrong")
       \/ /\ IF Fits(j.pack) THEN Fault ELSE NoFault
          /\ Answer(c, "status_internal_error", "wrong")
          /\ UNCHANGED <<package_state, credited, missed>>
    /\ UNCHANGED <<users, connected, requests, charged>>

(* updateUser of an administrator: its result is checked.                  *)
SetScore(c) ==
    /\ At(c, "setScore")
    /\ LET j == job[c] IN
       \/ /\ users' = UpdatedUsers(j.uid, j.score)
          /\ \/ NoFault /\ Proceed(c, j)
             \/ Fault /\ Answer(c, "status_internal_error", "wrong")
       \/ /\ IF j.isRow THEN Fault ELSE NoFault
          /\ Answer(c, "status_internal_error", "wrong")
          /\ UNCHANGED users
    /\ UNCHANGED <<package_state, connected, requests, history>>

(* updatePackageAdmin                                                      *)
SetPack(c) ==
    /\ At(c, "setPack")
    /\ LET j == job[c] IN
       \/ /\ Fits(j.pack)
          /\ package_state' = UpdatedPackages(j.user, j.pack)
          /\ \/ NoFault /\ Answer(c, "status_success", "success")
             \/ Fault /\ Answer(c, "status_internal_error", "wrong")
       \/ /\ IF Fits(j.pack) THEN Fault ELSE NoFault
          /\ Answer(c, "status_internal_error", "wrong")
          /\ UNCHANGED package_state
    /\ UNCHANGED <<users, connected, requests, history>>

(* The response is written to the channel and the handler returns.         *)
Reply(c) ==
    /\ At(c, "reply")
    /\ job' = [job EXCEPT ![c] = None]
    /\ UNCHANGED <<tables, requests, faults, history>>

-----------------------------------------------------------------------------
(* What registrations insert, whoever's id they insert it for.             *)

CreateUser(u) ==
    /\ users[u] = None
    /\ users' = [users EXCEPT ![u] = 0]
    /\ UNCHANGED <<package_state, connected, job, requests, faults, history>>

(* The key of package_state refers to users.                               *)
CreateEmptyPackage(u) ==
    /\ users[u] # None /\ package_state[u] = None
    /\ package_state' = [package_state EXCEPT ![u] = Empty]
    /\ UNCHANGED <<users, connected, job, requests, faults, history>>

Register == \E u \in Users : CreateUser(u) \/ CreateEmptyPackage(u)

-----------------------------------------------------------------------------
(* The server process ends: only the tables survive.                       *)
Crash ==
    /\ \E c \in Channels : job[c] # None
    /\ job' = [c \in Channels |-> None]
    /\ UNCHANGED <<tables, requests, faults, history>>

Call(c) ==
    \/ GetRateInfo(c) \/ GetServiceInfo(c) \/ GetUser(c)
    \/ CreateUserRate(c) \/ CreateUserService(c) \/ Charge(c) \/ GetPack(c) \/ PutPack(c)
    \/ SetScore(c) \/ SetPack(c) \/ Reply(c)

Serve ==
    \/ \E c \in Clients : RatePaymentRR(c) \/ ServicePaymentRR(c)
    \/ \E c \in Admins : AdminRateChangeRR(c) \/ AdminServiceChangeRR(c) \/ UpdateUserPackage(c)
    \/ \E c \in Channels : Call(c)

Next == Serve \/ Register \/ Crash

Spec == Init /\ [][Next]_vars

(* A server that stays up, whose database answers every call, with or      *)
(* without success: a handler never waits for another one.                 *)
FairSpec == Init /\ [][Serve \/ Register]_vars /\ \A c \in Channels : WF_vars(Call(c))

-----------------------------------------------------------------------------
(* Properties                                                              *)

Leaves(c, step) == At(c, step) /\ ~ At(c, step)'

(* Only an administrator's own figure can put an account in debt: no       *)
(* purchase does, although score and price are compared on a copy          *)
(* (possibly uninitialised) that three more calls, and other handlers, come*)
(* before it is written back.                                              *)
OnlyAdminsMakeDebt ==
    [][\A u \in Users :
          users'[u] # None /\ users'[u] < 0 /\ users'[u] # users[u] =>
              \E c \in Channels : Leaves(c, "setScore") /\ users'[u] = job[c].score]_vars

(* Money is taken only for an offer that is connected, and only from the   *)
(* account of the user who asked for it, unless his account was inserted   *)
(* after the handler had looked for it: updateUser addresses the row by    *)
(* the id getUserInfo read, which is garbage when there was none.          *)
ChargedIsConnected ==
    \A p \in charged : EntryOf(p) \in connected /\ (p.isRow => p.uid = p.user)

(* A package grows only by an offer whose connection is on record, with or *)
(* without failures and lost acknowledgements in between.                  *)
CreditedIsConnected == credited \subseteq connected

(* A request refused for want of money, or because the offer is unknown,   *)
(* left nothing behind in any table.                                       *)
RefusedLeavesNoTrace ==
    \A c \in Channels :
        At(c, "reply") /\ job[c].text \in {"poor", "unknown"} =>
            \A e \in connected \cup charged \cup credited : e.req # job[c].req

(* Where an offer got to whose handler goes on: to the package, or, if the *)
(* user has none, nowhere.                                                 *)
Recorded(e) == e \in credited \cup missed

(* "Success!" is said only of an offer that is connected and written to    *)
(* the package, if the user has one.                                       *)
SuccessIsConnected ==
    \A c \in Channels :
        At(c, "reply") /\ job[c].text = "success" /\ job[c].item # None =>
            EntryOf(job[c]) \in connected /\ Recorded(EntryOf(job[c]))

(* What a handler may rely on between two calls, and why the invariants    *)
(* above are preserved: the row of the connection stands before money or   *)
(* counters move, and the copy of the account passed the check; it is the  *)
(* user's own unless it is garbage.                                        *)
InStep(j) ==
    /\ j.pc \in {"charge", "getPack", "putPack"} =>
          EntryOf(j) \in connected /\ users[j.user] # None
    /\ j.kind \in Payments /\ j.pc \in {"connect", "charge"} => j.score >= Cost[j.item]
    /\ j.isRow => j.uid = j.user
    /\ j.pc = "reply" /\ j.text = "success" /\ j.item # None =>
          EntryOf(j) \in connected /\ Recorded(EntryOf(j))
HandlersInStep == \A c \in Channels : job[c] # None => InStep(job[c])

(* Requests are told apart, and one that has inserted nothing yet, or was  *)
(* refused, has no row.                                                    *)
Untraced(j) ==
    \/ j.pc \in {"getOffer", "getUser", "connect"}
    \/ j.pc = "reply" /\ j.text \in {"poor", "unknown"}
RequestsApart ==
    /\ \A e \in connected : e.req < requests
    /\ \A c \in Channels : job[c] # None =>
          /\ job[c].req < requests
          /\ \A d \in Channels : job[d] # None /\ job[d].req = job[c].req => d = c
          /\ Untraced(job[c]) => \A e \in connected : e.req # job[c].req

(* Who is answered after a charge has the credit, or has no package to put *)
(* it in, or is told that something went wrong, whichever calls failed or  *)
(* took effect unacknowledged.                                             *)
Charged(j) == \E p \in charged : EntryOf(p) = EntryOf(j)
Admitted(j) == Recorded(EntryOf(j)) \/ j.text = "wrong"
ChargedIsAdmitted ==
    \A c \in Channels : At(c, "reply") /\ Charged(job[c]) => Admitted(job[c])

(* In a server that stays up, every charge is followed by the credit, or,  *)
(* without a package, by the attempt at it, or by an answer that admits    *)
(* something went wrong.                                                   *)
ChargeIsAnswered ==
    \A c \in Clients :
        (job[c] # None /\ Charged(job[c])) ~> (At(c, "reply") /\ Admitted(job[c]))

(* A purchase is charged only while the account still holds its price:     *)
(* what the check and its message "You dont have enough many!" are for.    *)
NoOverspend ==
    [][\A c \in Clients :
          Leaves(c, "charge") /\ charged' # charged =>
              users[job[c].uid] >= Cost[job[c].item]]_vars

(* "Success!" means that the counters of the user's package grew by what   *)
(* the offer's row promises.                                               *)
Sum(p, q) == [mb |-> p.mb + q.mb, sms |-> p.sms + q.sms]
SuccessMeansDelivered ==
    [][\A c \in Channels :
          Leaves(c, "putPack") /\ At(c, "reply")' /\ job'[c].text = "success" =>
              LET u == job[c].user IN
              /\ package_state[u] # None
              /\ package_state'[u] = Sum(package_state[u], Gives[job[c].item])]_vars

(* An administrator who edits one user changes no other user's score, as   *)
(* long as the one he edits had an account when the handler looked.        *)
AdminEditsItsTarget ==
    [][\A c \in Channels :
          Leaves(c, "setScore") /\ job[c].isRow =>
              \A u \in Users \ {job[c].user} : users'[u] = users[u]]_vars
=============================================================================

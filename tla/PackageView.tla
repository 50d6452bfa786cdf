---------------------------- MODULE PackageView ----------------------------
(***************************************************************************)
(* The requests that read what Billing writes: a user's package state      *)
(* (packageInfoRR, AuthLogic::getPackageState) and his story (userStoryRR, *)
(* AuthLogic::getUserStory).  Both collect their answer over several       *)
(* calls, each a transaction of its own, while the handlers of Billing run *)
(* on other threads.                                                       *)
(*                                                                         *)
(* A view begins where checkSession reads the role of its user; a failure  *)
(* there is ignored, and the role that chooses the database account of     *)
(* every later call is what the stack held.                                *)
(*                                                                         *)
(* What a view holds of the package and of the account is kept as sets of  *)
(* requests: those that had written to the package, and those whose charge *)
(* the score still contains.  An update writes back a score computed from  *)
(* a copy, and what the copy lacks is lost.                                *)
(***************************************************************************)
EXTENDS Billing, Sequences, FiniteSets

CONSTANTS
    Viewers,    \* channels that ask for views
    FirstRate,  \* the rate every registration connects
    LongLived,  \* services of 1000 days and more
    MaxFirst,   \* bound on the first rates a user is given
    MaxFailed   \* bound on the failing calls of views

ASSUME ViewAssumption ==
    /\ FirstRate \in Rates \cap Listed
    /\ LongLived \subseteq Services
    /\ None \notin Nat
    /\ MaxFirst \in Nat /\ MaxFailed \in Nat

VARIABLES
    dated,   \* the rows of user_connected_rate and _service, by date
    over,    \* services whose live time has run out: user and position
    view,    \* the view running on each viewer, or None
    failed,  \* number of calls of views that failed
    balance, \* history: the charges the score of each account contains
    copy,    \* history: the charges each handler's copy of a score contains
    lost     \* history: charges that an update of a score has dropped

billing  == <<users, package_state, connected, job, requests, faults, charged, credited, missed>>
accounts == <<balance, copy, lost>>
viewVars == <<users, package_state, connected, job, requests, faults, charged, credited, missed,
              dated, over, view, failed, balance, copy, lost>>

(* Mutant: the package is read last.                                       *)
getPackageStateLast ==
    [role |-> "userInfo", userInfo |-> "userRate", userRate |-> "rateInfo",
     rateInfo |-> "userServices", userServices |-> "serviceInfo",
     serviceInfo |-> "package", package |-> "reply"]

getPackageState ==
    [role |-> "package", package |-> "userInfo", userInfo |-> "userRate",
     userRate |-> "rateInfo", rateInfo |-> "userServices",
     userServices |-> "serviceInfo", serviceInfo |-> "reply"]

getUserStory ==
    [role |-> "connectedRate", connectedRate |-> "eachRate", eachRate |-> "connectedService",
     connectedService |-> "serviceInfo", serviceInfo |-> "calls", calls |-> "sms",
     sms |-> "reply"]

Views == {"package", "story"}
Order(kind) == IF kind = "package" THEN getPackageState ELSE getUserStory

(* The steps that make one call for each row of a list.                    *)
Loops == {"eachRate", "serviceInfo"}

(* "AUTH" has an account of the other database; "stray" is none of the     *)
(* enumerators.                                                            *)
Roles == {"own", "AUTH", "stray"}

(* Mutant: the rate is connected before the user has an id.                *)
FirstUnowned(u) == [req |-> None, user |-> None, item |-> FirstRate]

First(u) == [req |-> None, user |-> u, item |-> FirstRate]
DatedRow == [req : Nat \cup {None}, user : Users, item : Offers]

(* complete: the user was completely registered when he asked; seen: the   *)
(* credits written to the package before it was read; paid: the charges the*)
(* score read contains; isRow: the account came from a row; rate and       *)
(* services: positions in dated; left: rows whose details are still to be  *)
(* read; blank: some details are missing.                                  *)
ViewLocals ==
    [kind : Views, pc : DOMAIN getPackageState \cup DOMAIN getUserStory \cup {"reply"},
     user : Users, complete : BOOLEAN, role : Roles, seen : SUBSET Entry, paid : SUBSET Entry,
     isRow : BOOLEAN, rate : Nat, services : SUBSET Nat, left : SUBSET Nat,
     blank : BOOLEAN, code : Codes]
View == {v \in ViewLocals : v.pc \in DOMAIN Order(v.kind) \cup {"reply"}}

ViewTypeOK ==
    /\ dated \in [Users -> Seq(DatedRow)]
    /\ over \subseteq Users \X Nat
    /\ view \in [Viewers -> View \cup {None}]
    /\ failed \in 0 .. MaxFailed
    /\ balance \in [Users -> SUBSET Entry]
    /\ copy \in [Channels -> SUBSET Entry]
    /\ lost \subseteq Entry

Viewing(c, step) == view[c] # None /\ view[c].pc = step

(* Mutant: only the first row of a list is described.                      *)
NextCallOnce(v) ==
    LET next == Order(v.kind)[v.pc] IN
    IF v.left = {} /\ next \in Loops THEN Order(v.kind)[next] ELSE next

(* The next call: a loop ends, or is passed over, when no row is left.     *)
NextCall(v) ==
    LET next == Order(v.kind)[v.pc] IN
    IF v.left # {} /\ v.pc \in Loops THEN v.pc
    ELSE IF v.left = {} /\ next \in Loops THEN Order(v.kind)[next]
    ELSE next

Go(c, v) ==
    view' = [view EXCEPT ![c] =
                [v EXCEPT !.pc = NextCall(v),
                          !.code = IF NextCall(v) = "reply" THEN "status_success" ELSE v.code]]

Blank(kind, u, complete, step) ==
    [kind |-> kind, pc |-> step, user |-> u, complete |-> complete, role |-> "own",
     seen |-> {}, paid |-> {}, isRow |-> TRUE, rate |-> 0, services |-> {}, left |-> {},
     blank |-> FALSE, code |-> "status_internal_error"]

(* A refused view carries nothing that was read.                           *)
Refuse(c, code) ==
    LET blank == Blank(view[c].kind, view[c].user, view[c].complete, "reply") IN
    view' = [view EXCEPT ![c] = [blank EXCEPT !.code = code]]

ViewFault == failed < MaxFailed /\ failed' = failed + 1

(* A call finds its tables with the user's own role, and perhaps with a    *)
(* role getDBConnection has no case for; with AUTH there are none.         *)
Works(c) == view[c].role # "AUTH" /\ UNCHANGED failed
Fails(c) == ViewFault \/ (view[c].role # "own" /\ UNCHANGED failed)

RatesOf(u) == {i \in DOMAIN dated[u] : dated[u][i].item \in Rates}
ServicesOf(u) == {i \in DOMAIN dated[u] : dated[u][i].item \in Services}
FirstsOf(u)   == {i \in DOMAIN dated[u] : dated[u][i] = First(u)}

(* A complete registration has inserted the package and the first rate.    *)
Complete(u) == package_state[u] # None /\ FirstsOf(u) # {}

-----------------------------------------------------------------------------
(* Some registrations have connected the first rate.                       *)
ViewInit ==
    /\ Init
    /\ \E given \in SUBSET {u \in Users : users[u] # None} :
          dated = [u \in Users |-> IF u \in given THEN <<First(u)>> ELSE <<>>]
    /\ over = {}
    /\ view = [c \in Viewers |-> None]
    /\ failed = 0
    /\ balance = [u \in Users |-> {}]
    /\ copy = [c \in Channels |-> {}]
    /\ lost = {}

Ask(c, kind) ==
    /\ view[c] = None
    /\ \E u \in Users : view' = [view EXCEPT ![c] = Blank(kind, u, Complete(u), "role")]
    /\ UNCHANGED <<billing, accounts, dated, over, failed>>

PackageInfoRR(c) == Ask(c, "package")
UserStoryRR(c)   == Ask(c, "story")

(* Mutant: the role read is not copied to the request.                     *)
GetRoleForgotten(c) ==
    /\ Viewing(c, "role")
    /\ UNCHANGED failed \/ ViewFault
    /\ \E r \in Roles : Go(c, [view[c] EXCEPT !.role = r])
    /\ UNCHANGED <<billing, accounts, dated, over>>

(* getUserByUserId in checkSession: its result is ignored.                 *)
GetRole(c) ==
    /\ Viewing(c, "role")
    /\ \/ Go(c, view[c]) /\ UNCHANGED failed
       \/ ViewFault /\ \E r \in Roles : Go(c, [view[c] EXCEPT !.role = r])
    /\ UNCHANGED <<billing, accounts, dated, over>>

(* A call whose failure ends the view.                                     *)
FailedCall(c) ==
    /\ view[c] # None
    /\ view[c].pc \notin Loops \cup {"role", "reply"}
    /\ Fails(c)
    /\ Refuse(c, "status_internal_error")
    /\ UNCHANGED <<billing, accounts, dated, over>>

GetPackage(c) ==
    /\ Viewing(c, "package")
    /\ Works(c)
    /\ LET u == view[c].user IN
       IF package_state[u] = None
       THEN Refuse(c, "status_does_not_exist")
       ELSE Go(c, [view[c] EXCEPT !.seen = {e \in credited : e.user = u}])
    /\ UNCHANGED <<billing, accounts, dated, over>>

(* Without a row the account stays uninitialised, and the call succeeds.   *)
GetUserInfo(c) ==
    /\ Viewing(c, "userInfo")
    /\ Works(c)
    /\ LET u == view[c].user IN
       Go(c, [view[c] EXCEPT !.isRow = users[u] # None, !.paid = balance[u]])
    /\ UNCHANGED <<billing, accounts, dated, over>>

(* Mutant: the rows by ascending date.                                     *)
GetOldestRate(c) ==
    /\ Viewing(c, "userRate")
    /\ Works(c)
    /\ LET rates == RatesOf(view[c].user) IN
       IF rates = {}
       THEN Refuse(c, "status_does_not_exist")
       ELSE \E r \in rates :
               /\ \A q \in rates : r <= q
               /\ Go(c, [view[c] EXCEPT !.rate = r])
    /\ UNCHANGED <<billing, accounts, dated, over>>

(* The newest row.                                                         *)
GetUserRate(c) ==
    /\ Viewing(c, "userRate")
    /\ Works(c)
    /\ LET rates == RatesOf(view[c].user) IN
       IF rates = {}
       THEN Refuse(c, "status_does_not_exist")
       ELSE \E r \in rates :
               /\ \A q \in rates : q <= r
               /\ Go(c, [view[c] EXCEPT !.rate = r])
    /\ UNCHANGED <<billing, accounts, dated, over>>

ViewRateInfo(c) ==
    /\ Viewing(c, "rateInfo")
    /\ Works(c)
    /\ IF dated[view[c].user][view[c].rate].item \in Listed
       THEN Go(c, view[c])
       ELSE Refuse(c, "status_does_not_exist")
    /\ UNCHANGED <<billing, accounts, dated, over>>

(* The services that are not over.  Their live time is written with three  *)
(* digits, or as no interval at all.                                       *)
GetUserServices(c) ==
    /\ Viewing(c, "userServices")
    /\ Works(c)
    /\ LET u == view[c].user
           live == {i \in ServicesOf(u) : <<u, i>> \notin over} IN
       IF \E i \in ServicesOf(u) : dated[u][i].item \in LongLived
       THEN Refuse(c, "status_internal_error")
       ELSE Go(c, [view[c] EXCEPT !.services = live, !.left = live])
    /\ UNCHANGED <<billing, accounts, dated, over>>

(* The rows of the last three months.                                      *)
ListRows(c, step, rows) ==
    /\ Viewing(c, step)
    /\ Works(c)
    /\ \E start \in 0 .. Len(dated[view[c].user]) :
          Go(c, [view[c] EXCEPT !.left = {i \in rows : start < i}])
    /\ UNCHANGED <<billing, accounts, dated, over>>

GetUserConnectedRate(c) ==
    view[c] # None /\ ListRows(c, "connectedRate", RatesOf(view[c].user))
GetUserConnectedService(c) ==
    view[c] # None /\ ListRows(c, "connectedService", ServicesOf(view[c].user))

(* getRateInfo or getServiceInfo for one row of a list: the results are    *)
(* ignored, a failure or an unknown offer leaves the details blank.        *)
Describe(c) ==
    /\ view[c] # None /\ view[c].pc \in Loops
    /\ \E i \in view[c].left :
       LET v == [view[c] EXCEPT !.left = view[c].left \ {i}] IN
       /\ \A k \in view[c].left : i <= k
       /\ \/ /\ Works(c)
             /\ Go(c, [v EXCEPT !.blank = v.blank \/ dated[v.user][i].item \notin Listed])
          \/ Fails(c) /\ Go(c, [v EXCEPT !.blank = TRUE])
    /\ UNCHANGED <<billing, accounts, dated, over>>

(* getOutboundCalls and getSmsPayment: tables nobody writes.               *)
GetPayments(c) ==
    /\ Viewing(c, "calls") \/ Viewing(c, "sms")
    /\ Works(c)
    /\ Go(c, view[c])
    /\ UNCHANGED <<billing, accounts, dated, over>>

ViewReply(c) ==
    /\ Viewing(c, "reply")
    /\ view' = [view EXCEPT ![c] = None]
    /\ UNCHANGED <<billing, accounts, dated, over, failed>>

(* The live time of a service ends.                                        *)
Expire(u) ==
    /\ \E i \in ServicesOf(u) : <<u, i>> \notin over /\ over' = over \cup {<<u, i>>}
    /\ UNCHANGED <<billing, accounts, dated, view, failed>>

(* NOW() dates the row a handler of Billing inserts.                       *)
Dated ==
    \/ connected' = connected /\ UNCHANGED dated
    \/ \E e \in connected' \ connected :
          dated' = [dated EXCEPT ![e.user] = Append(@, e)]

(* createUserRate of a registration, whoever's id it does it for.          *)
ConnectFirst(u) ==
    /\ users[u] # None
    /\ Cardinality(FirstsOf(u)) < MaxFirst
    /\ dated' = [dated EXCEPT ![u] = Append(@, First(u))]
    /\ UNCHANGED <<billing, accounts, over, view, failed>>

(* A purchase writes back the copy it took, less its own price; an         *)
(* administrator's score contains no charge.                               *)
Balanced ==
    \/ users' = users /\ charged' = charged /\ UNCHANGED balance
    \/ \E c \in Channels :
          /\ Leaves(c, "charge") /\ charged' # charged
          /\ balance' = [balance EXCEPT ![job[c].uid] = copy[c] \cup {EntryOf(job[c])}]
    \/ \E c \in Channels :
          /\ Leaves(c, "setScore") /\ users' # users
          /\ balance' = [balance EXCEPT ![job[c].uid] = {}]

(* A garbage score contains no charge.                                     *)
Copied(c) ==
    IF Leaves(c, "getUser") /\ job'[c].isRow THEN balance[job[c].user]
    ELSE IF job'[c] = None THEN {}
    ELSE copy[c]

Accounted ==
    /\ Balanced
    /\ lost' = lost \cup UNION {balance[u] \ balance'[u] : u \in Users}
    /\ copy' = [c \in Channels |-> Copied(c)]

ViewCall(c) ==
    \/ PackageInfoRR(c) \/ UserStoryRR(c) \/ GetRole(c) \/ FailedCall(c)
    \/ GetPackage(c) \/ GetUserInfo(c) \/ GetUserRate(c) \/ ViewRateInfo(c)
    \/ GetUserServices(c) \/ GetUserConnectedRate(c) \/ GetUserConnectedService(c)
    \/ Describe(c) \/ GetPayments(c) \/ ViewReply(c)

ViewServe ==
    \/ Serve /\ Dated /\ Accounted /\ UNCHANGED <<over, view, failed>>
    \/ Register /\ UNCHANGED <<accounts, dated, over, view, failed>>
    \/ \E u \in Users : ConnectFirst(u)
    \/ \E c \in Viewers : ViewCall(c)
    \/ \E u \in Users : Expire(u)

(* The process ends, as it may in getDBConnection with a stray role.       *)
ViewCrash ==
    /\ job' = [c \in Channels |-> None]
    /\ view' = [c \in Viewers |-> None]
    /\ copy' = [c \in Channels |-> {}]
    /\ UNCHANGED <<tables, requests, faults, history, dated, over, failed, balance, lost>>

ViewNext == ViewServe \/ ViewCrash

ViewSpec == ViewInit /\ [][ViewNext]_viewVars

-----------------------------------------------------------------------------
(* Properties                                                              *)

Shown(c) == Viewing(c, "reply") /\ view[c].code = "status_success" /\ view[c].kind = "package"

(* A package view explains its counters: whatever offer had grown the      *)
(* package is the rate shown or older, a service shown, or a service that  *)
(* is over, although purchases go on between the four calls.               *)
PackageIsExplained ==
    \A c \in Viewers : Shown(c) =>
        LET u == view[c].user IN
        \A e \in view[c].seen : \E i \in DOMAIN dated[u] :
            /\ dated[u][i] = e
            /\ i <= view[c].rate \/ i \in view[c].services \/ <<u, i>> \in over

(* The score shown with a package is less what was taken for the credits   *)
(* in it, whenever it is taken, except where a later update of the score   *)
(* dropped the charge again: an overlapping purchase, or an administrator. *)
(* (A charge by a garbage id is in no score of this user's.)               *)
ScoreIsCurrent ==
    \A c \in Viewers : Shown(c) =>
        \A p \in charged :
            EntryOf(p) \in view[c].seen /\ p.isRow => EntryOf(p) \in view[c].paid \cup lost

(* No view shows what the stack held as an account, nor a row of its lists *)
(* that was not looked up, nor, unless a call failed, an offer without its *)
(* details.                                                                *)
ViewIsReal ==
    \A c \in Viewers : Viewing(c, "reply") /\ view[c].code = "status_success" =>
        view[c].isRow /\ view[c].left = {} /\ (failed = 0 => ~ view[c].blank)

(* As long as no call fails, a user whose registration was complete when   *)
(* he asked is shown his package and his story, unless he ever connected a *)
(* service that lives for 1000 days.                                       *)
CompleteIsShown ==
    \A c \in Viewers :
        Viewing(c, "reply") /\ view[c].code # "status_success" /\ failed = 0 =>
            LET u == view[c].user IN
            /\ view[c].kind = "package"
            /\ \/ ~ view[c].complete
               \/ \E i \in DOMAIN dated[u] : dated[u][i].item \in LongLived
=============================================================================

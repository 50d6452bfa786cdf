--------------------------- MODULE IsolatedProofs ---------------------------
(* Proofs about IsolatedBilling, for every value of the constants: what     *)
(* isolation lets a handler rely on, and that every step of Billing is then *)
(* a step of AtomicBilling or a stutter.                                    *)
EXTENDS IsolatedBilling, BillingProofs

Complete == \A u \in Users : users[u] # None /\ package_state[u] # None

(* In isolation what a handler has read is what the tables still hold.      *)
Informed(j) ==
    /\ j.pc \in {"getUser", "connect"} /\ j.kind \in Payments \cup Grants => j.item \in Listed
    /\ j.pc = "connect" => j.item \in Listed
    /\ j.kind \in Payments /\ j.pc \in {"connect", "charge"} =>
          j.isRow /\ j.uid = j.user /\ j.score = users[j.user]
    /\ j.kind = "adminUpdateUserPackage" => j.score \in Scores /\ j.pack \in AdminPacks
    /\ j.pc = "setScore" => j.isRow /\ j.uid = j.user
    /\ j.pc = "putPack" => j.pack = Sum(package_state[j.user], Parsed(j.item))
AllInformed == \A c \in Channels : job[c] # None => Informed(job[c])

Known == TypeOK /\ Safe /\ RequestsApart
Calm  == Complete /\ AllInformed /\ Isolated /\ Roomy

IsolatedNext == Serve /\ NoFault /\ (Isolated /\ Roomy)'

-----------------------------------------------------------------------------
(* What a call does in isolation.                                           *)

(* The tables and the handler of c after the call it stands at.             *)
Follows(c) ==
    LET j == job[c]
        k == job'[c] IN
    /\ j # None
    /\ requests' = requests
    /\ \A d \in Channels \ {c} : job'[d] = job[d]
    /\ j.pc = "reply" => k = None /\ UNCHANGED tables
    /\ j.pc # "reply" =>
          /\ k # None
          /\ k.kind = j.kind /\ k.user = j.user /\ k.item = j.item /\ k.req = j.req
    /\ j.pc = "getOffer" =>
          /\ UNCHANGED tables
          /\ k.pc \in {"getUser", "connect", "reply"}
          /\ k.pc # "reply" => j.item \in Listed
          /\ j.kind \in Payments => k.pc # "connect"
    /\ j.pc = "getUser" =>
          /\ UNCHANGED tables
          /\ k.pc \in {"connect", "setScore", "reply"}
          /\ k.pc = "connect" => j.kind # "adminUpdateUserPackage"
          /\ k.pc # "reply" => k.isRow /\ k.uid = j.user
          /\ j.kind \in Payments /\ k.pc = "connect" => k.score = users[j.user]
    /\ j.kind = "adminUpdateUserPackage" /\ k # None => k.score = j.score /\ k.pack = j.pack
    /\ j.pc = "connect" =>
          /\ UNCHANGED <<users, package_state>>
          /\ connected' = connected \cup {EntryOf(j)}
          /\ k.pc = IF j.kind \in Payments THEN "charge" ELSE "getPack"
          /\ k.isRow = j.isRow /\ k.uid = j.uid /\ k.score = j.score
    /\ j.pc = "charge" =>
          /\ users' = [users EXCEPT ![j.user] = j.score - Cost[j.item]]
          /\ UNCHANGED <<package_state, connected>>
          /\ k.pc = "getPack"
    /\ j.pc = "getPack" =>
          /\ UNCHANGED tables
          /\ k.pc = "putPack" /\ k.pack = Credit(package_state[j.user], j.item)
    /\ j.pc = "putPack" =>
          /\ package_state' = [package_state EXCEPT ![j.user] = j.pack]
          /\ UNCHANGED <<users, connected>>
          /\ k.pc = "reply"
    /\ j.pc = "setScore" =>
          /\ users' = [users EXCEPT ![j.user] = j.score]
          /\ UNCHANGED <<package_state, connected>>
          /\ k.pc = "setPack"
    /\ j.pc = "setPack" =>
          /\ package_state' = [package_state EXCEPT ![j.user] = j.pack]
          /\ UNCHANGED <<users, connected>>
          /\ k.pc = "reply"

LEMMA NoneFails == ASSUME TypeOK, NoFault PROVE ~ Fault
BY ConstantsAssumption DEF TypeOK, NoFault, Fault

LEMMA NextSteps ==
    ASSUME NEW kind \in Kinds
    PROVE  /\ kind \in Payments => Script(kind)["getOffer"] = "getUser"
           /\ kind \in Payments => Script(kind)["connect"] = "charge"
           /\ kind \in Grants => Script(kind)["connect"] = "getPack"
           /\ kind \in Payments => Script(kind)["charge"] = "getPack"
           /\ kind \in Payments \cup Grants => Script(kind)["getPack"] = "putPack"
           /\ kind \in {"ratePayment", "servicePayment", "adminUserRateChange"} =>
                 Script(kind)["getUser"] = "connect"
           /\ kind = "adminUpdateUserPackage" =>
                 Script(kind)["getUser"] = "setScore" /\ Script(kind)["setScore"] = "setPack"
<1>1. CASE kind = "ratePayment"
  BY <1>1 DEF Script, ratePayment, Payments, Grants
<1>2. CASE kind = "servicePayment"
  BY <1>2 DEF Script, servicePayment, Payments, Grants
<1>3. CASE kind = "adminUserRateChange"
  BY <1>3 DEF Script, adminUserRateChange, Payments, Grants
<1>4. CASE kind = "adminUserServiceChange"
  BY <1>4 DEF Script, adminUserServiceChange, Payments, Grants
<1>5. CASE kind = "adminUpdateUserPackage"
  BY <1>5 DEF Script, adminUpdateUserPackage, Payments, Grants
<1> QED
  BY <1>1, <1>2, <1>3, <1>4, <1>5 DEF Kinds, Payments, Grants

LEMMA CallFollows ==
    ASSUME TypeOK, Safe, Calm, NoFault, NEW c \in Channels, Call(c)
    PROVE  Follows(c)
<1> DEFINE j == job[c]
<1> DEFINE k == job'[c]
<1>0. /\ Codes = {"status_success", "status_internal_error", "status_does_not_exist"}
      /\ Texts = {"none", "success", "poor", "unknown", "wrong"}
      /\ {"getOffer", "getUser", "connect", "charge", "getPack", "putPack",
          "setScore", "setPack", "reply"} = Steps
  BY DEF Codes, Texts, Steps
<1>a. j # None => j \in Handler /\ j \in Job /\ j.kind \in Kinds /\ j.user \in Users
  BY DEF TypeOK, Handler, Job
<1>b. ~ Fault
  BY NoneFails
<1>c. j # None => Informed(j) /\ users[j.user] # None /\ package_state[j.user] # None
  BY <1>a DEF Calm, AllInformed, Complete
<1>d. ASSUME j # None, NEW code \in Codes, NEW text \in Texts, Answer(c, code, text)
      PROVE  /\ k # None /\ k.pc = "reply"
             /\ k.kind = j.kind /\ k.user = j.user /\ k.item = j.item /\ k.req = j.req
             /\ k.score = j.score /\ k.pack = j.pack
             /\ \A d \in Channels \ {c} : job'[d] = job[d]
  <2>1. /\ k = [j EXCEPT !.pc = "reply", !.code = code, !.text = text]
        /\ \A d \in Channels \ {c} : job'[d] = job[d]
    BY <1>d DEF Answer, TypeOK
  <2>2. j \in Job /\ k \in Job
    BY <1>a, <1>d, <2>1 DEF Job, Steps
  <2>3. k # None
    BY <2>2, NoneAssumption
  <2> QED
    BY <2>1, <2>2, <2>3 DEF Job
<1>e. ASSUME j # None, NEW i \in Handler, Proceed(c, i), i.pc \in DOMAIN Script(i.kind)
      PROVE  /\ k # None /\ k.pc = Script(i.kind)[i.pc]
             /\ k.kind = i.kind /\ k.user = i.user /\ k.item = i.item /\ k.req = i.req
             /\ k.score = i.score /\ k.pack = i.pack
             /\ k.isRow = i.isRow /\ k.uid = i.uid
             /\ \A d \in Channels \ {c} : job'[d] = job[d]
  <2>1. /\ k = [i EXCEPT !.pc = Script(i.kind)[i.pc]]
        /\ k \in Handler
        /\ \A d \in Channels \ {c} : job'[d] = job[d]
    BY <1>e, ProceedType
  <2>2. i \in Job /\ k \in Job
    BY <2>1 DEF Handler
  <2>3. k # None
    BY <2>2, NoneAssumption
  <2> QED
    BY <2>1, <2>2, <2>3 DEF Job
<1>1. CASE GetOffer(c)
  <2>1. /\ j # None /\ j.pc = "getOffer" /\ j.pc \in DOMAIN Script(j.kind) /\ j \in Handler
        /\ j.kind # "adminUpdateUserPackage"
    BY <1>0, <1>1, <1>a, HandlerAt, ScriptShape DEF GetOffer
  <2>2. UNCHANGED tables /\ requests' = requests
    BY <1>1 DEF GetOffer
  <2>3. CASE Proceed(c, j) /\ j.item \in Listed
    <3>1. Script(j.kind)["getOffer"] \in {"getUser", "connect"}
      BY <1>a, <2>1, ScriptOrder
    <3>2. j.kind \in Payments => Script(j.kind)["getOffer"] # "connect"
      BY <1>a, <2>1, NextSteps
    <3> QED
      BY <1>e, <2>1, <2>2, <2>3, <3>1, <3>2 DEF Follows
  <2>4. CASE Answer(c, "status_does_not_exist", "unknown")
    BY <1>0, <1>d, <2>1, <2>2, <2>4 DEF Follows
  <2> QED
    BY <1>1, <1>b, <2>3, <2>4 DEF GetOffer
<1>2. CASE GetUser(c)
  <2>1. /\ j # None /\ j.pc = "getUser" /\ j.pc \in DOMAIN Script(j.kind) /\ j \in Handler
        /\ j.kind # "adminUserServiceChange"
    BY <1>0, <1>2, <1>a, HandlerAt, ScriptShape DEF GetUser
  <2>2. UNCHANGED tables /\ requests' = requests
    BY <1>2 DEF GetUser
  <2>3. ASSUME NEW info \in UserInfo(j.user), Proceed(c, WithUser(j, info))
        PROVE  Follows(c)
    <3> DEFINE i == WithUser(j, info)
    <3>1. info = [user_id |-> j.user, score |-> users[j.user], isRow |-> TRUE]
      BY <1>c, <2>1, <2>3 DEF UserInfo
    <3>2. users[j.user] \in Int
      BY <1>a, <1>c, <2>1 DEF TypeOK, TablesOK
    <3>3. /\ i \in Job /\ i.kind = j.kind /\ i.pc = j.pc /\ i.item = j.item /\ i.user = j.user
          /\ i.req = j.req /\ i.pack = j.pack /\ i.uid = j.user /\ i.isRow
          /\ i.score = IF j.kind = "adminUpdateUserPackage" THEN j.score ELSE users[j.user]
      BY <1>a, <2>1, <3>1, <3>2 DEF WithUser, Job
    <3>4. i \in Handler
      BY <2>1, <3>3 DEF Handler
    <3>5. /\ k # None /\ k.pc = Script(j.kind)["getUser"]
          /\ k.kind = j.kind /\ k.user = j.user /\ k.item = j.item /\ k.req = j.req
          /\ k.score = i.score /\ k.pack = j.pack /\ k.uid = j.user /\ k.isRow
          /\ \A d \in Channels \ {c} : job'[d] = job[d]
      BY <1>e, <2>1, <2>3, <3>3, <3>4
    <3>6. /\ Script(j.kind)["getUser"] \in {"connect", "setScore"}
          /\ j.kind = "adminUpdateUserPackage" => Script(j.kind)["getUser"] = "setScore"
          /\ j.kind \in Payments => j.kind # "adminUpdateUserPackage"
      BY <1>a, <2>1, NextSteps, ScriptOrder DEF Payments
    <3> QED
      BY <2>1, <2>2, <3>3, <3>5, <3>6 DEF Follows
  <2>4. CASE Answer(c, "status_success", "poor")
    BY <1>0, <1>d, <2>1, <2>2, <2>4 DEF Follows
  <2> QED
    BY <1>2, <1>b, <2>3, <2>4 DEF GetUser
<1>3. CASE Connect(c)
  <2>1. /\ j # None /\ j.pc = "connect" /\ j.pc \in DOMAIN Script(j.kind) /\ j \in Handler
        /\ j.kind # "adminUpdateUserPackage"
    BY <1>0, <1>3, <1>a, HandlerAt, ScriptShape DEF Connect
  <2>2. MayConnect(j.user, j.item)
    BY <1>c, <2>1 DEF MayConnect, Informed
  <2>3. /\ UNCHANGED <<users, package_state, requests>>
        /\ connected' = connected \cup {EntryOf(j)} /\ Proceed(c, j)
    BY <1>3, <1>b, <2>2 DEF Connect
  <2>4. Script(j.kind)["connect"] = IF j.kind \in Payments THEN "charge" ELSE "getPack"
    BY <1>a, <2>1, NextSteps DEF Kinds
  <2> QED
    BY <1>e, <2>1, <2>3, <2>4 DEF Follows
<1>4. CASE Charge(c)
  <2>1. /\ j # None /\ j.pc = "charge" /\ j.pc \in DOMAIN Script(j.kind) /\ j \in Handler
        /\ j.kind \in Payments
    BY <1>0, <1>4, <1>a, HandlerAt DEF Charge
  <2>2. j.uid = j.user /\ j.isRow
    BY <1>c, <2>1 DEF Informed
  <2>3. /\ users' = UpdatedUsers(j.uid, j.score - Cost[j.item])
        /\ UNCHANGED <<package_state, connected, requests>> /\ Proceed(c, j)
    BY <1>4, <1>b, <2>2 DEF Charge
  <2>4. users' = [users EXCEPT ![j.user] = j.score - Cost[j.item]]
    BY <1>c, <2>1, <2>2, <2>3 DEF UpdatedUsers
  <2>5. Script(j.kind)["charge"] = "getPack" /\ j.kind # "adminUpdateUserPackage"
    BY <1>a, <2>1, NextSteps DEF Payments
  <2> QED
    BY <1>e, <2>1, <2>3, <2>4, <2>5 DEF Follows
<1>5. CASE GetPack(c)
  <2>1. /\ j # None /\ j.pc = "getPack" /\ j.pc \in DOMAIN Script(j.kind) /\ j \in Handler
        /\ j.kind # "adminUpdateUserPackage" /\ j.item \in Offers
    BY <1>0, <1>5, <1>a, HandlerAt, ScriptShape DEF GetPack
  <2> DEFINE i == [j EXCEPT !.pack = Credit(package_state[j.user], j.item)]
  <2>2. UNCHANGED tables /\ requests' = requests /\ Proceed(c, i)
    BY <1>5, <1>b, <1>c, <2>1 DEF GetPack
  <2>3. package_state[j.user] \in PackageInfo
    <3>1. package_state[j.user] \in PackageRow
      BY <1>a, <1>c, <2>1 DEF TypeOK, TablesOK
    <3>2. Stored \subseteq Counter
      BY ConstantsAssumption DEF Stored, Counter
    <3> QED
      BY <3>1, <3>2 DEF PackageRow, PackageInfo
  <2>4. Credit(package_state[j.user], j.item) \in PackageInfo
    BY <2>1, <2>3, CreditType
  <2>5. /\ i \in Job /\ i.kind = j.kind /\ i.pc = j.pc /\ i.item = j.item /\ i.user = j.user
        /\ i.req = j.req /\ i.pack = Credit(package_state[j.user], j.item)
    BY <1>a, <2>1, <2>4 DEF Job
  <2>6. i \in Handler
    BY <2>1, <2>5 DEF Handler
  <2>7. Script(j.kind)["getPack"] = "putPack"
    BY <1>a, <2>1, NextSteps DEF Kinds
  <2>8. /\ k # None /\ k.pc = "putPack"
        /\ k.kind = j.kind /\ k.user = j.user /\ k.item = j.item /\ k.req = j.req
        /\ k.pack = Credit(package_state[j.user], j.item)
        /\ \A d \in Channels \ {c} : job'[d] = job[d]
    BY <1>e, <2>1, <2>2, <2>5, <2>6, <2>7
  <2> QED
    BY <2>1, <2>2, <2>8 DEF Follows
<1>6. CASE PutPack(c)
  <2>1. j # None /\ j.pc = "putPack" /\ j \in Handler
    BY <1>0, <1>6, <1>a, HandlerAt DEF PutPack
  <2>2. Fits(j.pack)
    <3>1. j.pack = Sum(package_state[j.user], Parsed(j.item))
      BY <1>c, <2>1 DEF Informed
    <3> QED
      BY <2>1, <3>1 DEF Calm, Roomy, At
  <2>3. /\ package_state' = UpdatedPackages(j.user, j.pack)
        /\ UNCHANGED <<users, connected, requests>> /\ Answer(c, "status_success", "success")
    BY <1>6, <1>b, <2>2 DEF PutPack
  <2>4. package_state' = [package_state EXCEPT ![j.user] = j.pack]
    BY <1>c, <2>1, <2>3 DEF UpdatedPackages
  <2> QED
    BY <1>0, <1>d, <2>1, <2>3, <2>4 DEF Follows
<1>7. CASE SetScore(c)
  <2>1. /\ j # None /\ j.pc = "setScore" /\ j.pc \in DOMAIN Script(j.kind) /\ j \in Handler
        /\ j.kind = "adminUpdateUserPackage"
    BY <1>0, <1>7, <1>a, HandlerAt DEF SetScore
  <2>2. j.uid = j.user /\ j.isRow
    BY <1>c, <2>1 DEF Informed
  <2>3. /\ users' = UpdatedUsers(j.uid, j.score)
        /\ UNCHANGED <<package_state, connected, requests>> /\ Proceed(c, j)
    BY <1>7, <1>b, <1>c, <2>1, <2>2 DEF SetScore
  <2>4. users' = [users EXCEPT ![j.user] = j.score]
    BY <1>c, <2>1, <2>2, <2>3 DEF UpdatedUsers
  <2>5. Script(j.kind)["setScore"] = "setPack"
    BY <1>a, <2>1, NextSteps
  <2> QED
    BY <1>e, <2>1, <2>3, <2>4, <2>5 DEF Follows
<1>8. CASE SetPack(c)
  <2>1. j # None /\ j.pc = "setPack" /\ j \in Handler
    BY <1>0, <1>8, <1>a, HandlerAt DEF SetPack
  <2>2. Fits(j.pack)
    BY <2>1 DEF Calm, Roomy, At
  <2>3. /\ package_state' = UpdatedPackages(j.user, j.pack)
        /\ UNCHANGED <<users, connected, requests>> /\ Answer(c, "status_success", "success")
    BY <1>8, <1>b, <2>2 DEF SetPack
  <2>4. package_state' = [package_state EXCEPT ![j.user] = j.pack]
    BY <1>c, <2>1, <2>3 DEF UpdatedPackages
  <2> QED
    BY <1>0, <1>d, <2>1, <2>3, <2>4 DEF Follows
<1>9. CASE Reply(c)
  <2>1. j # None /\ j.pc = "reply" /\ UNCHANGED tables /\ requests' = requests
    BY <1>9 DEF Reply, At
  <2>2. k = None /\ \A d \in Channels \ {c} : job'[d] = job[d]
    BY <1>9 DEF Reply, TypeOK
  <2> QED
    BY <2>1, <2>2 DEF Follows
<1> QED
  BY <1>1, <1>2, <1>3, <1>4, <1>5, <1>6, <1>7, <1>8, <1>9
  DEF Call, GetRateInfo, GetServiceInfo, CreateUserRate, CreateUserService

-----------------------------------------------------------------------------
(* A request that begins.                                                   *)

Starts(c) ==
    /\ job[c] = None /\ job'[c] # None
    /\ UNCHANGED tables
    /\ \A d \in Channels \ {c} : job'[d] = job[d]
    /\ job'[c].user \in Users
    /\ job'[c].pc \in {"getOffer", "getUser"}
    /\ job'[c].pc = "getUser" => job'[c].kind = "adminUpdateUserPackage"
    /\ job'[c].kind = "adminUpdateUserPackage" =>
          job'[c].score \in Scores /\ job'[c].pack \in AdminPacks

LEMMA BeginStarts ==
    ASSUME TypeOK, NEW c \in Channels, NEW kind \in Kinds, NEW step \in {"getOffer", "getUser"},
           NEW user \in Users, NEW item \in Offers \cup {None},
           NEW score \in Int, NEW pack \in PackageInfo,
           step = "getUser" => kind = "adminUpdateUserPackage",
           kind = "adminUpdateUserPackage" => score \in Scores /\ pack \in AdminPacks,
           Begin(c, kind, step, user, item, score, pack)
    PROVE  Starts(c)
<1> DEFINE k == [kind |-> kind, pc |-> step, req |-> requests, user |-> user,
                 item |-> item, uid |-> user, score |-> score, isRow |-> FALSE, pack |-> pack,
                 code |-> "status_internal_error", text |-> "none"]
<1>1. requests \in Nat
  BY ConstantsAssumption DEF TypeOK
<1>2. k \in Job
  BY <1>1 DEF Job, Steps, Codes, Texts
<1>3. job'[c] = k /\ job[c] = None /\ \A d \in Channels \ {c} : job'[d] = job[d]
  BY DEF Begin, TypeOK
<1>4. job'[c] # None
  BY <1>2, <1>3, NoneAssumption
<1>5. UNCHANGED tables
  BY DEF Begin, tables
<1> QED
  BY <1>3, <1>4, <1>5 DEF Starts

LEMMA ServeCases ==
    ASSUME TypeOK, Serve
    PROVE  \/ \E c \in Channels : Starts(c)
           \/ \E c \in Channels : Call(c)
<1>0. /\ Clients \subseteq Channels /\ Admins \subseteq Channels
      /\ Rates \subseteq Offers /\ Services \subseteq Offers
      /\ Payments \subseteq Kinds /\ Grants \subseteq Kinds
      /\ "adminUpdateUserPackage" \in Kinds
      /\ Empty \in PackageInfo /\ 0 \in Int
      /\ \A c \in Clients : SessionUser[c] \in Users
      /\ Scores \subseteq Int /\ AdminPacks \subseteq PackageInfo
  <2>1. 0 \in Counter
    BY ConstantsAssumption DEF Counter
  <2>2. Nat \subseteq Int
    OBVIOUS
  <2> QED
    BY <2>1, <2>2, ConstantsAssumption DEF Channels, Offers, Kinds, Empty, PackageInfo
<1>1. ASSUME NEW c \in Clients, RatePaymentRR(c) \/ ServicePaymentRR(c)
      PROVE  Starts(c)
  <2>1. \A i \in Offers, kind \in Payments :
            Begin(c, kind, "getOffer", SessionUser[c], i, 0, Empty) => Starts(c)
    BY <1>0, BeginStarts DEF Payments
  <2> QED
    BY <1>0, <1>1, <2>1 DEF RatePaymentRR, ServicePaymentRR, Payments
<1>2. ASSUME NEW c \in Admins, AdminRateChangeRR(c) \/ AdminServiceChangeRR(c)
      PROVE  Starts(c)
  <2>1. \A u \in Users, i \in Offers, kind \in Grants :
            Begin(c, kind, "getOffer", u, i, 0, Empty) => Starts(c)
    BY <1>0, BeginStarts DEF Grants
  <2> QED
    BY <1>0, <1>2, <2>1 DEF AdminRateChangeRR, AdminServiceChangeRR, Grants
<1>3. ASSUME NEW c \in Admins, UpdateUserPackage(c)
      PROVE  Starts(c)
  <2>1. PICK u \in Users, s \in Scores, q \in AdminPacks :
            Begin(c, "adminUpdateUserPackage", "getUser", u, None, s, q)
    BY <1>3 DEF UpdateUserPackage
  <2> QED
    BY <1>0, <2>1, BeginStarts
<1> QED
  BY <1>0, <1>1, <1>2, <1>3 DEF Serve

LEMMA StartsCalm ==
    ASSUME TypeOK, Calm, NEW c \in Channels, Starts(c), (Isolated /\ Roomy)'
    PROVE  Calm'
<1>1. Complete'
  BY DEF Calm, Complete, Starts, tables
<1>2. Informed(job[c])'
  BY DEF Starts, Informed, Payments, Grants
<1>3. ASSUME NEW d \in Channels, d # c, job'[d] # None PROVE Informed(job[d])'
  <2>1. Informed(job[d]) /\ job'[d] = job[d] /\ UNCHANGED tables
    BY <1>3 DEF Calm, AllInformed, Starts
  <2> QED
    BY <2>1 DEF Informed, tables
<1> QED
  BY <1>1, <1>2, <1>3 DEF Calm, AllInformed

(* Counters that fit their columns do not wrap around in memory either.     *)
LEMMA CreditIsSum ==
    ASSUME NEW pack \in PackageRow, NEW item \in Offers, Fits(Sum(pack, Parsed(item)))
    PROVE  Credit(pack, item) = Sum(pack, Parsed(item))
<1>1. Parsed(item) \in PackageRow
  BY ConstantsAssumption DEF Parsed, PackageRow, Stored
<1>2. Sum(pack, Parsed(item)).mb \in Stored /\ Sum(pack, Parsed(item)).sms \in Stored
  BY DEF Fits, PackageRow
<1>3. pack.mb + Parsed(item).mb \in Stored /\ pack.sms + Parsed(item).sms \in Stored
  BY <1>2 DEF Sum
<1>4. \A x \in Stored : x % Word = x
  BY ConstantsAssumption DEF Stored
<1> QED
  BY <1>3, <1>4 DEF Credit, Sum

LEMMA FollowsCalm ==
    ASSUME TypeOK, TypeOK', Calm, NEW c \in Channels, Follows(c), (Isolated /\ Roomy)'
    PROVE  Calm'
<1> DEFINE j == job[c]
<1> DEFINE k == job'[c]
<1>a. /\ j # None /\ Informed(j) /\ j \in Handler /\ j \in Job /\ j.user \in Users
      /\ j.pc \in Steps /\ j.kind \in Kinds
  BY DEF Follows, Calm, AllInformed, TypeOK, Handler, Job
<1>b. \A v \in Users \ {j.user} : users'[v] = users[v] /\ package_state'[v] = package_state[v]
  BY <1>a DEF Follows, tables, Steps, TypeOK, TablesOK
<1>1. Complete'
  <2>1. j.score \in Int /\ j.pack \in PackageInfo
    BY <1>a DEF Job
  <2>2. j.pc = "charge" => j.score - Cost[j.item] \in Int
    <3>1. j.pc = "charge" => j.item \in Offers
      BY <1>a, HandlerAt DEF At
    <3> QED
      BY <2>1, <3>1, ConstantsAssumption
  <2>3. \A x \in Int : x # None
    BY ConstantsAssumption
  <2>4. j.pack # None
    BY <2>1, ConstantsAssumption
  <2>5. users'[j.user] # None /\ package_state'[j.user] # None
    BY <1>a, <2>1, <2>2, <2>3, <2>4
    DEF Follows, tables, Steps, Calm, Complete, TypeOK, TablesOK
  <2> QED
    BY <1>a, <1>b, <2>5 DEF Calm, Complete
<1>2. ASSUME NEW d \in Channels, d # c, job'[d] # None PROVE Informed(job[d])'
  <2>1. Informed(job[d]) /\ job'[d] = job[d] /\ job[d].user # j.user /\ job[d].user \in Users
    BY <1>a, <1>2 DEF Calm, AllInformed, Follows, Isolated, TypeOK, Handler, Job
  <2> QED
    BY <1>b, <2>1 DEF Informed
<1>3. ASSUME k # None PROVE Informed(job[c])'
  <2>1. k.kind = j.kind /\ k.user = j.user /\ k.item = j.item /\ j.pc # "reply"
    BY <1>3, <1>a DEF Follows
  <2>2. CASE k.pc = "putPack"
    <3>1. j.pc = "getPack" /\ UNCHANGED tables /\ k.pack = Credit(package_state[j.user], j.item)
      BY <1>a, <2>1, <2>2 DEF Follows, Steps
    <3>2. j.item \in Offers
      BY <1>a, <3>1, HandlerAt DEF At
    <3>3. package_state[j.user] \in PackageRow
      BY <1>a DEF TypeOK, TablesOK, Calm, Complete
    <3>4. Fits(Sum(package_state[j.user], Parsed(j.item)))
      BY <1>3, <2>1, <2>2, <3>1 DEF Roomy, At, tables
    <3>5. k.pack = Sum(package_state[j.user], Parsed(j.item))
      BY <3>1, <3>2, <3>3, <3>4, CreditIsSum
    <3>6. j.kind # "adminUpdateUserPackage"
      BY <1>a, <3>1, ScriptShape DEF Handler, LastStep
    <3> QED
      BY <2>1, <2>2, <3>1, <3>5, <3>6 DEF Informed, tables
  <2>3. CASE k.pc # "putPack"
    <3>1. k.pc \in {"getUser", "connect"} /\ k.kind \in Payments \cup Grants => k.item \in Listed
      BY <1>a, <2>1 DEF Follows, Informed, Steps, Kinds
    <3>2. k.pc = "connect" => k.item \in Listed
      BY <1>a, <2>1 DEF Follows, Informed, Steps, Kinds
    <3>3. k.kind \in Payments /\ k.pc \in {"connect", "charge"} =>
             k.isRow /\ k.uid = k.user /\ k.score = users'[k.user]
      BY <1>a, <2>1 DEF Follows, Informed, Steps, tables
    <3>4. k.kind = "adminUpdateUserPackage" => k.score \in Scores /\ k.pack \in AdminPacks
      BY <1>a, <1>3, <2>1 DEF Follows, Informed
    <3>5. k.pc = "setScore" => k.isRow /\ k.uid = k.user
      BY <1>a, <2>1 DEF Follows, Steps
    <3> QED
      BY <2>3, <3>1, <3>2, <3>3, <3>4, <3>5 DEF Informed
  <2> QED
    BY <2>2, <2>3
<1> QED
  BY <1>1, <1>2, <1>3 DEF Calm, AllInformed

LEMMA NextCalm ==
    ASSUME TypeOK, TypeOK', Safe, Calm, [IsolatedNext]_vars
    PROVE  Calm'
<1>1. CASE IsolatedNext
  <2>1. ASSUME NEW c \in Channels, Starts(c) PROVE Calm'
    BY <1>1, <2>1, StartsCalm DEF IsolatedNext
  <2>2. ASSUME NEW c \in Channels, Call(c) PROVE Calm'
    BY <1>1, <2>2, CallFollows, FollowsCalm DEF IsolatedNext
  <2> QED
    BY <1>1, <2>1, <2>2, ServeCases DEF IsolatedNext
<1>2. CASE UNCHANGED vars
  BY <1>2 DEF vars, Calm, Complete, AllInformed, Informed, Isolated, Roomy, At
<1> QED
  BY <1>1, <1>2

LEMMA InitCalm == CompleteInit => Calm
BY DEF CompleteInit, Init, Calm, Complete, AllInformed, Isolated, Roomy, At

LEMMA CalmAlways == IsolatedSpec => [](Known /\ Calm)
<1>1. CompleteInit => Init
  BY DEF CompleteInit
<1>2. [IsolatedNext]_vars => [Next]_vars
  BY DEF IsolatedNext, Next
<1>3. IsolatedSpec => Spec
  BY <1>1, <1>2, PTL DEF IsolatedSpec, Spec, IsolatedNext
<1>4. Spec => []Known
  BY TypeCorrect, SafeAlways, RequestsKeptApart, PTL DEF Known
<1>5. Known /\ Known' /\ Calm /\ [IsolatedNext]_vars => Calm'
  BY NextCalm DEF Known
<1> QED
  BY <1>3, <1>4, <1>5, InitCalm, PTL DEF IsolatedSpec, IsolatedNext

(* In isolation a purchase is charged only while the account holds its      *)
(* price: the copy ratePayment and servicePayment checked is still the row. *)
THEOREM NoOverspendAlone == IsolatedSpec => NoOverspend
<1> DEFINE A == \A c \in Clients :
                   Leaves(c, "charge") /\ charged' # charged =>
                       users[job[c].uid] >= Cost[job[c].item]
<1>1. Known /\ Calm => A
  <2> SUFFICES ASSUME Known, Calm, NEW c \in Clients, At(c, "charge")
               PROVE  users[job[c].uid] >= Cost[job[c].item]
    BY DEF Leaves
  <2>1. c \in Channels /\ job[c] # None /\ job[c].pc = "charge"
    BY DEF Channels, At
  <2>2. InStep(job[c]) /\ Informed(job[c]) /\ job[c].kind \in Payments
    BY <2>1, HandlerAt DEF Known, Safe, HandlersInStep, Calm, AllInformed, Steps
  <2> QED
    BY <2>1, <2>2 DEF InStep, Informed
<1>2. IsolatedSpec => [][A]_vars
  BY <1>1, CalmAlways, PTL
<1> QED
  BY <1>2 DEF NoOverspend

(* In isolation "Success!" means that the package grew by exactly what the  *)
(* program holds of the offer, which for a rate is the whole of its row.    *)
THEOREM SuccessDelivers == IsolatedSpec => SuccessDeliversAlone
<1> DEFINE A == \A c \in Channels :
                   Leaves(c, "putPack") /\ At(c, "reply")' /\ job'[c].text = "success" =>
                       LET u == job[c].user
                           i == job[c].item IN
                       /\ package_state[u] # None
                       /\ package_state'[u] = Sum(package_state[u], Parsed(i))
                       /\ i \in Rates => Parsed(i) = Gives[i]
<1>1. Known /\ Calm /\ [IsolatedNext]_vars => A
  <2> SUFFICES ASSUME Known, Calm, IsolatedNext, NEW c \in Channels, Leaves(c, "putPack")
               PROVE  /\ package_state[job[c].user] # None
                      /\ package_state'[job[c].user] =
                             Sum(package_state[job[c].user], Parsed(job[c].item))
                      /\ job[c].item \in Rates => Parsed(job[c].item) = Gives[job[c].item]
    BY DEF Leaves, At, vars
  <2>1. /\ job[c] # None /\ job[c].pc = "putPack" /\ job'[c] # job[c]
        /\ job[c] \in Job /\ job[c].user \in Users
    BY DEF Leaves, At, Known, TypeOK, Handler, Job
  <2>2. Informed(job[c]) /\ package_state[job[c].user] # None
    BY <2>1 DEF Calm, AllInformed, Complete
  <2>3. job[c].pack = Sum(package_state[job[c].user], Parsed(job[c].item))
    BY <2>1, <2>2 DEF Informed
  <2>4. ASSUME NEW d \in Channels, Starts(d) PROVE FALSE
    BY <2>1, <2>4 DEF Starts
  <2>5. ASSUME NEW d \in Channels, Call(d)
        PROVE  package_state' = [package_state EXCEPT ![job[c].user] = job[c].pack]
    <3>1. Follows(d)
      BY <2>5, CallFollows DEF Known, IsolatedNext
    <3>2. d = c
      BY <2>1, <3>1 DEF Follows
    <3> QED
      BY <2>1, <3>1, <3>2 DEF Follows
  <2>6. package_state' = [package_state EXCEPT ![job[c].user] = job[c].pack]
    BY <2>4, <2>5, ServeCases DEF Known, IsolatedNext
  <2>7. package_state'[job[c].user] = job[c].pack
    BY <2>1, <2>6 DEF Known, TypeOK, TablesOK
  <2>8. job[c].item \in Rates => Parsed(job[c].item) = Gives[job[c].item]
    BY ConstantsAssumption DEF Parsed
  <2> QED
    BY <2>2, <2>3, <2>7, <2>8
<1>2. IsolatedSpec => [][A]_vars
  BY <1>1, CalmAlways, PTL DEF IsolatedSpec, IsolatedNext
<1> QED
  BY <1>2 DEF SuccessDeliversAlone

-----------------------------------------------------------------------------
(* The refinement.                                                          *)

(* The abstract account and package of each user, by what the only handler  *)
(* that works on him is about to do.                                        *)
ValueOf(j) ==
    /\ AtomicUsers[j.user] =
          IF j.pc = "charge" THEN users[j.user] - Cost[j.item] ELSE users[j.user]
    /\ AtomicPackages[j.user] =
          IF j.pc \in {"charge", "getPack", "putPack"}
          THEN Sum(package_state[j.user], Parsed(j.item))
          ELSE IF j.pc = "setPack" THEN j.pack
          ELSE package_state[j.user]

Values ==
    /\ AtomicUsers = [u \in Users |-> AtomicUsers[u]]
    /\ AtomicPackages = [u \in Users |-> AtomicPackages[u]]
    /\ \A c \in Channels : job[c] # None => ValueOf(job[c])
    /\ \A u \in Users :
          (\A c \in Channels : job[c] # None => job[c].user # u) =>
              AtomicUsers[u] = users[u] /\ AtomicPackages[u] = package_state[u]

LEMMA OnlyOne == ASSUME NEW x PROVE Only({x}) = x
BY DEF Only

LEMMA ValuesHold == TypeOK /\ Isolated => Values
<1> SUFFICES ASSUME TypeOK, Isolated PROVE Values
  OBVIOUS
<1>1. /\ AtomicUsers = [u \in Users |-> AtomicUsers[u]]
      /\ AtomicPackages = [u \in Users |-> AtomicPackages[u]]
  BY DEF AtomicUsers, AtomicPackages
<1>2. ASSUME NEW c \in Channels, job[c] # None PROVE ValueOf(job[c])
  <2> DEFINE j == job[c]
  <2>1. j.user \in Users
    BY <1>2 DEF TypeOK, Handler, Job
  <2>2. \A S : Pending(j.user, S) = IF j.pc \in S THEN {c} ELSE {}
    BY <1>2 DEF Pending, Isolated
  <2>3. Only({c}) = c
    BY OnlyOne
  <2>4. AtomicUsers[j.user] =
           IF j.pc = "charge" THEN users[j.user] - Cost[j.item] ELSE users[j.user]
    <3>1. Pending(j.user, {"charge"}) = IF j.pc = "charge" THEN {c} ELSE {}
      BY <2>2
    <3> QED
      BY <2>1, <2>3, <3>1 DEF AtomicUsers
  <2>5. AtomicPackages[j.user] =
          IF j.pc \in {"charge", "getPack", "putPack"}
          THEN Sum(package_state[j.user], Parsed(j.item))
          ELSE IF j.pc = "setPack" THEN j.pack
          ELSE package_state[j.user]
    <3>1. /\ Pending(j.user, {"charge", "getPack", "putPack"}) =
                IF j.pc \in {"charge", "getPack", "putPack"} THEN {c} ELSE {}
          /\ Pending(j.user, {"setPack"}) = IF j.pc = "setPack" THEN {c} ELSE {}
      BY <2>2
    <3> QED
      BY <2>1, <2>3, <3>1 DEF AtomicPackages
  <2> QED
    BY <2>4, <2>5 DEF ValueOf
<1>3. ASSUME NEW u \in Users, \A c \in Channels : job[c] # None => job[c].user # u
      PROVE  AtomicUsers[u] = users[u] /\ AtomicPackages[u] = package_state[u]
  <2>1. \A S : Pending(u, S) = {}
    BY <1>3 DEF Pending
  <2> QED
    BY <2>1 DEF AtomicUsers, AtomicPackages
<1> QED
  BY <1>1, <1>2, <1>3 DEF Values

LEMMA ValuesHoldNext == TypeOK' /\ Isolated' => Values'
BY ValuesHold, PTL

Consistent == TypeOK /\ Isolated /\ Values

(* A step of c changes nothing for a user c does not work on.               *)
LEMMA OthersKeepValues ==
    ASSUME Consistent, Consistent', NEW c \in Channels, NEW v \in Users,
           \A d \in Channels \ {c} : job'[d] = job[d],
           users'[v] = users[v], package_state'[v] = package_state[v],
           job[c] # None => job[c].user # v,
           job'[c] # None => job'[c].user # v
    PROVE  AtomicUsers'[v] = AtomicUsers[v] /\ AtomicPackages'[v] = AtomicPackages[v]
<1>1. CASE \E d \in Channels : job[d] # None /\ job[d].user = v
  <2>1. PICK d \in Channels : job[d] # None /\ job[d].user = v
    BY <1>1
  <2>2. job'[d] = job[d]
    BY <2>1
  <2>3. ValueOf(job[d]) /\ ValueOf(job[d])'
    BY <2>1, <2>2 DEF Consistent, Values
  <2> QED
    BY <2>1, <2>2, <2>3 DEF ValueOf
<1>2. CASE \A d \in Channels : job[d] # None => job[d].user # v
  <2>1. \A d \in Channels : job'[d] # None => job'[d].user # v
    BY <1>2
  <2> QED
    BY <1>2, <2>1 DEF Consistent, Values
<1> QED
  BY <1>1, <1>2

LEMMA SameValues ==
    ASSUME Consistent, Consistent',
           \A v \in Users : AtomicUsers'[v] = AtomicUsers[v] /\ AtomicPackages'[v] = AtomicPackages[v]
    PROVE  AtomicUsers' = AtomicUsers /\ AtomicPackages' = AtomicPackages
<1>1. /\ AtomicUsers = [u \in Users |-> AtomicUsers[u]]
      /\ AtomicPackages = [u \in Users |-> AtomicPackages[u]]
      /\ AtomicUsers' = [u \in Users |-> AtomicUsers'[u]]
      /\ AtomicPackages' = [u \in Users |-> AtomicPackages'[u]]
  BY DEF Consistent, Values
<1>2. /\ [u \in Users |-> AtomicUsers'[u]] = [u \in Users |-> AtomicUsers[u]]
      /\ [u \in Users |-> AtomicPackages'[u]] = [u \in Users |-> AtomicPackages[u]]
  OBVIOUS
<1> QED
  BY <1>1, <1>2

(* The only user whose values change, changed as f and g.                   *)
LEMMA OneChanges ==
    ASSUME Consistent, Consistent', NEW u \in Users, NEW f, NEW g,
           \A v \in Users \ {u} :
               AtomicUsers'[v] = AtomicUsers[v] /\ AtomicPackages'[v] = AtomicPackages[v],
           AtomicUsers'[u] = f, AtomicPackages'[u] = g
    PROVE  /\ AtomicUsers' = [AtomicUsers EXCEPT ![u] = f]
           /\ AtomicPackages' = [AtomicPackages EXCEPT ![u] = g]
<1>1. /\ AtomicUsers = [v \in Users |-> AtomicUsers[v]]
      /\ AtomicPackages = [v \in Users |-> AtomicPackages[v]]
      /\ AtomicUsers' = [v \in Users |-> AtomicUsers'[v]]
      /\ AtomicPackages' = [v \in Users |-> AtomicPackages'[v]]
  BY DEF Consistent, Values
<1>2. /\ [AtomicUsers EXCEPT ![u] = f] = [v \in Users |-> IF v = u THEN f ELSE AtomicUsers[v]]
      /\ [AtomicPackages EXCEPT ![u] = g] =
             [v \in Users |-> IF v = u THEN g ELSE AtomicPackages[v]]
  BY <1>1
<1>3. /\ [v \in Users |-> AtomicUsers'[v]] =
             [v \in Users |-> IF v = u THEN f ELSE AtomicUsers[v]]
      /\ [v \in Users |-> AtomicPackages'[v]] =
             [v \in Users |-> IF v = u THEN g ELSE AtomicPackages[v]]
  OBVIOUS
<1> QED
  BY <1>1, <1>2, <1>3

(* Until it has inserted its row or set its score, a request is not seen.   *)
LEMMA StartsUnseen ==
    ASSUME Consistent, Consistent', NEW c \in Channels, Starts(c)
    PROVE  UNCHANGED <<AtomicUsers, AtomicPackages, connected>>
<1> DEFINE k == job'[c]
<1>1. /\ job[c] = None /\ k # None /\ UNCHANGED tables /\ k.user \in Users
      /\ k.pc \in {"getOffer", "getUser"}
      /\ \A d \in Channels \ {c} : job'[d] = job[d]
  BY DEF Starts
<1>2. UNCHANGED <<users, package_state, connected>>
  BY <1>1 DEF tables
<1>3. AtomicUsers[k.user] = users[k.user] /\ AtomicPackages[k.user] = package_state[k.user]
  <2>1. \A d \in Channels : job[d] # None => job[d].user # k.user
    BY <1>1 DEF Consistent, Isolated
  <2> QED
    BY <1>1, <2>1 DEF Consistent, Values
<1>4. AtomicUsers'[k.user] = users[k.user] /\ AtomicPackages'[k.user] = package_state[k.user]
  <2>1. ValueOf(job[c])'
    BY <1>1 DEF Consistent, Values
  <2> QED
    BY <1>1, <1>2, <2>1 DEF ValueOf
<1>5. \A v \in Users \ {k.user} :
          AtomicUsers'[v] = AtomicUsers[v] /\ AtomicPackages'[v] = AtomicPackages[v]
  BY <1>1, <1>2, OthersKeepValues
<1> QED
  BY <1>1, <1>2, <1>3, <1>4, <1>5, SameValues

LEMMA FollowsAtomic ==
    ASSUME Consistent, Consistent', Safe, RequestsApart, Calm,
           NEW c \in Channels, Follows(c)
    PROVE  Atomic!Next \/ UNCHANGED <<AtomicUsers, AtomicPackages, connected>>
<1> DEFINE j == job[c]
<1> DEFINE k == job'[c]
<1> DEFINE u == job[c].user
<1>a. /\ j # None /\ Informed(j) /\ j \in Handler /\ j \in Job /\ u \in Users
      /\ j.pc \in Steps /\ j.kind \in Kinds /\ ValueOf(j) /\ InStep(j)
  BY DEF Follows, Calm, AllInformed, Consistent, Values, Safe, HandlersInStep, TypeOK, Handler, Job
<1>b. \A v \in Users \ {u} : users'[v] = users[v] /\ package_state'[v] = package_state[v]
  BY <1>a DEF Follows, tables, Steps, Consistent, TypeOK, TablesOK
<1>c. /\ \A d \in Channels \ {c} : job'[d] = job[d]
      /\ k # None => k.user = u /\ k.item = j.item
  BY <1>a DEF Follows
<1>d. \A v \in Users \ {u} :
          AtomicUsers'[v] = AtomicUsers[v] /\ AtomicPackages'[v] = AtomicPackages[v]
  BY <1>a, <1>b, <1>c, OthersKeepValues
<1>e. k # None => ValueOf(job[c])'
  BY DEF Consistent, Values
<1>f. k = None => AtomicUsers'[u] = users'[u] /\ AtomicPackages'[u] = package_state'[u]
  <2>1. k = None => \A d \in Channels : job'[d] # None => job'[d].user # u
    BY <1>a, <1>c DEF Consistent, Isolated
  <2> QED
    BY <1>a, <2>1 DEF Consistent, Values
<1>g. users[u] \in Int /\ package_state[u] \in PackageRow
  BY <1>a DEF Calm, Complete, Consistent, TypeOK, TablesOK
<1>h. j.pc \in {"connect", "charge", "getPack", "putPack"} =>
          j.item \in Offers /\ Cost[j.item] \in Nat /\ j.kind # "adminUpdateUserPackage"
  <2>1. j.pc \in {"connect", "charge", "getPack", "putPack"} => j.item \in Offers
    BY <1>a, HandlerAt DEF At, Consistent
  <2> QED
    BY <1>a, <2>1, ConstantsAssumption DEF Handler
<1>1. CASE j.pc \in {"getOffer", "getUser", "charge", "getPack", "putPack", "setPack", "reply"}
  <2>1. AtomicUsers'[u] = AtomicUsers[u] /\ AtomicPackages'[u] = AtomicPackages[u]
    <3>1. CASE j.pc \in {"getOffer", "getUser"}
      BY <1>a, <1>c, <1>e, <3>1 DEF Follows, ValueOf, tables
    <3>2. CASE j.pc = "charge"
      <4>1. j.score = users[u] /\ k # None /\ k.pc = "getPack"
        BY <1>a, <3>2, HandlerAt DEF Informed, Follows, At, Consistent, Steps
      <4>2. users'[u] = users[u] - Cost[j.item] /\ package_state' = package_state
        BY <1>a, <3>2, <4>1 DEF Follows, Consistent, TypeOK, TablesOK
      <4> QED
        BY <1>a, <1>c, <1>e, <3>2, <4>1, <4>2 DEF ValueOf
    <3>3. CASE j.pc = "getPack"
      BY <1>a, <1>c, <1>e, <3>3 DEF Follows, ValueOf, tables
    <3>4. CASE j.pc = "putPack"
      <4>1. /\ j.pack = Sum(package_state[u], Parsed(j.item)) /\ k # None /\ k.pc = "reply"
            /\ users' = users /\ package_state'[u] = j.pack
        BY <1>a, <3>4 DEF Informed, Follows, Consistent, TypeOK, TablesOK
      <4> QED
        BY <1>a, <1>c, <1>e, <3>4, <4>1 DEF ValueOf
    <3>5. CASE j.pc = "setPack"
      <4>1. k # None /\ k.pc = "reply" /\ users' = users /\ package_state'[u] = j.pack
        BY <1>a, <3>5 DEF Follows, Consistent, TypeOK, TablesOK
      <4> QED
        BY <1>a, <1>c, <1>e, <3>5, <4>1 DEF ValueOf
    <3>6. CASE j.pc = "reply"
      BY <1>a, <1>f, <3>6 DEF Follows, ValueOf, tables
    <3> QED
      BY <1>1, <3>1, <3>2, <3>3, <3>4, <3>5, <3>6
  <2>2. connected' = connected
    BY <1>1 DEF Follows, tables
  <2> QED
    BY <1>a, <1>d, <2>1, <2>2, SameValues
<1>2. CASE j.pc = "connect"
  <2> DEFINE price == IF j.kind \in Payments THEN Cost[j.item] ELSE 0
  <2>1. /\ k # None /\ k.pc = (IF j.kind \in Payments THEN "charge" ELSE "getPack")
        /\ UNCHANGED <<users, package_state>> /\ connected' = connected \cup {EntryOf(j)}
    BY <1>2 DEF Follows
  <2>2. /\ AtomicUsers[u] = users[u] /\ AtomicPackages[u] = package_state[u]
        /\ AtomicUsers'[u] = users[u] - price
        /\ AtomicPackages'[u] = Sum(package_state[u], Parsed(j.item))
    BY <1>a, <1>c, <1>e, <1>g, <1>2, <2>1 DEF ValueOf
  <2>3. /\ AtomicUsers' = [AtomicUsers EXCEPT ![u] = AtomicUsers[u] - price]
        /\ AtomicPackages' =
              [AtomicPackages EXCEPT ![u] = Sum(AtomicPackages[u], Parsed(j.item))]
    BY <1>a, <1>d, <2>2, OneChanges
  <2>4. /\ j.item \in Listed
        /\ j.kind \in Payments => AtomicUsers[u] >= Cost[j.item]
    BY <1>a, <1>2, <2>2 DEF Informed, InStep
  <2>5. j.req \in 0 .. MaxRequests - 1 /\ \A e \in connected : e.req # j.req
    <3>1. j.req < requests /\ j.req \in Nat /\ requests \in 0 .. MaxRequests
      BY <1>a DEF RequestsApart, Job, Consistent, TypeOK
    <3>2. \A e \in connected : e.req # j.req
      BY <1>a, <1>2 DEF RequestsApart, Untraced
    <3> QED
      BY <3>1, <3>2, ConstantsAssumption
  <2>6. Atomic!Obtain(u, j.item, price)
    <3>1. \A p, q : Atomic!Sum(p, q) = Sum(p, q)
      BY DEF Atomic!Sum, Sum
    <3>2. [i \in Offers |-> Parsed(i)][j.item] = Parsed(j.item)
      BY <1>h, <1>2
    <3>3. EntryOf(j) = [req |-> j.req, user |-> u, item |-> j.item]
      BY DEF EntryOf
    <3> QED
      BY <2>1, <2>3, <2>4, <2>5, <3>1, <3>2, <3>3 DEF Atomic!Obtain
  <2>7. Atomic!Buy(u, j.item) \/ Atomic!Grant(u, j.item)
    BY <2>4, <2>6 DEF Atomic!Buy, Atomic!Grant
  <2> QED
    BY <1>a, <1>h, <1>2, <2>7 DEF Atomic!Next
<1>3. CASE j.pc = "setScore"
  <2>1. /\ k # None /\ k.pc = "setPack" /\ k.pack = j.pack
        /\ users'[u] = j.score /\ UNCHANGED <<package_state, connected>>
        /\ j.score \in Scores /\ j.pack \in AdminPacks
    <3>1. j.kind = "adminUpdateUserPackage"
      BY <1>a, <1>3, HandlerAt DEF At, Consistent
    <3> QED
      BY <1>a, <1>3, <3>1 DEF Follows, Informed, Consistent, TypeOK, TablesOK
  <2>2. AtomicUsers'[u] = j.score /\ AtomicPackages'[u] = j.pack
    BY <1>c, <1>e, <2>1 DEF ValueOf
  <2>3. /\ AtomicUsers' = [AtomicUsers EXCEPT ![u] = j.score]
        /\ AtomicPackages' = [AtomicPackages EXCEPT ![u] = j.pack]
    BY <1>a, <1>d, <2>2, OneChanges
  <2>4. Atomic!Adjust(u, j.score, j.pack)
    BY <2>1, <2>3 DEF Atomic!Adjust
  <2> QED
    BY <1>a, <2>1, <2>4 DEF Atomic!Next
<1> QED
  BY <1>a, <1>1, <1>2, <1>3 DEF Steps

LEMMA InitAtomic == CompleteInit => Atomic!Init
<1> SUFFICES ASSUME CompleteInit PROVE Atomic!Init
  OBVIOUS
<1>1. \A u \in Users : users[u] \in Opening /\ package_state[u] = [mb |-> 0, sms |-> 0]
  BY DEF CompleteInit, Init
<1>2. TypeOK /\ Isolated
  BY InitType, InitCalm DEF CompleteInit, Calm
<1>3. Values
  BY <1>2, ValuesHold
<1>4. \A u \in Users : AtomicUsers[u] = users[u] /\ AtomicPackages[u] = package_state[u]
  BY <1>3 DEF Values, CompleteInit, Init
<1>5. AtomicUsers \in [Users -> Opening]
  BY <1>1, <1>3, <1>4 DEF Values
<1>6. AtomicPackages = [u \in Users |-> [mb |-> 0, sms |-> 0]]
  <2>1. AtomicPackages = [u \in Users |-> AtomicPackages[u]]
    BY <1>3 DEF Values
  <2> QED
    BY <1>1, <1>4, <2>1
<1> QED
  BY <1>5, <1>6 DEF Atomic!Init, CompleteInit, Init

(* The five handlers, call by call, implement one atomic step per request,  *)
(* as long as no two of them work on one user, no call fails and no counter *)
(* outgrows its column: Buy and Grant take place at the insert of the row,  *)
(* Adjust at the administrator's updateUser, all other calls are stutters.  *)
THEOREM AloneIsAtomic == IsolatedSpec => ImplementsAtomicBilling
<1>1. CompleteInit => Atomic!Init
  BY InitAtomic
<1>2. Known /\ Known' /\ Calm /\ Calm' /\ [IsolatedNext]_vars => [Atomic!Next]_(Atomic!vars)
  <2> SUFFICES ASSUME Known, Known', Calm, Calm', [IsolatedNext]_vars
               PROVE  [Atomic!Next]_(Atomic!vars)
    OBVIOUS
  <2>1. Consistent
    BY ValuesHold DEF Known, Calm, Consistent
  <2>2. Consistent'
    BY ValuesHoldNext DEF Known, Calm, Consistent
  <2>3. ASSUME NEW c \in Channels, Starts(c)
        PROVE  UNCHANGED <<AtomicUsers, AtomicPackages, connected>>
    BY <2>1, <2>2, <2>3, StartsUnseen
  <2>4. ASSUME NEW c \in Channels, Call(c), IsolatedNext
        PROVE  Atomic!Next \/ UNCHANGED <<AtomicUsers, AtomicPackages, connected>>
    BY <2>1, <2>2, <2>4, CallFollows, FollowsAtomic DEF Known, IsolatedNext
  <2>5. CASE UNCHANGED vars
    BY <2>5 DEF vars, AtomicUsers, AtomicPackages, Pending, Atomic!vars
  <2>6. CASE IsolatedNext
    BY <2>3, <2>4, <2>6, ServeCases DEF Known, IsolatedNext, Atomic!vars
  <2> QED
    BY <2>5, <2>6
<1> QED
  BY <1>1, <1>2, CalmAlways, PTL DEF IsolatedSpec, IsolatedNext, ImplementsAtomicBilling, Atomic!Spec
=============================================================================

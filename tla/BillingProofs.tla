---------------------------- MODULE BillingProofs ----------------------------
(* Proofs about Billing, for every value of its constants.                  *)
EXTENDS Billing, TLAPS

-----------------------------------------------------------------------------
(* Facts about the scripts.                                                 *)

(* Every step of a script but the last leads to a step of the same script. *)
LEMMA ScriptStep ==
    ASSUME NEW kind \in Kinds, NEW step \in DOMAIN Script(kind)
    PROVE  /\ Script(kind)[step] \in DOMAIN Script(kind) \cup {LastStep(kind)}
           /\ Script(kind)[step] \in Steps
<1>1. CASE kind = "ratePayment"
  BY <1>1 DEF Script, ratePayment, LastStep, Steps
<1>2. CASE kind = "servicePayment"
  BY <1>2 DEF Script, servicePayment, LastStep, Steps
<1>3. CASE kind = "adminUserRateChange"
  BY <1>3 DEF Script, adminUserRateChange, LastStep, Steps
<1>4. CASE kind = "adminUserServiceChange"
  BY <1>4 DEF Script, adminUserServiceChange, LastStep, Steps
<1>5. CASE kind = "adminUpdateUserPackage"
  BY <1>5 DEF Script, adminUpdateUserPackage, LastStep, Steps
<1> QED
  BY <1>1, <1>2, <1>3, <1>4, <1>5 DEF Kinds, Payments, Grants

(* Which handlers have which step, and the call that follows it.           *)
LEMMA ScriptShape ==
    ASSUME NEW kind \in Kinds
    PROVE  /\ "getOffer" \in DOMAIN Script(kind) <=> kind # "adminUpdateUserPackage"
           /\ "connect" \in DOMAIN Script(kind) <=> kind # "adminUpdateUserPackage"
           /\ "charge" \in DOMAIN Script(kind) <=> kind \in Payments
           /\ "getPack" \in DOMAIN Script(kind) <=> kind # "adminUpdateUserPackage"
           /\ "setScore" \in DOMAIN Script(kind) <=> kind = "adminUpdateUserPackage"
           /\ "getUser" \in DOMAIN Script(kind) <=> kind # "adminUserServiceChange"
           /\ "putPack" \notin DOMAIN Script(kind) /\ "setPack" \notin DOMAIN Script(kind)
           /\ "reply" \notin DOMAIN Script(kind)
<1>1. CASE kind = "ratePayment"
  BY <1>1 DEF Script, ratePayment, Payments
<1>2. CASE kind = "servicePayment"
  BY <1>2 DEF Script, servicePayment, Payments
<1>3. CASE kind = "adminUserRateChange"
  BY <1>3 DEF Script, adminUserRateChange, Payments
<1>4. CASE kind = "adminUserServiceChange"
  BY <1>4 DEF Script, adminUserServiceChange, Payments
<1>5. CASE kind = "adminUpdateUserPackage"
  BY <1>5 DEF Script, adminUpdateUserPackage, Payments
<1> QED
  BY <1>1, <1>2, <1>3, <1>4, <1>5 DEF Kinds, Payments, Grants

LEMMA ScriptOrder ==
    ASSUME NEW kind \in Kinds
    PROVE  /\ kind \in Payments => Script(kind)["getOffer"] = "getUser"
           /\ kind # "adminUpdateUserPackage" =>
                 Script(kind)["getOffer"] \in {"getUser", "connect"}
           /\ kind # "adminUserServiceChange" =>
                 Script(kind)["getUser"] \in {"connect", "setScore"}
           /\ kind # "adminUpdateUserPackage" =>
                 /\ Script(kind)["connect"] \in {"charge", "getPack"}
                 /\ Script(kind)["getPack"] = "putPack"
           /\ kind \in Payments => Script(kind)["charge"] = "getPack"
           /\ kind = "adminUpdateUserPackage" => Script(kind)["setScore"] = "setPack"
<1>1. CASE kind = "ratePayment"
  BY <1>1 DEF Script, ratePayment, Payments
<1>2. CASE kind = "servicePayment"
  BY <1>2 DEF Script, servicePayment, Payments
<1>3. CASE kind = "adminUserRateChange"
  BY <1>3 DEF Script, adminUserRateChange, Payments
<1>4. CASE kind = "adminUserServiceChange"
  BY <1>4 DEF Script, adminUserServiceChange, Payments
<1>5. CASE kind = "adminUpdateUserPackage"
  BY <1>5 DEF Script, adminUpdateUserPackage, Payments
<1> QED
  BY <1>1, <1>2, <1>3, <1>4, <1>5 DEF Kinds, Payments, Grants

-----------------------------------------------------------------------------
(* Type correctness.                                                        *)

LEMMA ProceedType ==
    ASSUME TypeOK, NEW c \in Channels, NEW j \in Handler,
           j.pc \in DOMAIN Script(j.kind), Proceed(c, j)
    PROVE  /\ job' \in [Channels -> Handler \cup {None}]
           /\ job'[c] = [j EXCEPT !.pc = Script(j.kind)[j.pc]]
           /\ job'[c] \in Handler
           /\ \A d \in Channels \ {c} : job'[d] = job[d]
<1> DEFINE k == [j EXCEPT !.pc = Script(j.kind)[j.pc]]
<1>1. j \in Job /\ j.kind \in Kinds
  BY DEF Handler, Job
<1>2. Script(j.kind)[j.pc] \in Steps /\ Script(j.kind)[j.pc] \in DOMAIN Script(j.kind) \cup {LastStep(j.kind)}
  BY <1>1, ScriptStep
<1>3. k \in Job /\ k.kind = j.kind /\ k.item = j.item /\ k.pc = Script(j.kind)[j.pc]
  BY <1>1, <1>2 DEF Job
<1>4. k \in Handler
  BY <1>2, <1>3 DEF Handler
<1> QED
  BY <1>4 DEF TypeOK, Proceed

LEMMA AnswerType ==
    ASSUME TypeOK, NEW c \in Channels, job[c] # None,
           NEW code \in Codes, NEW text \in Texts, Answer(c, code, text)
    PROVE  /\ job' \in [Channels -> Handler \cup {None}]
           /\ job'[c] = [job[c] EXCEPT !.pc = "reply", !.code = code, !.text = text]
           /\ job'[c] \in Handler
           /\ \A d \in Channels \ {c} : job'[d] = job[d]
<1> DEFINE k == [job[c] EXCEPT !.pc = "reply", !.code = code, !.text = text]
<1>1. job[c] \in Handler
  BY DEF TypeOK
<1>2. k \in Job /\ k.kind = job[c].kind /\ k.item = job[c].item /\ k.pc = "reply"
  BY <1>1 DEF Job, Handler, Steps
<1>3. k \in Handler
  BY <1>1, <1>2 DEF Handler
<1> QED
  BY <1>3 DEF TypeOK, Answer

LEMMA BeginType ==
    ASSUME TypeOK, NEW c \in Channels, NEW kind \in Kinds, NEW step \in DOMAIN Script(kind),
           step \in Steps, NEW user \in Users, NEW item \in Offers \cup {None},
           item = None <=> kind = "adminUpdateUserPackage",
           NEW score \in Int, NEW pack \in PackageInfo,
           Begin(c, kind, step, user, item, score, pack)
    PROVE  TypeOK'
<1> USE ConstantsAssumption
<1> DEFINE j == [kind |-> kind, pc |-> step, req |-> requests, user |-> user,
                 item |-> item, uid |-> user, score |-> score, isRow |-> FALSE, pack |-> pack,
                 code |-> "status_internal_error", text |-> "none"]
<1>1. j \in Job
  BY DEF Job, TypeOK, Codes, Texts
<1>2. j \in Handler
  BY <1>1 DEF Handler
<1>3. job' \in [Channels -> Handler \cup {None}]
  BY <1>2 DEF Begin, TypeOK
<1>4. requests' \in 0 .. MaxRequests
  BY DEF Begin, TypeOK
<1> QED
  BY <1>3, <1>4 DEF Begin, TypeOK, TablesOK, tables, history

(* What a step of a handler does not touch stays well typed.               *)
LEMMA FaultType ==
    ASSUME TypeOK, NoFault \/ Fault
    PROVE  faults' \in 0 .. MaxFaults
BY ConstantsAssumption DEF TypeOK, NoFault, Fault

LEMMA HandlerAt ==
    ASSUME TypeOK, NEW c \in Channels, NEW step \in Steps, At(c, step)
    PROVE  /\ job[c] \in Handler /\ job[c] \in Job /\ job[c] # None
           /\ job[c].pc = step
           /\ EntryOf(job[c]).req = job[c].req
           /\ step \notin {"reply", "putPack", "setPack"} => step \in DOMAIN Script(job[c].kind)
           /\ step \in {"getOffer", "connect", "charge", "getPack", "putPack"} =>
                 job[c].item \in Offers /\ EntryOf(job[c]) \in Entry
           /\ step = "charge" => job[c].kind \in Payments
           /\ step \in {"setScore", "setPack"} => job[c].kind = "adminUpdateUserPackage"
<1>1. job[c] # None /\ job[c].pc = step
  BY DEF At
<1>2. job[c] \in Handler /\ job[c] \in Job
  BY <1>1 DEF TypeOK, Handler
<1>3. step \in DOMAIN Script(job[c].kind) \cup {LastStep(job[c].kind), "reply"}
  BY <1>1, <1>2 DEF Handler
<1>4. job[c].kind \in Kinds
  BY <1>2 DEF Job
<1>5. step \notin {"reply", "putPack", "setPack"} => step \in DOMAIN Script(job[c].kind)
  BY <1>3 DEF LastStep
<1>6. step = "charge" => job[c].kind \in Payments
  BY <1>4, <1>5, ScriptShape
<1>7. step \in {"setScore", "setPack"} => job[c].kind = "adminUpdateUserPackage"
  BY <1>3, <1>4, <1>5, ScriptShape DEF LastStep
<1>8. step \in {"getOffer", "connect", "charge", "getPack", "putPack"} =>
         job[c].kind # "adminUpdateUserPackage"
  BY <1>3, <1>4, <1>5, ScriptShape DEF LastStep, Payments
<1>9. step \in {"getOffer", "connect", "charge", "getPack", "putPack"} =>
         job[c].item \in Offers /\ EntryOf(job[c]) \in Entry
  BY <1>2, <1>8 DEF Handler, Job, EntryOf, Entry
<1>10. EntryOf(job[c]).req = job[c].req
  BY DEF EntryOf
<1> QED
  BY <1>1, <1>2, <1>5, <1>6, <1>7, <1>9, <1>10

LEMMA CreditType ==
    ASSUME NEW pack \in PackageInfo, NEW item \in Offers
    PROVE  Credit(pack, item) \in PackageInfo
<1> USE ConstantsAssumption
<1>1. Gives[item] \in PackageRow
  OBVIOUS
<1>2. Parsed(item) \in PackageRow
  BY <1>1 DEF Parsed, PackageRow, Stored
<1>3. \A x \in Nat : x % Word \in Counter
  BY DEF Counter
<1>4. pack.mb + Parsed(item).mb \in Nat /\ pack.sms + Parsed(item).sms \in Nat
  BY <1>2 DEF PackageInfo, PackageRow, Counter, Stored
<1> QED
  BY <1>3, <1>4 DEF Credit, PackageInfo

LEMMA UserInfoType ==
    ASSUME TypeOK, NEW id \in Users, NEW info \in UserInfo(id)
    PROVE  /\ info.user_id \in Users /\ info.score \in Int /\ info.isRow \in BOOLEAN
           /\ info.isRow => info.user_id = id /\ users[id] # None
<1>1. CASE users[id] = None
  <2>1. info \in [user_id : Users, score : StrayScores, isRow : {FALSE}]
    BY <1>1 DEF UserInfo
  <2> QED
    BY <2>1, ConstantsAssumption
<1>2. CASE users[id] # None
  <2>1. info = [user_id |-> id, score |-> users[id], isRow |-> TRUE]
    BY <1>2 DEF UserInfo
  <2>2. users[id] \in Int
    BY <1>2 DEF TypeOK, TablesOK
  <2> QED
    BY <1>2, <2>1, <2>2
<1> QED
  BY <1>1, <1>2

LEMMA UsersType ==
    ASSUME TypeOK, NEW id \in Users, NEW score \in Int
    PROVE  UpdatedUsers(id, score) \in [Users -> Int \cup {None}]
BY DEF UpdatedUsers, TypeOK, TablesOK

LEMMA PackagesType ==
    ASSUME TypeOK, NEW user \in Users, NEW pack, Fits(pack)
    PROVE  UpdatedPackages(user, pack) \in [Users -> PackageRow \cup {None}]
BY DEF UpdatedPackages, Fits, TypeOK, TablesOK

LEMMA BeginsType ==
    ASSUME TypeOK,
           \/ \E c \in Clients : RatePaymentRR(c) \/ ServicePaymentRR(c)
           \/ \E c \in Admins :
                 AdminRateChangeRR(c) \/ AdminServiceChangeRR(c) \/ UpdateUserPackage(c)
    PROVE  TypeOK'
<1> USE ConstantsAssumption
<1>0. /\ Clients \subseteq Channels /\ Admins \subseteq Channels
      /\ Rates \subseteq Offers /\ Services \subseteq Offers
  BY DEF Channels, Offers
<1>1. Empty \in PackageInfo /\ AdminPacks \subseteq PackageInfo /\ Scores \subseteq Int
  BY DEF Empty, PackageInfo, Counter
<1>2. /\ "getOffer" \in Steps /\ "getUser" \in Steps
      /\ \A k \in Kinds \ {"adminUpdateUserPackage"} : "getOffer" \in DOMAIN Script(k)
      /\ "getUser" \in DOMAIN Script("adminUpdateUserPackage")
  BY ScriptShape DEF Kinds, Steps
<1>3. \A i \in Offers : i # None
  OBVIOUS
<1>4. ASSUME NEW c \in Clients, RatePaymentRR(c) PROVE TypeOK'
  <2>1. PICK i \in Rates : Begin(c, "ratePayment", "getOffer", SessionUser[c], i, 0, Empty)
    BY <1>4 DEF RatePaymentRR
  <2> QED
    BY <1>0, <1>1, <1>2, <1>3, <2>1, BeginType DEF Kinds, Payments
<1>5. ASSUME NEW c \in Clients, ServicePaymentRR(c) PROVE TypeOK'
  <2>1. PICK i \in Services : Begin(c, "servicePayment", "getOffer", SessionUser[c], i, 0, Empty)
    BY <1>5 DEF ServicePaymentRR
  <2> QED
    BY <1>0, <1>1, <1>2, <1>3, <2>1, BeginType DEF Kinds, Payments
<1>6. ASSUME NEW c \in Admins, AdminRateChangeRR(c) PROVE TypeOK'
  <2>1. PICK u \in Users, i \in Rates :
           Begin(c, "adminUserRateChange", "getOffer", u, i, 0, Empty)
    BY <1>6 DEF AdminRateChangeRR
  <2> QED
    BY <1>0, <1>1, <1>2, <1>3, <2>1, BeginType DEF Kinds, Grants
<1>7. ASSUME NEW c \in Admins, AdminServiceChangeRR(c) PROVE TypeOK'
  <2>1. PICK u \in Users, i \in Services :
           Begin(c, "adminUserServiceChange", "getOffer", u, i, 0, Empty)
    BY <1>7 DEF AdminServiceChangeRR
  <2> QED
    BY <1>0, <1>1, <1>2, <1>3, <2>1, BeginType DEF Kinds, Grants
<1>8. ASSUME NEW c \in Admins, UpdateUserPackage(c) PROVE TypeOK'
  <2>1. PICK u \in Users, s \in Scores, p \in AdminPacks :
           Begin(c, "adminUpdateUserPackage", "getUser", u, None, s, p)
    BY <1>8 DEF UpdateUserPackage
  <2> QED
    BY <1>0, <1>1, <1>2, <2>1, BeginType DEF Kinds
<1> QED
  BY <1>4, <1>5, <1>6, <1>7, <1>8

LEMMA CallsType ==
    ASSUME TypeOK, NEW c \in Channels, Call(c)
    PROVE  TypeOK'
<1> USE ConstantsAssumption
<1> DEFINE j == job[c]
<1>0. /\ Codes = {"status_success", "status_internal_error", "status_does_not_exist"}
      /\ Texts = {"none", "success", "poor", "unknown", "wrong"}
      /\ {"getOffer", "getUser", "connect", "charge", "getPack", "putPack",
          "setScore", "setPack", "reply"} = Steps
  BY DEF Codes, Texts, Steps
<1>1. CASE GetOffer(c)
  <2>1. j \in Handler /\ j # None /\ j.pc \in DOMAIN Script(j.kind)
    BY <1>0, <1>1, HandlerAt DEF GetOffer
  <2>2. job' \in [Channels -> Handler \cup {None}]
    BY <1>0, <1>1, <2>1, ProceedType, AnswerType DEF GetOffer
  <2> QED
    BY <1>1, <2>2, FaultType DEF GetOffer, TypeOK, TablesOK, tables, history
<1>2. CASE GetUser(c)
  <2>1. j \in Handler /\ j \in Job /\ j # None /\ j.pc \in DOMAIN Script(j.kind)
    BY <1>0, <1>2, HandlerAt DEF GetUser
  <2>2. ASSUME NEW info \in UserInfo(j.user), Proceed(c, WithUser(j, info))
        PROVE  job' \in [Channels -> Handler \cup {None}]
    <3>1. info.user_id \in Users /\ info.score \in Int /\ info.isRow \in BOOLEAN
      BY <2>1, UserInfoType DEF Job
    <3>2. WithUser(j, info) \in Job
      BY <2>1, <3>1 DEF WithUser, Job
    <3>3. /\ WithUser(j, info).kind = j.kind /\ WithUser(j, info).pc = j.pc
          /\ WithUser(j, info).item = j.item
      BY <2>1 DEF WithUser, Job
    <3>4. WithUser(j, info) \in Handler
      BY <2>1, <3>2, <3>3 DEF Handler
    <3> QED
      BY <2>1, <2>2, <3>3, <3>4, ProceedType
  <2>3. job' \in [Channels -> Handler \cup {None}]
    BY <1>0, <1>2, <2>1, <2>2, AnswerType DEF GetUser
  <2> QED
    BY <1>2, <2>3, FaultType DEF GetUser, TypeOK, TablesOK, tables, history
<1>3. CASE Connect(c)
  <2>1. j \in Handler /\ j # None /\ j.pc \in DOMAIN Script(j.kind) /\ EntryOf(j) \in Entry
    BY <1>0, <1>3, HandlerAt DEF Connect
  <2>2. job' \in [Channels -> Handler \cup {None}]
    BY <1>0, <1>3, <2>1, ProceedType, AnswerType DEF Connect
  <2>3. connected' \subseteq Entry
    BY <1>3, <2>1 DEF Connect, TypeOK, TablesOK
  <2> QED
    BY <1>3, <2>2, <2>3, FaultType DEF Connect, TypeOK, TablesOK, history
<1>4. CASE Charge(c)
  <2>1. /\ j \in Handler /\ j \in Job /\ j # None /\ j.pc \in DOMAIN Script(j.kind)
        /\ j.item \in Offers
    BY <1>0, <1>4, HandlerAt DEF Charge
  <2>2. job' \in [Channels -> Handler \cup {None}]
    BY <1>4, <2>1, ProceedType DEF Charge
  <2>3. j.score - Cost[j.item] \in Int /\ j.uid \in Users
    BY <2>1 DEF Job
  <2>4. ChargedBy(j) \subseteq Charges
    BY <2>1 DEF ChargedBy, ChargeOf, Charges, Job
  <2>5. users' \in [Users -> Int \cup {None}]
    <3>1. UpdatedUsers(j.uid, j.score - Cost[j.item]) \in [Users -> Int \cup {None}]
      BY <2>3, UsersType
    <3>2. users' = UpdatedUsers(j.uid, j.score - Cost[j.item]) \/ users' = users
      BY <1>4 DEF Charge
    <3> QED
      BY <3>1, <3>2 DEF TypeOK, TablesOK
  <2>6. charged' \subseteq Charges
    BY <1>4, <2>4 DEF Charge, TypeOK
  <2> QED
    BY <1>4, <2>2, <2>5, <2>6, FaultType DEF Charge, TypeOK, TablesOK
<1>5. CASE GetPack(c)
  <2>1. /\ j \in Handler /\ j \in Job /\ j # None /\ j.pc \in DOMAIN Script(j.kind)
        /\ j.item \in Offers
    BY <1>0, <1>5, HandlerAt DEF GetPack
  <2>2. ASSUME NEW p \in PackageInfo, Proceed(c, [j EXCEPT !.pack = Credit(p, j.item)])
        PROVE  job' \in [Channels -> Handler \cup {None}]
    <3> DEFINE k == [j EXCEPT !.pack = Credit(p, j.item)]
    <3>1. k \in Job /\ k.kind = j.kind /\ k.pc = j.pc /\ k.item = j.item
      BY <2>1, CreditType DEF Job
    <3>2. k \in Handler
      BY <2>1, <3>1 DEF Handler
    <3> QED
      BY <2>1, <2>2, <3>1, <3>2, ProceedType
  <2>3. PackageRow \subseteq PackageInfo
    BY DEF PackageRow, PackageInfo, Stored, Counter
  <2>4. package_state[j.user] # None => package_state[j.user] \in PackageInfo
    BY <2>1, <2>3 DEF TypeOK, TablesOK, Job
  <2>5. job' \in [Channels -> Handler \cup {None}]
    BY <1>5, <2>2, <2>4 DEF GetPack
  <2> QED
    BY <1>5, <2>5, FaultType DEF GetPack, TypeOK, TablesOK, tables, history
<1>6. CASE PutPack(c)
  <2>1. j \in Job /\ j # None /\ EntryOf(j) \in Entry
    BY <1>0, <1>6, HandlerAt DEF PutPack
  <2>2. job' \in [Channels -> Handler \cup {None}]
    BY <1>0, <1>6, <2>1, AnswerType DEF PutPack
  <2>3. package_state' \in [Users -> PackageRow \cup {None}]
    BY <1>6, <2>1, PackagesType DEF PutPack, TypeOK, TablesOK, Job
  <2>4. credited' \subseteq Entry /\ missed' \subseteq Entry
    BY <1>6, <2>1 DEF PutPack, Records, CreditedBy, TypeOK
  <2> QED
    BY <1>6, <2>2, <2>3, <2>4, FaultType DEF PutPack, TypeOK, TablesOK
<1>7. CASE SetScore(c)
  <2>1. j \in Handler /\ j \in Job /\ j # None /\ j.pc \in DOMAIN Script(j.kind)
    BY <1>0, <1>7, HandlerAt DEF SetScore
  <2>2. job' \in [Channels -> Handler \cup {None}]
    BY <1>0, <1>7, <2>1, ProceedType, AnswerType DEF SetScore
  <2>3. users' \in [Users -> Int \cup {None}]
    BY <1>7, <2>1, UsersType DEF SetScore, TypeOK, TablesOK, Job
  <2> QED
    BY <1>7, <2>2, <2>3, FaultType DEF SetScore, TypeOK, TablesOK, history
<1>8. CASE SetPack(c)
  <2>1. j \in Job /\ j # None
    BY <1>0, <1>8, HandlerAt DEF SetPack
  <2>2. job' \in [Channels -> Handler \cup {None}]
    BY <1>0, <1>8, <2>1, AnswerType DEF SetPack
  <2>3. package_state' \in [Users -> PackageRow \cup {None}]
    BY <1>8, <2>1, PackagesType DEF SetPack, TypeOK, TablesOK, Job
  <2> QED
    BY <1>8, <2>2, <2>3, FaultType DEF SetPack, TypeOK, TablesOK, history
<1>9. CASE Reply(c)
  BY <1>9 DEF Reply, TypeOK, TablesOK, tables, history
<1> QED
  BY <1>1, <1>2, <1>3, <1>4, <1>5, <1>6, <1>7, <1>8, <1>9 DEF Call, GetRateInfo, GetServiceInfo, CreateUserRate, CreateUserService

LEMMA RegisterType ==
    ASSUME TypeOK, Register
    PROVE  TypeOK'
<1>1. ASSUME NEW u \in Users, CreateUser(u) PROVE TypeOK'
  BY <1>1 DEF CreateUser, TypeOK, TablesOK, history
<1>2. ASSUME NEW u \in Users, CreateEmptyPackage(u) PROVE TypeOK'
  <2>1. Empty \in PackageRow
    BY ConstantsAssumption DEF Empty, PackageRow, Stored
  <2> QED
    BY <1>2, <2>1 DEF CreateEmptyPackage, TypeOK, TablesOK, history
<1> QED
  BY <1>1, <1>2 DEF Register

LEMMA NextType ==
    ASSUME TypeOK, [Next]_vars
    PROVE  TypeOK'
<1>1. CASE Serve
  BY <1>1, BeginsType, CallsType DEF Serve
<1>2. CASE Crash
  BY <1>2 DEF Crash, TypeOK, TablesOK, tables, history
<1>3. CASE UNCHANGED vars
  BY <1>3 DEF vars, TypeOK, TablesOK
<1>4. CASE Register
  BY <1>4, RegisterType
<1> QED
  BY <1>1, <1>2, <1>3, <1>4 DEF Next

LEMMA InitType == Init => TypeOK
<1> SUFFICES ASSUME Init PROVE TypeOK
  OBVIOUS
<1> USE ConstantsAssumption
<1>0. Opening \cup {None} \subseteq Int \cup {None}
  <2>1. Opening \subseteq Int
    OBVIOUS
  <2> QED
    BY ONLY <2>1
<1>1. users \in [Users -> Int \cup {None}]
  <2>1. users \in [Users -> Opening \cup {None}]
    BY DEF Init
  <2> QED
    BY ONLY <1>0, <2>1
<1>2. [mb |-> 0, sms |-> 0] \in PackageRow
  BY DEF PackageRow, Stored
<1>3. package_state \in [Users -> PackageRow \cup {None}]
  BY <1>2 DEF Init
<1> QED
  BY <1>1, <1>3 DEF Init, TypeOK, TablesOK

(* The tables keep the types of their columns, and every handler stays on  *)
(* the script of its function, whatever calls fail and interleave.         *)
THEOREM TypeCorrect == Spec => []TypeOK
BY InitType, NextType, PTL DEF Spec

-----------------------------------------------------------------------------
(* Accounts and connections.                                                *)

Safe ==
    /\ ChargedIsConnected
    /\ CreditedIsConnected
    /\ HandlersInStep

(* Nothing deletes accounts, and what is connected, credited or missed     *)
(* stays so: what another channel relies on still holds.                   *)
Frame ==
    /\ \A u \in Users : users[u] # None => users'[u] # None
    /\ connected \subseteq connected'
    /\ credited \cup missed \subseteq credited' \cup missed'

LEMMA OthersInStep ==
    ASSUME TypeOK, HandlersInStep, Frame, NEW d \in Channels, job'[d] = job[d]
    PROVE  job'[d] # None => InStep(job[d])'
<1> SUFFICES ASSUME job[d] # None PROVE InStep(job[d])'
  OBVIOUS
<1>1. InStep(job[d]) /\ job[d].user \in Users
  BY DEF HandlersInStep, TypeOK, Handler, Job
<1> QED
  BY <1>1 DEF InStep, Frame, EntryOf, Recorded

LEMMA UsersFrame ==
    ASSUME TypeOK, NEW id \in Users, NEW score \in Int
    PROVE  \A u \in Users :
              /\ UpdatedUsers(id, score)[u] = None <=> users[u] = None
              /\ UpdatedUsers(id, score)[u] # users[u] =>
                    u = id /\ UpdatedUsers(id, score)[u] = score
<1>1. score # None
  BY ConstantsAssumption
<1> QED
  BY <1>1 DEF UpdatedUsers, TypeOK, TablesOK

(* What each step has to show: the acting channel is in step afterwards,   *)
(* the other channels by the frame.                                        *)
LEMMA AllInStep ==
    ASSUME TypeOK, HandlersInStep, Frame, NEW c \in Channels,
           job'[c] # None => InStep(job[c])',
           \A d \in Channels \ {c} : job'[d] = job[d]
    PROVE  HandlersInStep'
BY OthersInStep DEF HandlersInStep

LEMMA BeginSafe ==
    ASSUME TypeOK, Safe, NEW c \in Channels, NEW kind \in Kinds, NEW step \in {"getOffer", "getUser"},
           NEW user, NEW item, NEW score \in Int, NEW pack,
           kind \in Payments => step = "getOffer",
           Begin(c, kind, step, user, item, score, pack)
    PROVE  Safe'
<1>1. Frame /\ ChargedIsConnected' /\ CreditedIsConnected'
  BY DEF Begin, tables, history, Frame, Safe, ChargedIsConnected,
         CreditedIsConnected
<1>2. /\ job'[c] = [kind |-> kind, pc |-> step, req |-> requests, user |-> user,
                    item |-> item, uid |-> user, score |-> score, isRow |-> FALSE, pack |-> pack,
                    code |-> "status_internal_error", text |-> "none"]
      /\ \A d \in Channels \ {c} : job'[d] = job[d]
  BY DEF Begin, TypeOK
<1>3. InStep(job[c])'
  BY <1>2 DEF InStep
<1>4. HandlersInStep'
  BY <1>1, <1>2, <1>3, AllInStep DEF Safe
<1> QED
  BY <1>1, <1>4 DEF Safe

LEMMA BeginsSafe ==
    ASSUME TypeOK, Safe,
           \/ \E c \in Clients : RatePaymentRR(c) \/ ServicePaymentRR(c)
           \/ \E c \in Admins :
                 AdminRateChangeRR(c) \/ AdminServiceChangeRR(c) \/ UpdateUserPackage(c)
    PROVE  Safe'
<1>0. /\ Clients \subseteq Channels /\ Admins \subseteq Channels
      /\ \A s \in Scores : s \in Int
  BY ConstantsAssumption DEF Channels
<1>1. ASSUME NEW c \in Clients, RatePaymentRR(c) \/ ServicePaymentRR(c) PROVE Safe'
  BY <1>0, <1>1, BeginSafe DEF RatePaymentRR, ServicePaymentRR, Kinds, Payments
<1>2. ASSUME NEW c \in Admins, AdminRateChangeRR(c) \/ AdminServiceChangeRR(c) PROVE Safe'
  <2>1. PICK kind \in Grants, u \in Users, i \in Offers :
           Begin(c, kind, "getOffer", u, i, 0, Empty)
    BY <1>2 DEF AdminRateChangeRR, AdminServiceChangeRR, Grants, Offers
  <2>2. kind \in Kinds /\ c \in Channels
    BY <1>0 DEF Kinds
  <2> QED
    BY <2>1, <2>2, BeginSafe
<1>3. ASSUME NEW c \in Admins, UpdateUserPackage(c) PROVE Safe'
  BY <1>0, <1>3, BeginSafe DEF UpdateUserPackage, Kinds, Payments
<1> QED
  BY <1>1, <1>2, <1>3

(* An answer other than success leaves nothing to rely on.                 *)
LEMMA FailureInStep ==
    ASSUME TypeOK, HandlersInStep, NEW c \in Channels, job[c] # None,
           NEW code \in Codes, NEW text \in Texts \ {"success"}, Answer(c, code, text)
    PROVE  InStep(job[c])'
<1>0. text \in Texts /\ text # "success"
  OBVIOUS
<1>1. job'[c] = [job[c] EXCEPT !.pc = "reply", !.code = code, !.text = text]
  BY DEF Answer, TypeOK
<1>2. job[c] \in Job /\ InStep(job[c])
  BY DEF TypeOK, Handler, HandlersInStep
<1>3. /\ job'[c].pc = "reply" /\ job'[c].text = text
      /\ job'[c].isRow = job[c].isRow /\ job'[c].uid = job[c].uid
      /\ job'[c].user = job[c].user
  BY <1>1, <1>2 DEF Job
<1> QED
  BY <1>0, <1>2, <1>3 DEF InStep

LEMMA CallsSafe ==
    ASSUME TypeOK, Safe, NEW c \in Channels, Call(c)
    PROVE  Safe'
<1> USE DEF Safe
<1> DEFINE j == job[c]
<1>0. /\ Codes = {"status_success", "status_internal_error", "status_does_not_exist"}
      /\ Texts = {"none", "success", "poor", "unknown", "wrong"}
      /\ {"getOffer", "getUser", "connect", "charge", "getPack", "putPack",
          "setScore", "setPack", "reply"} = Steps
  BY DEF Codes, Texts, Steps
<1>a. j # None => InStep(j) /\ j \in Handler /\ j \in Job /\ j.kind \in Kinds
  BY DEF HandlersInStep, TypeOK, Handler, Job
<1>1. CASE GetOffer(c)
  <2>1. /\ j # None /\ j.pc = "getOffer" /\ j.pc \in DOMAIN Script(j.kind)
        /\ j.kind # "adminUpdateUserPackage"
    BY <1>0, <1>1, <1>a, HandlerAt, ScriptShape DEF GetOffer
  <2>2. ASSUME Proceed(c, j) PROVE InStep(job[c])'
    <3>1. job'[c] = [j EXCEPT !.pc = Script(j.kind)[j.pc]]
      BY <1>a, <2>1, <2>2, ProceedType
    <3>2. /\ job'[c].pc \in {"getUser", "connect"} /\ job'[c].kind = j.kind
          /\ j.kind \in Payments => job'[c].pc = "getUser"
      BY <1>a, <2>1, <3>1, ScriptOrder DEF Job
    <3> QED
      BY <1>a, <2>1, <3>1, <3>2 DEF InStep, Payments
  <2>3. InStep(job[c])'
    BY <1>0, <1>1, <2>1, <2>2, FailureInStep DEF GetOffer
  <2>4. \A d \in Channels \ {c} : job'[d] = job[d]
    BY <1>0, <1>1, <1>a, <2>1, ProceedType, AnswerType DEF GetOffer
  <2>5. UNCHANGED <<tables, history>>
    BY <1>1 DEF GetOffer
  <2>6. Frame /\ ChargedIsConnected' /\ CreditedIsConnected'
    BY <2>5 DEF Frame, tables, history, ChargedIsConnected, CreditedIsConnected
  <2> QED
    BY <2>3, <2>4, <2>6, AllInStep
<1>2. CASE GetUser(c)
  <2>1. /\ j # None /\ j.pc = "getUser" /\ j.pc \in DOMAIN Script(j.kind)
        /\ j.kind # "adminUserServiceChange"
    BY <1>0, <1>2, <1>a, HandlerAt, ScriptShape DEF GetUser
  <2>2. ASSUME NEW info \in UserInfo(j.user), ~ TooPoor(j, info), Proceed(c, WithUser(j, info))
        PROVE  /\ InStep(job[c])'
               /\ \A d \in Channels \ {c} : job'[d] = job[d]
    <3> DEFINE k == WithUser(j, info)
    <3>1. info.user_id \in Users /\ info.score \in Int /\ info.isRow \in BOOLEAN
      BY <1>a, <2>1, UserInfoType DEF Job
    <3>2. k \in Job /\ k.kind = j.kind /\ k.pc = j.pc /\ k.item = j.item /\ k.user = j.user
      BY <1>a, <2>1, <3>1 DEF WithUser, Job
    <3>3. k \in Handler
      BY <1>a, <2>1, <3>2 DEF Handler
    <3>4. /\ job'[c] = [k EXCEPT !.pc = Script(k.kind)[k.pc]]
          /\ \A d \in Channels \ {c} : job'[d] = job[d]
      BY <2>1, <2>2, <3>2, <3>3, ProceedType
    <3>5. /\ job'[c].pc \in {"connect", "setScore"} /\ job'[c].kind = j.kind
          /\ job'[c].score = k.score /\ job'[c].uid = k.uid /\ job'[c].isRow = k.isRow
          /\ job'[c].user = j.user /\ job'[c].item = j.item
      BY <1>a, <2>1, <3>2, <3>4, ScriptOrder DEF Job
    <3>6. ASSUME j.kind \in Payments
          PROVE  k.score >= Cost[j.item]
      <4>1. k.score = info.score
        BY <1>a, <2>1, <3>6 DEF WithUser, Payments, Job
      <4>2. j.item \in Offers /\ Cost[j.item] \in Int
        BY <1>a, <2>1, <3>6, ConstantsAssumption DEF Handler, Job, Payments
      <4>3. info.score >= Cost[j.item]
        BY <2>2, <3>1, <3>6, <4>2 DEF TooPoor
      <4> QED
        BY <4>1, <4>3
    <3>7. k.isRow => k.uid = j.user
      <4>1. k.isRow = info.isRow /\ k.uid = info.user_id
        BY <1>a, <2>1 DEF WithUser, Job
      <4>2. info.isRow => info.user_id = j.user
        BY <1>a, <2>1, UserInfoType DEF Job
      <4> QED
        BY <4>1, <4>2
    <3>8. InStep(job[c])'
      BY <1>a, <2>1, <3>5, <3>6, <3>7 DEF InStep
    <3> QED
      BY <3>4, <3>8
  <2>3. InStep(job[c])'
    BY <1>0, <1>2, <2>1, <2>2, FailureInStep DEF GetUser
  <2>4. \A d \in Channels \ {c} : job'[d] = job[d]
    BY <1>0, <1>2, <2>1, <2>2, AnswerType DEF GetUser
  <2>5. UNCHANGED <<tables, history>>
    BY <1>2 DEF GetUser
  <2>6. Frame /\ ChargedIsConnected' /\ CreditedIsConnected'
    BY <2>5 DEF Frame, tables, history, ChargedIsConnected, CreditedIsConnected
  <2> QED
    BY <2>3, <2>4, <2>6, AllInStep
<1>3. CASE Connect(c)
  <2>1. /\ j # None /\ j.pc = "connect" /\ j.pc \in DOMAIN Script(j.kind)
        /\ j.kind # "adminUpdateUserPackage"
    BY <1>0, <1>3, <1>a, HandlerAt, ScriptShape DEF Connect
  <2>2. ASSUME Proceed(c, j), MayConnect(j.user, j.item), connected' = connected \cup {EntryOf(j)}
        PROVE  InStep(job[c])'
    <3>1. job'[c] = [j EXCEPT !.pc = Script(j.kind)[j.pc]]
      BY <1>a, <2>1, <2>2, ProceedType
    <3>2. /\ job'[c].pc \in {"charge", "getPack"} /\ job'[c].kind = j.kind
          /\ job'[c].score = j.score /\ job'[c].uid = j.uid /\ job'[c].req = j.req
          /\ job'[c].user = j.user /\ job'[c].item = j.item /\ job'[c].isRow = j.isRow
      BY <1>a, <2>1, <3>1, ScriptOrder DEF Job
    <3>3. EntryOf(job'[c]) = EntryOf(j) /\ users' = users
      BY <1>3, <3>2 DEF EntryOf, Connect
    <3>4. EntryOf(job'[c]) \in connected' /\ users'[job'[c].user] # None
      BY <2>2, <3>2, <3>3 DEF MayConnect
    <3> QED
      BY <1>a, <2>1, <3>2, <3>3, <3>4 DEF InStep, EntryOf
  <2>3. InStep(job[c])'
    BY <1>0, <1>3, <2>1, <2>2, FailureInStep DEF Connect
  <2>4. \A d \in Channels \ {c} : job'[d] = job[d]
    BY <1>0, <1>3, <1>a, <2>1, ProceedType, AnswerType DEF Connect
  <2>5. UNCHANGED <<users, history>> /\ connected \subseteq connected'
    BY <1>3 DEF Connect
  <2>6. Frame /\ ChargedIsConnected' /\ CreditedIsConnected'
    BY <2>5 DEF Frame, history, ChargedIsConnected, CreditedIsConnected
  <2> QED
    BY <2>3, <2>4, <2>6, AllInStep
<1>4. CASE Charge(c)
  <2>1. /\ j # None /\ j.pc = "charge" /\ j.pc \in DOMAIN Script(j.kind)
        /\ j.kind \in Payments /\ j.item \in Offers
    BY <1>0, <1>4, <1>a, HandlerAt DEF Charge
  <2>2. /\ EntryOf(j) \in connected /\ users[j.user] # None
        /\ j.isRow => j.uid = j.user
    BY <1>a, <2>1 DEF InStep
  <2>3. /\ job'[c] = [j EXCEPT !.pc = Script(j.kind)[j.pc]]
        /\ \A d \in Channels \ {c} : job'[d] = job[d]
    BY <1>4, <1>a, <2>1, ProceedType DEF Charge
  <2>4. /\ job'[c].pc = "getPack" /\ job'[c].kind = j.kind /\ job'[c].req = j.req
        /\ job'[c].user = j.user /\ job'[c].item = j.item
        /\ job'[c].uid = j.uid /\ job'[c].isRow = j.isRow
    BY <1>a, <2>1, <2>3, ScriptOrder DEF Job
  <2>5. users' = UpdatedUsers(j.uid, j.score - Cost[j.item]) \/ users' = users
    BY <1>4 DEF Charge
  <2>6. \A u \in Users : users'[u] = None <=> users[u] = None
    <3>1. j.uid \in Users /\ j.score - Cost[j.item] \in Int
      BY <1>a, <2>1, ConstantsAssumption DEF Job
    <3> QED
      BY <2>5, <3>1, UsersFrame
  <2>7. Frame
    BY <1>4, <2>6 DEF Charge, Frame
  <2>8. \A p \in ChargedBy(j) : EntryOf(p) \in connected /\ (p.isRow => p.uid = p.user)
    BY <2>2 DEF ChargedBy, ChargeOf, EntryOf
  <2>9. ChargedIsConnected' /\ CreditedIsConnected'
    BY <1>4, <2>8 DEF Charge, ChargedIsConnected, CreditedIsConnected, EntryOf
  <2>10. InStep(job[c])'
    <3>1. EntryOf(job'[c]) = EntryOf(j) /\ connected' = connected
      BY <1>4, <2>4 DEF EntryOf, Charge
    <3>2. users'[j.user] # None
      BY <1>a, <2>1, <2>2, <2>6 DEF Job
    <3> QED
      BY <2>1, <2>2, <2>4, <3>1, <3>2 DEF InStep, EntryOf, Payments
  <2> QED
    BY <2>3, <2>7, <2>9, <2>10, AllInStep
<1>5. CASE GetPack(c)
  <2>1. /\ j # None /\ j.pc = "getPack" /\ j.pc \in DOMAIN Script(j.kind)
        /\ j.item \in Offers /\ j.kind # "adminUpdateUserPackage"
    BY <1>0, <1>5, <1>a, HandlerAt, ScriptShape DEF GetPack
  <2>2. ASSUME NEW p \in PackageInfo, Proceed(c, [j EXCEPT !.pack = Credit(p, j.item)])
        PROVE  /\ InStep(job[c])'
               /\ \A d \in Channels \ {c} : job'[d] = job[d]
    <3> DEFINE k == [j EXCEPT !.pack = Credit(p, j.item)]
    <3>1. /\ k \in Job /\ k.kind = j.kind /\ k.pc = j.pc /\ k.item = j.item
          /\ k.user = j.user /\ k.req = j.req /\ k.uid = j.uid /\ k.isRow = j.isRow
      BY <1>a, <2>1, CreditType DEF Job
    <3>2. k \in Handler
      BY <1>a, <2>1, <3>1 DEF Handler
    <3>3. /\ job'[c] = [k EXCEPT !.pc = Script(k.kind)[k.pc]]
          /\ \A d \in Channels \ {c} : job'[d] = job[d]
      BY <2>1, <2>2, <3>1, <3>2, ProceedType
    <3>4. /\ job'[c].pc = "putPack" /\ job'[c].kind = j.kind /\ job'[c].req = j.req
          /\ job'[c].user = j.user /\ job'[c].item = j.item
          /\ job'[c].uid = j.uid /\ job'[c].isRow = j.isRow
      BY <1>a, <2>1, <3>1, <3>3, ScriptOrder DEF Job
    <3>5. EntryOf(job'[c]) = EntryOf(j) /\ connected' = connected /\ users' = users
      BY <1>5, <3>4 DEF EntryOf, GetPack, tables
    <3>6. EntryOf(j) \in connected /\ users[j.user] # None /\ (j.isRow => j.uid = j.user)
      BY <1>a, <2>1 DEF InStep
    <3> QED
      BY <2>1, <3>3, <3>4, <3>5, <3>6 DEF InStep, EntryOf
  <2>3. PackageRow \subseteq PackageInfo /\ StrayPacks \subseteq PackageInfo
    BY ConstantsAssumption DEF PackageRow, PackageInfo, Stored, Counter
  <2>4. package_state[j.user] # None => package_state[j.user] \in PackageInfo
    BY <1>a, <2>1, <2>3 DEF TypeOK, TablesOK, Job
  <2>5. InStep(job[c])' /\ \A d \in Channels \ {c} : job'[d] = job[d]
    BY <1>5, <2>2, <2>3, <2>4 DEF GetPack
  <2>6. UNCHANGED <<tables, history>>
    BY <1>5 DEF GetPack
  <2>7. Frame /\ ChargedIsConnected' /\ CreditedIsConnected'
    BY <2>6 DEF Frame, tables, history, ChargedIsConnected, CreditedIsConnected
  <2> QED
    BY <2>5, <2>7, AllInStep
<1>6. CASE PutPack(c)
  <2>1. j # None /\ j.pc = "putPack"
    BY <1>0, <1>6, HandlerAt DEF PutPack
  <2>2. EntryOf(j) \in connected /\ (j.isRow => j.uid = j.user)
    BY <1>a, <2>1 DEF InStep
  <2>3. ASSUME Answer(c, "status_success", "success"), Records(j)
        PROVE  InStep(job[c])'
    <3>1. job'[c] = [j EXCEPT !.pc = "reply", !.code = "status_success", !.text = "success"]
      BY <1>0, <2>1, <2>3, AnswerType
    <3>2. /\ job'[c].pc = "reply" /\ job'[c].kind = j.kind /\ job'[c].req = j.req
          /\ job'[c].user = j.user /\ job'[c].item = j.item
          /\ job'[c].uid = j.uid /\ job'[c].isRow = j.isRow
      BY <1>a, <2>1, <3>1 DEF Job
    <3>3. EntryOf(job'[c]) = EntryOf(j) /\ connected' = connected
      BY <1>6, <3>2 DEF EntryOf, PutPack
    <3>4. EntryOf(j) \in credited' \cup missed'
      BY <2>3 DEF Records
    <3> QED
      BY <2>2, <3>2, <3>3, <3>4 DEF InStep, EntryOf, Recorded
  <2>4. InStep(job[c])'
    BY <1>0, <1>6, <2>1, <2>3, FailureInStep DEF PutPack
  <2>5. \A d \in Channels \ {c} : job'[d] = job[d]
    BY <1>0, <1>6, <2>1, AnswerType DEF PutPack
  <2>6. /\ UNCHANGED <<users, connected, charged>>
        /\ Records(j) \/ UNCHANGED <<credited, missed>>
    BY <1>6 DEF PutPack
  <2>7. Frame
    BY <2>6 DEF Frame, Records
  <2>8. ChargedIsConnected' /\ CreditedIsConnected'
    BY <2>2, <2>6 DEF ChargedIsConnected, CreditedIsConnected, Records, CreditedBy, EntryOf
  <2> QED
    BY <2>4, <2>5, <2>7, <2>8, AllInStep
<1>7. CASE SetScore(c)
  <2>1. /\ j # None /\ j.pc = "setScore" /\ j.pc \in DOMAIN Script(j.kind)
        /\ j.kind = "adminUpdateUserPackage"
    BY <1>0, <1>7, <1>a, HandlerAt DEF SetScore
  <2>2. j.score \in Int /\ j.uid \in Users /\ (j.isRow => j.uid = j.user)
    BY <1>a, <2>1 DEF InStep, Job
  <2>3. ASSUME Proceed(c, j) PROVE InStep(job[c])'
    <3>1. job'[c] = [j EXCEPT !.pc = Script(j.kind)[j.pc]]
      BY <1>a, <2>1, <2>3, ProceedType
    <3>2. /\ job'[c].pc = "setPack" /\ job'[c].kind = j.kind
          /\ job'[c].user = j.user /\ job'[c].uid = j.uid /\ job'[c].isRow = j.isRow
      BY <1>a, <2>1, <3>1, ScriptOrder DEF Job
    <3> QED
      BY <2>1, <2>2, <3>2 DEF InStep, Payments
  <2>4. InStep(job[c])'
    BY <1>0, <1>7, <2>1, <2>3, FailureInStep DEF SetScore
  <2>5. \A d \in Channels \ {c} : job'[d] = job[d]
    BY <1>0, <1>7, <1>a, <2>1, ProceedType, AnswerType DEF SetScore
  <2>6. users' = UpdatedUsers(j.uid, j.score) \/ users' = users
    BY <1>7 DEF SetScore
  <2>7. \A u \in Users : users'[u] = None <=> users[u] = None
    BY <2>2, <2>6, UsersFrame
  <2>8. Frame /\ ChargedIsConnected' /\ CreditedIsConnected'
    BY <1>7, <2>7 DEF SetScore, Frame, history, ChargedIsConnected, CreditedIsConnected
  <2> QED
    BY <2>4, <2>5, <2>7, <2>8, AllInStep
<1>8. CASE SetPack(c)
  <2>1. j # None /\ j.pc = "setPack" /\ j.kind = "adminUpdateUserPackage" /\ j.item = None
    BY <1>0, <1>8, <1>a, HandlerAt DEF SetPack, Handler
  <2>2. ASSUME Answer(c, "status_success", "success") PROVE InStep(job[c])'
    <3>1. job'[c] = [j EXCEPT !.pc = "reply", !.code = "status_success", !.text = "success"]
      BY <1>0, <2>1, <2>2, AnswerType
    <3>2. /\ job'[c].pc = "reply" /\ job'[c].kind = j.kind
          /\ job'[c].item = None /\ job'[c].user = j.user
          /\ job'[c].uid = j.uid /\ job'[c].isRow = j.isRow
      BY <1>a, <2>1, <3>1 DEF Job
    <3> QED
      BY <1>a, <2>1, <3>2 DEF InStep
  <2>3. InStep(job[c])'
    BY <1>0, <1>8, <2>1, <2>2, FailureInStep DEF SetPack
  <2>4. \A d \in Channels \ {c} : job'[d] = job[d]
    BY <1>0, <1>8, <2>1, AnswerType DEF SetPack
  <2>5. UNCHANGED <<users, connected, history>>
    BY <1>8 DEF SetPack
  <2>6. Frame /\ ChargedIsConnected' /\ CreditedIsConnected'
    BY <2>5 DEF Frame, history, ChargedIsConnected, CreditedIsConnected
  <2> QED
    BY <2>3, <2>4, <2>6, AllInStep
<1>9. CASE Reply(c)
  <2>1. job'[c] = None /\ \A d \in Channels \ {c} : job'[d] = job[d]
    BY <1>9 DEF Reply, TypeOK
  <2>2. UNCHANGED <<tables, history>>
    BY <1>9 DEF Reply
  <2>3. Frame /\ ChargedIsConnected' /\ CreditedIsConnected'
    BY <2>2 DEF Frame, tables, history, ChargedIsConnected, CreditedIsConnected
  <2> QED
    BY <2>1, <2>3, AllInStep
<1> QED
  BY <1>1, <1>2, <1>3, <1>4, <1>5, <1>6, <1>7, <1>8, <1>9 DEF Call, GetRateInfo, GetServiceInfo, CreateUserRate, CreateUserService

LEMMA NextSafe ==
    ASSUME TypeOK, Safe, [Next]_vars
    PROVE  Safe'
<1>1. CASE Serve
  BY <1>1, BeginsSafe, CallsSafe DEF Serve
<1>2. CASE Crash
  <2>1. \A c \in Channels : job'[c] = None
    BY <1>2 DEF Crash
  <2> QED
    BY <1>2, <2>1 DEF Crash, Safe, tables, history, ChargedIsConnected,
                      CreditedIsConnected, HandlersInStep
<1>3. CASE UNCHANGED vars
  BY <1>3 DEF vars, Safe, ChargedIsConnected, CreditedIsConnected,
              HandlersInStep, InStep, Recorded
<1>4. CASE Register
  <2>1. UNCHANGED <<connected, job, history>>
    BY <1>4 DEF Register, CreateUser, CreateEmptyPackage
  <2>2. \A u \in Users : users[u] # None => users'[u] # None
    BY <1>4, ConstantsAssumption DEF Register, CreateUser, CreateEmptyPackage, TypeOK, TablesOK
  <2>3. Frame /\ ChargedIsConnected' /\ CreditedIsConnected'
    BY <2>1, <2>2 DEF Frame, history, Safe, ChargedIsConnected, CreditedIsConnected
  <2>4. HandlersInStep'
    BY <2>1, <2>3, OthersInStep DEF Safe, HandlersInStep
  <2> QED
    BY <2>3, <2>4 DEF Safe
<1> QED
  BY <1>1, <1>2, <1>3, <1>4 DEF Next

LEMMA InitSafe == Init => Safe
BY DEF Init, Safe, ChargedIsConnected, CreditedIsConnected, HandlersInStep

LEMMA SafeAlways == Spec => []Safe
<1>1. Init => TypeOK /\ Safe
  BY InitType, InitSafe
<1>2. TypeOK /\ Safe /\ [Next]_vars => (TypeOK /\ Safe)'
  BY NextType, NextSafe
<1> QED
  BY <1>1, <1>2, PTL DEF Spec

(* What a handler found out in an earlier call still holds when it acts on *)
(* it: the row of its connection, the account, the comparison with the     *)
(* price, whatever other handlers and registrations did in between.        *)
THEOREM HandlersStayInStep == Spec => []HandlersInStep
<1>1. Safe => HandlersInStep
  BY DEF Safe
<1> QED
  BY <1>1, SafeAlways, PTL

(* Every charge was made for a connection on record, and hit the payer's   *)
(* own account unless that account did not exist when it was looked for.   *)
THEOREM ChargesAreConnected == Spec => []ChargedIsConnected
<1>1. Safe => ChargedIsConnected
  BY DEF Safe
<1> QED
  BY <1>1, SafeAlways, PTL

(* Every package update by an offer has its connection on record.          *)
THEOREM CreditsAreConnected == Spec => []CreditedIsConnected
<1>1. Safe => CreditedIsConnected
  BY DEF Safe
<1> QED
  BY <1>1, SafeAlways, PTL

(* "Success!" is true of the connection, and of the package's update unless *)
(* the user has no package.                                                *)
THEOREM SuccessesAreConnected == Spec => []SuccessIsConnected
<1>1. Safe => SuccessIsConnected
  BY DEF Safe, HandlersInStep, InStep, SuccessIsConnected, At
<1> QED
  BY <1>1, SafeAlways, PTL

-----------------------------------------------------------------------------
(* Refusals leave no trace.                                                 *)

(* After a step, a request without a trace is one that had none before and *)
(* inserted nothing; one that has an answer says something.                *)
StaysUntraced(c) ==
    /\ job'[c].req = job[c].req
    /\ job'[c].pc = "reply" => job'[c].text # "none"
    /\ Untraced(job'[c]) => Untraced(job[c]) /\ connected' = connected

LEMMA AnswerTrace ==
    ASSUME TypeOK, NEW c \in Channels, job[c] # None, NEW code \in Codes,
           NEW text \in Texts, text # "none", Answer(c, code, text),
           \/ text \notin {"poor", "unknown"}
           \/ Untraced(job[c]) /\ connected' = connected
    PROVE  StaysUntraced(c)
<1>1. job'[c] = [job[c] EXCEPT !.pc = "reply", !.code = code, !.text = text]
  BY DEF Answer, TypeOK
<1>2. job[c] \in Job
  BY DEF TypeOK, Handler
<1>3. job'[c].pc = "reply" /\ job'[c].text = text /\ job'[c].req = job[c].req
  BY <1>1, <1>2 DEF Job
<1> QED
  BY <1>3 DEF StaysUntraced, Untraced

LEMMA ProceedTrace ==
    ASSUME TypeOK, NEW c \in Channels, job[c] # None, NEW j \in Handler,
           j.pc \in DOMAIN Script(j.kind), j.req = job[c].req, Proceed(c, j),
           \/ Script(j.kind)[j.pc] \notin {"getOffer", "getUser", "connect"}
           \/ Untraced(job[c]) /\ connected' = connected
    PROVE  StaysUntraced(c)
<1>1. job'[c] = [j EXCEPT !.pc = Script(j.kind)[j.pc]]
  BY ProceedType
<1>2. j \in Job /\ j.kind \in Kinds
  BY DEF Handler, Job
<1>3. job'[c].pc = Script(j.kind)[j.pc] /\ job'[c].req = job[c].req
  BY <1>1, <1>2 DEF Job
<1>4. Script(j.kind)[j.pc] # "reply"
  BY <1>2, ScriptStep, ScriptShape DEF LastStep
<1> QED
  BY <1>3, <1>4 DEF StaysUntraced, Untraced

LEMMA CallTrace ==
    ASSUME TypeOK, NEW c \in Channels, Call(c)
    PROVE  /\ job[c] # None /\ requests' = requests
           /\ \A d \in Channels \ {c} : job'[d] = job[d]
           /\ connected' \subseteq connected \cup {EntryOf(job[c])}
           /\ job'[c] # None => StaysUntraced(c)
<1> DEFINE j == job[c]
<1>0. /\ Codes = {"status_success", "status_internal_error", "status_does_not_exist"}
      /\ Texts = {"none", "success", "poor", "unknown", "wrong"}
      /\ {"getOffer", "getUser", "connect", "charge", "getPack", "putPack",
          "setScore", "setPack", "reply"} = Steps
  BY DEF Codes, Texts, Steps
<1>a. j # None => j \in Handler /\ j \in Job /\ j.kind \in Kinds
  BY DEF TypeOK, Handler, Job
<1>1. CASE GetOffer(c)
  <2>1. j # None /\ j.pc = "getOffer" /\ j.pc \in DOMAIN Script(j.kind)
    BY <1>0, <1>1, HandlerAt DEF GetOffer
  <2>2. Untraced(j) /\ connected' = connected /\ requests' = requests
    BY <1>1, <2>1 DEF Untraced, GetOffer, tables
  <2>3. StaysUntraced(c) /\ \A d \in Channels \ {c} : job'[d] = job[d]
    BY <1>0, <1>1, <1>a, <2>1, <2>2, ProceedTrace, AnswerTrace, ProceedType, AnswerType DEF GetOffer
  <2> QED
    BY <2>1, <2>2, <2>3
<1>2. CASE GetUser(c)
  <2>1. j # None /\ j.pc = "getUser" /\ j.pc \in DOMAIN Script(j.kind)
    BY <1>0, <1>2, HandlerAt DEF GetUser
  <2>2. Untraced(j) /\ connected' = connected /\ requests' = requests
    BY <1>2, <2>1 DEF Untraced, GetUser, tables
  <2>3. ASSUME NEW info \in UserInfo(j.user), Proceed(c, WithUser(j, info))
        PROVE  StaysUntraced(c) /\ \A d \in Channels \ {c} : job'[d] = job[d]
    <3>1. info.user_id \in Users /\ info.score \in Int /\ info.isRow \in BOOLEAN
      BY <1>a, <2>1, UserInfoType DEF Job
    <3>2. /\ WithUser(j, info) \in Job /\ WithUser(j, info).kind = j.kind
          /\ WithUser(j, info).pc = j.pc /\ WithUser(j, info).item = j.item
          /\ WithUser(j, info).req = j.req
      BY <1>a, <2>1, <3>1 DEF WithUser, Job
    <3>3. WithUser(j, info) \in Handler
      BY <1>a, <2>1, <3>2 DEF Handler
    <3> QED
      BY <2>1, <2>2, <2>3, <3>2, <3>3, ProceedTrace, ProceedType
  <2>4. StaysUntraced(c) /\ \A d \in Channels \ {c} : job'[d] = job[d]
    BY <1>0, <1>2, <2>1, <2>2, <2>3, AnswerTrace, AnswerType DEF GetUser
  <2> QED
    BY <2>1, <2>2, <2>4
<1>3. CASE Connect(c)
  <2>1. /\ j # None /\ j.pc = "connect" /\ j.pc \in DOMAIN Script(j.kind)
        /\ j.kind # "adminUpdateUserPackage"
    BY <1>0, <1>3, <1>a, HandlerAt, ScriptShape DEF Connect
  <2>2. Script(j.kind)[j.pc] \in {"charge", "getPack"}
    BY <1>a, <2>1, ScriptOrder
  <2>3. StaysUntraced(c) /\ \A d \in Channels \ {c} : job'[d] = job[d]
    BY <1>0, <1>3, <1>a, <2>1, <2>2, ProceedTrace, AnswerTrace, ProceedType, AnswerType DEF Connect
  <2> QED
    BY <1>3, <2>1, <2>3 DEF Connect
<1>4. CASE Charge(c)
  <2>1. j # None /\ j.pc = "charge" /\ j.pc \in DOMAIN Script(j.kind) /\ j.kind \in Payments
    BY <1>0, <1>4, HandlerAt DEF Charge
  <2>2. Script(j.kind)[j.pc] = "getPack"
    BY <1>a, <2>1, ScriptOrder
  <2>3. StaysUntraced(c) /\ \A d \in Channels \ {c} : job'[d] = job[d]
    BY <1>4, <1>a, <2>1, <2>2, ProceedTrace, ProceedType DEF Charge
  <2> QED
    BY <1>4, <2>1, <2>3 DEF Charge
<1>5. CASE GetPack(c)
  <2>1. /\ j # None /\ j.pc = "getPack" /\ j.pc \in DOMAIN Script(j.kind)
        /\ j.item \in Offers /\ j.kind # "adminUpdateUserPackage"
    BY <1>0, <1>5, <1>a, HandlerAt, ScriptShape DEF GetPack
  <2>2. Script(j.kind)[j.pc] = "putPack"
    BY <1>a, <2>1, ScriptOrder
  <2>3. ASSUME NEW p \in PackageInfo, Proceed(c, [j EXCEPT !.pack = Credit(p, j.item)])
        PROVE  StaysUntraced(c) /\ \A d \in Channels \ {c} : job'[d] = job[d]
    <3> DEFINE k == [j EXCEPT !.pack = Credit(p, j.item)]
    <3>1. /\ k \in Job /\ k.kind = j.kind /\ k.pc = j.pc /\ k.item = j.item
          /\ k.req = j.req
      BY <1>a, <2>1, CreditType DEF Job
    <3>2. k \in Handler
      BY <1>a, <2>1, <3>1 DEF Handler
    <3> QED
      BY <2>1, <2>2, <2>3, <3>1, <3>2, ProceedTrace, ProceedType
  <2>4. PackageRow \subseteq PackageInfo /\ StrayPacks \subseteq PackageInfo
    BY ConstantsAssumption DEF PackageRow, PackageInfo, Stored, Counter
  <2>5. package_state[j.user] # None => package_state[j.user] \in PackageInfo
    BY <1>a, <2>1, <2>4 DEF TypeOK, TablesOK, Job
  <2>6. StaysUntraced(c) /\ \A d \in Channels \ {c} : job'[d] = job[d]
    BY <1>5, <2>3, <2>4, <2>5 DEF GetPack
  <2> QED
    BY <1>5, <2>1, <2>6 DEF GetPack, tables
<1>6. CASE PutPack(c)
  <2>1. j # None
    BY <1>6 DEF PutPack, At
  <2> QED
    BY <1>0, <1>6, <2>1, AnswerTrace, AnswerType DEF PutPack
<1>7. CASE SetScore(c)
  <2>1. /\ j # None /\ j.pc = "setScore" /\ j.pc \in DOMAIN Script(j.kind)
        /\ j.kind = "adminUpdateUserPackage"
    BY <1>0, <1>7, <1>a, HandlerAt DEF SetScore
  <2>2. Script(j.kind)[j.pc] = "setPack"
    BY <1>a, <2>1, ScriptOrder
  <2>3. StaysUntraced(c) /\ \A d \in Channels \ {c} : job'[d] = job[d]
    BY <1>0, <1>7, <1>a, <2>1, <2>2, ProceedTrace, AnswerTrace, ProceedType, AnswerType DEF SetScore
  <2> QED
    BY <1>7, <2>1, <2>3 DEF SetScore
<1>8. CASE SetPack(c)
  <2>1. j # None
    BY <1>8 DEF SetPack, At
  <2> QED
    BY <1>0, <1>8, <2>1, AnswerTrace, AnswerType DEF SetPack
<1>9. CASE Reply(c)
  BY <1>9 DEF Reply, At, TypeOK, tables
<1> QED
  BY <1>1, <1>2, <1>3, <1>4, <1>5, <1>6, <1>7, <1>8, <1>9 DEF Call, GetRateInfo, GetServiceInfo, CreateUserRate, CreateUserService

LEMMA CallApart ==
    ASSUME TypeOK, RequestsApart, NEW c \in Channels, Call(c)
    PROVE  RequestsApart'
<1>1. /\ job[c] # None /\ requests' = requests
      /\ \A d \in Channels \ {c} : job'[d] = job[d]
      /\ connected' \subseteq connected \cup {EntryOf(job[c])}
      /\ job'[c] # None => StaysUntraced(c)
  BY CallTrace
<1>2. EntryOf(job[c]).req = job[c].req
  BY DEF EntryOf
<1>3. \A e \in connected' : e.req < requests'
  BY <1>1, <1>2 DEF RequestsApart
<1>4. ASSUME NEW d \in Channels, job'[d] # None
      PROVE  job[d] # None /\ job'[d].req = job[d].req
  BY <1>1, <1>4 DEF StaysUntraced
<1>5. ASSUME NEW d \in Channels, job'[d] # None, Untraced(job'[d]), NEW e \in connected'
      PROVE  e.req # job'[d].req
  <2>1. CASE d = c
    BY <1>1, <1>5, <2>1 DEF StaysUntraced, RequestsApart
  <2>2. CASE d # c
    <3>1. job'[d] = job[d] /\ Untraced(job[d]) /\ job[d] # None
      BY <1>1, <1>5, <2>2
    <3>2. job[d].req # job[c].req
      BY <1>1, <2>2, <3>1 DEF RequestsApart
    <3> QED
      BY <1>1, <1>2, <1>5, <3>1, <3>2 DEF RequestsApart
  <2> QED
    BY <2>1, <2>2
<1>6. Untraced(job'[c]) <=> Untraced(job[c])'
  BY DEF Untraced
<1>7. ASSUME NEW d \in Channels, job'[d] # None
      PROVE  /\ job'[d].req < requests'
             /\ \A b \in Channels : job'[b] # None /\ job'[b].req = job'[d].req => b = d
             /\ Untraced(job'[d]) => \A e \in connected' : e.req # job'[d].req
  BY <1>1, <1>4, <1>5, <1>7 DEF RequestsApart
<1> QED
  BY <1>3, <1>7 DEF RequestsApart, Untraced

LEMMA BeginApart ==
    ASSUME TypeOK, RequestsApart, NEW c \in Channels, NEW kind, NEW step, NEW user, NEW item,
           NEW score, NEW pack, Begin(c, kind, step, user, item, score, pack)
    PROVE  RequestsApart'
<1>1. /\ requests \in Int /\ requests' = requests + 1 /\ connected' = connected
      /\ job'[c].req = requests
      /\ \A d \in Channels \ {c} : job'[d] = job[d]
  BY ConstantsAssumption DEF TypeOK, Begin, tables
<1>2. /\ \A e \in connected : e.req \in Int /\ e.req < requests
      /\ \A d \in Channels : job[d] # None => job[d].req \in Int /\ job[d].req < requests
  BY DEF RequestsApart, TypeOK, TablesOK, Entry, Handler, Job
<1>3. ASSUME NEW d \in Channels, job'[d] # None
      PROVE  /\ job'[d].req < requests'
             /\ \A b \in Channels : job'[b] # None /\ job'[b].req = job'[d].req => b = d
             /\ Untraced(job'[d]) => \A e \in connected' : e.req # job'[d].req
  <2>1. CASE d = c
    BY <1>1, <1>2, <2>1
  <2>2. CASE d # c
    BY <1>1, <1>2, <1>3, <2>2 DEF RequestsApart
  <2> QED
    BY <2>1, <2>2
<1>4. \A e \in connected' : e.req < requests'
  BY <1>1, <1>2
<1> QED
  BY <1>3, <1>4 DEF RequestsApart, Untraced

LEMMA NextApart ==
    ASSUME TypeOK, RequestsApart, [Next]_vars
    PROVE  RequestsApart'
<1>0. Clients \subseteq Channels /\ Admins \subseteq Channels
  BY DEF Channels
<1>1. ASSUME NEW c \in Clients, RatePaymentRR(c) \/ ServicePaymentRR(c) PROVE RequestsApart'
  BY <1>0, <1>1, BeginApart DEF RatePaymentRR, ServicePaymentRR
<1>2. ASSUME NEW c \in Admins,
             AdminRateChangeRR(c) \/ AdminServiceChangeRR(c) \/ UpdateUserPackage(c)
      PROVE  RequestsApart'
  BY <1>0, <1>2, BeginApart DEF AdminRateChangeRR, AdminServiceChangeRR, UpdateUserPackage
<1>3. CASE Crash
  <2>1. \A c \in Channels : job'[c] = None
    BY <1>3 DEF Crash
  <2> QED
    BY <1>3, <2>1 DEF Crash, tables, RequestsApart
<1>4. CASE UNCHANGED vars
  BY <1>4 DEF vars, RequestsApart, Untraced
<1>5. CASE Register
  BY <1>5 DEF Register, CreateUser, CreateEmptyPackage, RequestsApart, Untraced
<1> QED
  BY <1>1, <1>2, <1>3, <1>4, <1>5, CallApart DEF Next, Serve

(* No two handlers run for the same request, and one that was refused, or  *)
(* has inserted nothing yet, has no connection in the tables.              *)
THEOREM RequestsKeptApart == Spec => []RequestsApart
<1>1. Init => TypeOK /\ RequestsApart
  BY InitType DEF Init, RequestsApart
<1>2. TypeOK /\ RequestsApart /\ [Next]_vars => (TypeOK /\ RequestsApart)'
  BY NextType, NextApart
<1> QED
  BY <1>1, <1>2, PTL DEF Spec

(* A request refused for want of money, or for an unknown offer, has left  *)
(* no connection, no charge and no credit behind.                          *)
THEOREM RefusalsAreClean == Spec => []RefusedLeavesNoTrace
<1>1. Safe /\ RequestsApart => RefusedLeavesNoTrace
  BY DEF Safe, ChargedIsConnected, CreditedIsConnected, RequestsApart, Untraced,
         RefusedLeavesNoTrace, At, EntryOf
<1> QED
  BY <1>1, SafeAlways, RequestsKeptApart, PTL

-----------------------------------------------------------------------------
(* What a single step does to the accounts.                                 *)

(* Which calls change accounts, and to what.                               *)
LEMMA CallScores ==
    ASSUME TypeOK, NEW c \in Channels, Call(c)
    PROVE  \/ users' = users
           \/ At(c, "charge") /\ users' = UpdatedUsers(job[c].uid, job[c].score - Cost[job[c].item])
           \/ At(c, "setScore") /\ users' = UpdatedUsers(job[c].uid, job[c].score)
<1>1. CASE Charge(c)
  BY <1>1 DEF Charge
<1>2. CASE SetScore(c)
  BY <1>2 DEF SetScore
<1>3. CASE ~ Charge(c) /\ ~ SetScore(c)
  BY <1>3 DEF Call, GetRateInfo, GetServiceInfo, GetOffer, GetUser, CreateUserRate,
              CreateUserService, Connect, GetPack, PutPack, SetPack, Reply, tables
<1> QED
  BY <1>1, <1>2, <1>3

(* Who starts, registers, dies or does nothing changes no account but one  *)
(* that was not there.                                                     *)
LEMMA OtherScores ==
    ASSUME TypeOK, [Next]_vars, \A c \in Channels : ~ Call(c)
    PROVE  \A u \in Users : users'[u] # users[u] => users[u] = None /\ users'[u] = 0
<1>1. CASE UNCHANGED users
  BY <1>1
<1>2. CASE Register
  BY <1>2 DEF Register, CreateUser, CreateEmptyPackage, TypeOK, TablesOK
<1>3. ASSUME NEW c \in Channels, NEW kind, NEW step, NEW user, NEW item, NEW score, NEW pack,
             Begin(c, kind, step, user, item, score, pack)
      PROVE  UNCHANGED users
  BY <1>3 DEF Begin, tables
<1>4. CASE Serve
  <2>1. UNCHANGED users
    BY <1>3, <1>4 DEF Serve, Channels, RatePaymentRR, ServicePaymentRR, AdminRateChangeRR,
                      AdminServiceChangeRR, UpdateUserPackage
  <2> QED
    BY <1>1, <2>1
<1>5. Crash \/ UNCHANGED vars => UNCHANGED users
  BY DEF Crash, tables, vars
<1> QED
  BY <1>1, <1>2, <1>4, <1>5 DEF Next

LEMMA SetScoreLeaves ==
    ASSUME TypeOK, NEW c \in Channels, Call(c), At(c, "setScore")
    PROVE  Leaves(c, "setScore")
<1>1. SetScore(c)
  BY DEF Call, At, GetRateInfo, GetServiceInfo, GetUser, CreateUserRate, CreateUserService,
         Charge, GetPack, PutPack, SetPack, Reply
<1>2. /\ job[c] \in Handler /\ job[c] \in Job /\ job[c] # None /\ job[c].pc = "setScore"
      /\ "setScore" \in DOMAIN Script(job[c].kind) /\ job[c].kind = "adminUpdateUserPackage"
  BY HandlerAt DEF Steps
<1>3. CASE Proceed(c, job[c])
  <2>1. job'[c] = [job[c] EXCEPT !.pc = Script(job[c].kind)["setScore"]]
    BY <1>2, <1>3, ProceedType
  <2>2. job'[c].pc = "setPack"
    BY <1>2, <2>1, ScriptOrder DEF Job
  <2> QED
    BY <2>2 DEF Leaves, At
<1>4. CASE Answer(c, "status_internal_error", "wrong")
  <2>1. job'[c].pc = "reply"
    BY <1>2, <1>4 DEF Answer, TypeOK, Job
  <2> QED
    BY <2>1 DEF Leaves, At
<1> QED
  BY <1>1, <1>3, <1>4 DEF SetScore

(* No purchase, registration or crash puts an account in debt, or deeper   *)
(* into it: only the figure an administrator sent does.                    *)
THEOREM DebtIsAdministrators == Spec => OnlyAdminsMakeDebt
<1> DEFINE A == \A u \in Users :
                  users'[u] # None /\ users'[u] < 0 /\ users'[u] # users[u] =>
                      \E c \in Channels : Leaves(c, "setScore") /\ users'[u] = job[c].score
<1>1. TypeOK /\ Safe /\ [Next]_vars => A
  <2> SUFFICES ASSUME TypeOK, Safe, [Next]_vars, NEW u \in Users,
                      users'[u] # None, users'[u] < 0, users'[u] # users[u]
               PROVE  \E c \in Channels : Leaves(c, "setScore") /\ users'[u] = job[c].score
    OBVIOUS
  <2>1. PICK c \in Channels : Call(c)
    BY OtherScores
  <2>2. CASE At(c, "charge") /\ users' = UpdatedUsers(job[c].uid, job[c].score - Cost[job[c].item])
    <3>1. job[c] \in Job /\ job[c] # None /\ job[c].pc = "charge" /\ job[c].item \in Offers
          /\ job[c].kind \in Payments
      BY <2>2, HandlerAt DEF Steps
    <3>2. job[c].score >= Cost[job[c].item]
      BY <3>1 DEF Safe, HandlersInStep, InStep
    <3>3. job[c].uid \in Users /\ job[c].score \in Int /\ Cost[job[c].item] \in Int
      BY <3>1, ConstantsAssumption DEF Job
    <3>4. users'[u] = job[c].score - Cost[job[c].item]
      BY <2>2, <3>3, UsersFrame
    <3> QED
      BY <3>2, <3>3, <3>4
  <2>3. CASE At(c, "setScore") /\ users' = UpdatedUsers(job[c].uid, job[c].score)
    <3>1. job[c] \in Job
      BY <2>3, HandlerAt DEF Steps
    <3>2. job[c].uid \in Users /\ job[c].score \in Int
      BY <3>1 DEF Job
    <3>3. users'[u] = job[c].score
      BY <2>3, <3>2, UsersFrame
    <3> QED
      BY <2>1, <2>3, <3>3, SetScoreLeaves
  <2> QED
    BY <2>1, <2>2, <2>3, CallScores
<1>2. TypeOK /\ Safe /\ [Next]_vars => [A]_vars
  BY <1>1
<1> HIDE DEF A
<1>3. Spec => [][A]_vars
  BY <1>2, TypeCorrect, SafeAlways, PTL DEF Spec
<1> QED
  BY <1>3 DEF A, OnlyAdminsMakeDebt

(* An administrator's score reaches no other account, whatever handlers    *)
(* and registrations interleave, if his handler found the one it is for.   *)
THEOREM EditsHitTheirTarget == Spec => AdminEditsItsTarget
<1> DEFINE A == \A c \in Channels :
                  Leaves(c, "setScore") /\ job[c].isRow =>
                      \A u \in Users \ {job[c].user} : users'[u] = users[u]
<1>1. TypeOK /\ Safe /\ [Next]_vars => A
  <2> SUFFICES ASSUME TypeOK, Safe, [Next]_vars, NEW c \in Channels,
                      Leaves(c, "setScore"), job[c].isRow,
                      NEW u \in Users \ {job[c].user}
               PROVE  users'[u] = users[u]
    OBVIOUS
  <2>1. /\ At(c, "setScore") /\ job[c] # None /\ job[c] \in Job
        /\ job[c].uid = job[c].user
    BY HandlerAt DEF Leaves, Steps, Safe, HandlersInStep, InStep
  <2>2. Call(c) \/ Crash
    <3>1. job'[c] # job[c]
      BY <2>1 DEF Leaves, At
    <3>2. ASSUME NEW d \in Channels, NEW kind, NEW step, NEW user, NEW item, NEW score,
                 NEW pack, Begin(d, kind, step, user, item, score, pack)
          PROVE  FALSE
      BY <2>1, <3>1, <3>2 DEF Begin, TypeOK
    <3>3. ASSUME NEW d \in Channels, Call(d) PROVE d = c
      BY <3>1, <3>3, CallTrace
    <3>4. ~ (Register \/ UNCHANGED vars)
      BY <3>1 DEF Register, CreateUser, CreateEmptyPackage, vars
    <3>5. Serve => Call(c)
      BY <3>2, <3>3 DEF Serve, Channels, RatePaymentRR, ServicePaymentRR, AdminRateChangeRR,
                        AdminServiceChangeRR, UpdateUserPackage
    <3> QED
      BY <3>4, <3>5 DEF Next
  <2>3. CASE Call(c)
    <3>1. users' = users \/ users' = UpdatedUsers(job[c].user, job[c].score)
      BY <2>1, <2>3, CallScores DEF At
    <3>2. job[c].user \in Users /\ job[c].score \in Int
      BY <2>1 DEF Job
    <3> QED
      BY <3>1, <3>2, UsersFrame
  <2>4. CASE Crash
    BY <2>4 DEF Crash, tables
  <2> QED
    BY <2>2, <2>3, <2>4
<1>2. TypeOK /\ Safe /\ [Next]_vars => [A]_vars
  BY <1>1
<1> HIDE DEF A
<1>3. Spec => [][A]_vars
  BY <1>2, TypeCorrect, SafeAlways, PTL DEF Spec
<1> QED
  BY <1>3 DEF A, AdminEditsItsTarget

-----------------------------------------------------------------------------
(* Who paid and was not served is told.                                     *)

Worded == \A c \in Channels : At(c, "reply") => job[c].text # "none"

LEMMA CallWorded ==
    ASSUME TypeOK, Worded, NEW c \in Channels, Call(c)
    PROVE  Worded'
<1>1. /\ \A d \in Channels \ {c} : job'[d] = job[d]
      /\ job'[c] # None => StaysUntraced(c)
  BY CallTrace
<1> QED
  BY <1>1 DEF Worded, StaysUntraced, At

LEMMA BeginWorded ==
    ASSUME TypeOK, Worded, NEW c \in Channels, NEW kind, NEW step \in {"getOffer", "getUser"},
           NEW user, NEW item, NEW score, NEW pack,
           Begin(c, kind, step, user, item, score, pack)
    PROVE  Worded'
<1>1. job'[c].pc = step /\ \A d \in Channels \ {c} : job'[d] = job[d]
  BY DEF Begin, TypeOK
<1> QED
  BY <1>1 DEF Worded, At

LEMMA NextWorded ==
    ASSUME TypeOK, Worded, [Next]_vars
    PROVE  Worded'
<1>0. Clients \subseteq Channels /\ Admins \subseteq Channels
  BY DEF Channels
<1>1. ASSUME NEW c \in Clients, RatePaymentRR(c) \/ ServicePaymentRR(c) PROVE Worded'
  BY <1>0, <1>1, BeginWorded DEF RatePaymentRR, ServicePaymentRR
<1>2. ASSUME NEW c \in Admins,
             AdminRateChangeRR(c) \/ AdminServiceChangeRR(c) \/ UpdateUserPackage(c)
      PROVE  Worded'
  BY <1>0, <1>2, BeginWorded DEF AdminRateChangeRR, AdminServiceChangeRR, UpdateUserPackage
<1>3. CASE Crash
  BY <1>3 DEF Crash, Worded, At
<1>4. CASE UNCHANGED vars
  BY <1>4 DEF vars, Worded, At
<1>5. CASE Register
  BY <1>5 DEF Register, CreateUser, CreateEmptyPackage, Worded, At
<1> QED
  BY <1>1, <1>2, <1>3, <1>4, <1>5, CallWorded DEF Next, Serve

(* An answer to a request that was charged either stands for a credit, or  *)
(* for one that found no package, or admits that something went wrong: it  *)
(* is never a refusal.  ChargeIsAnswered adds that the answer comes.       *)
THEOREM ChargesAreAdmitted == Spec => []ChargedIsAdmitted
<1>1. Safe /\ RefusedLeavesNoTrace /\ Worded /\ TypeOK => ChargedIsAdmitted
  <2> SUFFICES ASSUME Safe, RefusedLeavesNoTrace, Worded, TypeOK, NEW c \in Channels,
                      At(c, "reply"), NEW p \in charged, EntryOf(p) = EntryOf(job[c])
               PROVE  Recorded(EntryOf(job[c])) \/ job[c].text = "wrong"
    BY DEF ChargedIsAdmitted, Charged, Admitted
  <2>1. job[c] # None /\ job[c] \in Job /\ job[c].pc = "reply"
    BY DEF At, TypeOK, Handler
  <2>2. p.req = job[c].req /\ p.item = job[c].item
    BY DEF EntryOf
  <2>3. job[c].text \notin {"poor", "unknown", "none"}
    BY <2>2 DEF RefusedLeavesNoTrace, Worded
  <2>4. job[c].text \in {"success", "wrong"}
    BY <2>1, <2>3 DEF Job, Texts
  <2>5. job[c].item # None
    BY <2>2, ConstantsAssumption DEF TypeOK, Charges
  <2>6. job[c].text = "success" => Recorded(EntryOf(job[c]))
    BY <2>1, <2>5 DEF Safe, HandlersInStep, InStep
  <2> QED
    BY <2>4, <2>6
<1>2. Init => Worded
  BY DEF Init, Worded, At
<1>3. TypeOK /\ Worded /\ [Next]_vars => Worded'
  BY NextWorded
<1> QED
  BY <1>1, <1>2, <1>3, TypeCorrect, SafeAlways, RefusalsAreClean, PTL DEF Spec
=============================================================================

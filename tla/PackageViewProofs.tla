------------------------- MODULE PackageViewProofs -------------------------
(* Proofs about PackageView, for every value of its constants.              *)
EXTENDS PackageView, BillingProofs, SequenceTheorems

-----------------------------------------------------------------------------
(* Views leave Billing alone.                                               *)

LEMMA ViewCallFrame ==
    ASSUME NEW c \in Viewers, ViewCall(c)
    PROVE  UNCHANGED <<billing, accounts, dated, over>>
BY DEF ViewCall, PackageInfoRR, UserStoryRR, Ask, GetRole, FailedCall, GetPackage, GetUserInfo,
       GetUserRate, ViewRateInfo, GetUserServices, GetUserConnectedRate,
       GetUserConnectedService, ListRows, Describe, GetPayments, ViewReply

LEMMA ViewStep ==
    ASSUME TypeOK, [ViewNext]_viewVars
    PROVE  [Next]_vars
<1>1. CASE Serve
  BY <1>1 DEF Next
<1>2. CASE ViewCrash
  <2>1. CASE \E c \in Channels : job[c] # None
    BY <1>2, <2>1 DEF ViewCrash, Crash, Next
  <2>2. CASE \A c \in Channels : job[c] = None
    <3>1. job' = job
      BY <1>2, <2>2 DEF ViewCrash, TypeOK
    <3> QED
      BY <1>2, <3>1 DEF ViewCrash, tables, history, vars
  <2> QED
    BY <2>1, <2>2
<1>3. ASSUME NEW c \in Viewers, ViewCall(c) PROVE UNCHANGED vars
  BY <1>3, ViewCallFrame DEF billing, vars
<1>4. ASSUME NEW u \in Users, Expire(u) PROVE UNCHANGED vars
  BY <1>4 DEF Expire, billing, vars
<1>5. CASE UNCHANGED viewVars
  BY <1>5 DEF viewVars, vars
<1>6. CASE Register
  BY <1>6 DEF Next
<1>7. ASSUME NEW u \in Users, ConnectFirst(u) PROVE UNCHANGED vars
  BY <1>7 DEF ConnectFirst, billing, vars
<1> QED
  BY <1>1, <1>2, <1>3, <1>4, <1>5, <1>6, <1>7 DEF ViewNext, ViewServe

(* The composition with the views is still Billing: views write to none of *)
(* its tables and take part in none of its steps, so all that is proved of *)
(* Billing holds while they run.                                           *)
THEOREM ViewsAreBilling == ViewSpec => Spec
<1>1. ViewInit => Init
  BY DEF ViewInit
<1>2. Init => TypeOK
  BY InitType
<1>3. TypeOK /\ [ViewNext]_viewVars => [Next]_vars
  BY ViewStep
<1>4. TypeOK /\ [Next]_vars => TypeOK'
  BY NextType
<1> QED
  BY <1>1, <1>2, <1>3, <1>4, PTL DEF ViewSpec, Spec

-----------------------------------------------------------------------------
(* What Billing writes, as the views see it.                                *)

LEMMA RowsInMemory == PackageRow \subseteq PackageInfo /\ None \notin PackageRow
BY ConstantsAssumption DEF PackageRow, PackageInfo, Stored, Counter

LEMMA PackageKept ==
    ASSUME TypeOK, NEW user \in Users, NEW pack \in PackageRow,
           package_state' = UpdatedPackages(user, pack)
    PROVE  \A u \in Users : package_state'[u] = None <=> package_state[u] = None
BY RowsInMemory DEF UpdatedPackages, TypeOK, TablesOK

LEMMA AccountKept ==
    ASSUME TypeOK, NEW id \in Users, NEW score \in Int, users' = UpdatedUsers(id, score)
    PROVE  \A u \in Users : users'[u] = None <=> users[u] = None
BY UsersFrame

(* What every step of Billing keeps: rows are inserted one at a time, and  *)
(* for offers there are; nothing is taken back.                            *)
Grows ==
    /\ connected' = connected \/
          \E e \in Entry : e.item \in Listed /\ connected' = connected \cup {e}
    /\ credited \subseteq credited'
    /\ \A u \in Users : package_state'[u] = None <=> package_state[u] = None
    /\ \A u \in Users : users'[u] = None <=> users[u] = None

LEMMA CallGrows ==
    ASSUME TypeOK, NEW c \in Channels, Call(c)
    PROVE  Grows
<1> DEFINE j == job[c]
<1>0. "connect" \in Steps /\ "charge" \in Steps
  BY DEF Steps
<1>1. j # None /\ j \in Handler /\ j \in Job /\ j.user \in Users /\ j.uid \in Users
  BY CallTrace DEF TypeOK, Handler, Job
<1>2. CASE GetOffer(c)
  BY <1>2 DEF GetOffer, Grows, tables, history
<1>3. CASE GetUser(c)
  BY <1>3 DEF GetUser, Grows, tables, history
<1>4. CASE Connect(c)
  <2>1. EntryOf(j) \in Entry
    BY <1>0, <1>4, HandlerAt DEF Connect
  <2>2. connected' = connected \/
           (connected' = connected \cup {EntryOf(j)} /\ EntryOf(j).item \in Listed)
    BY <1>4 DEF Connect, MayConnect, EntryOf
  <2> QED
    BY <1>4, <2>1, <2>2 DEF Connect, Grows, history
<1>5. CASE Charge(c)
  <2>1. j.item \in Offers /\ j.score \in Int
    BY <1>0, <1>1, <1>5, HandlerAt DEF Charge, Job
  <2>2. j.score - Cost[j.item] \in Int
    BY <2>1, ConstantsAssumption
  <2>3. \A u \in Users : users'[u] = None <=> users[u] = None
    BY <1>1, <1>5, <2>2, AccountKept DEF Charge
  <2> QED
    BY <1>5, <2>3 DEF Charge, Grows
<1>6. CASE GetPack(c)
  BY <1>6 DEF GetPack, Grows, tables, history
<1>7. CASE PutPack(c)
  <2>1. \A u \in Users : package_state'[u] = None <=> package_state[u] = None
    BY <1>1, <1>7, PackageKept DEF PutPack, Fits
  <2> QED
    BY <1>7, <2>1 DEF PutPack, Records, Grows
<1>8. CASE SetScore(c)
  <2>1. j.score \in Int
    BY <1>1 DEF Job
  <2>2. \A u \in Users : users'[u] = None <=> users[u] = None
    BY <1>1, <1>8, <2>1, AccountKept DEF SetScore
  <2> QED
    BY <1>8, <2>2 DEF SetScore, Grows, history
<1>9. CASE SetPack(c)
  <2>1. \A u \in Users : package_state'[u] = None <=> package_state[u] = None
    BY <1>1, <1>9, PackageKept DEF SetPack, Fits
  <2> QED
    BY <1>9, <2>1 DEF SetPack, Grows, history
<1>10. CASE Reply(c)
  BY <1>10 DEF Reply, Grows, tables, history
<1> QED
  BY <1>2, <1>3, <1>4, <1>5, <1>6, <1>7, <1>8, <1>9, <1>10
     DEF Call, GetRateInfo, GetServiceInfo, CreateUserRate, CreateUserService

LEMMA ServeGrows ==
    ASSUME TypeOK, Serve
    PROVE  Grows
<1>1. ASSUME NEW c \in Clients, RatePaymentRR(c) \/ ServicePaymentRR(c) PROVE Grows
  BY <1>1 DEF RatePaymentRR, ServicePaymentRR, Begin, Grows, tables, history
<1>2. ASSUME NEW c \in Admins,
             AdminRateChangeRR(c) \/ AdminServiceChangeRR(c) \/ UpdateUserPackage(c)
      PROVE  Grows
  BY <1>2 DEF AdminRateChangeRR, AdminServiceChangeRR, UpdateUserPackage, Begin, Grows,
              tables, history
<1> QED
  BY <1>1, <1>2, CallGrows DEF Serve

(* The update of the package is the last thing a request does: once it is  *)
(* committed, no handler of that request can charge any more.              *)
CreditIsLast ==
    \A e \in credited, c \in Channels :
        job[c] # None /\ job[c].req = e.req => job[c].pc = "reply"

ChargedBefore == \A p \in charged' \ charged : EntryOf(p) \notin credited

LEMMA CallHistory ==
    ASSUME TypeOK, NEW c \in Channels, Call(c)
    PROVE  /\ credited' = credited \/
                 (/\ credited' = credited \cup {EntryOf(job[c])}
                  /\ job'[c].pc = "reply")
           /\ charged' = charged \/
                 (job[c].pc = "charge" /\ charged' = charged \cup {ChargeOf(job[c])})
           /\ job[c].pc = "reply" => job'[c] = None
<1> DEFINE j == job[c]
<1>0. /\ Codes = {"status_success", "status_internal_error", "status_does_not_exist"}
      /\ Texts = {"none", "success", "poor", "unknown", "wrong"}
  BY DEF Codes, Texts
<1>1. j \in Job
  BY CallTrace DEF TypeOK, Handler
<1>2. CASE GetOffer(c)
  BY <1>2 DEF GetOffer, At, history
<1>3. CASE GetUser(c)
  BY <1>3 DEF GetUser, At, history
<1>4. CASE Connect(c)
  BY <1>4 DEF Connect, At, history
<1>5. CASE Charge(c)
  BY <1>5 DEF Charge, ChargedBy, At
<1>6. CASE GetPack(c)
  BY <1>6 DEF GetPack, At, history
<1>7. CASE PutPack(c)
  <2>1. Answer(c, "status_success", "success") \/ Answer(c, "status_internal_error", "wrong")
    BY <1>7 DEF PutPack
  <2>2. job'[c].pc = "reply"
    BY <1>1, <2>1 DEF Answer, TypeOK, Job
  <2> QED
    BY <1>7, <2>2 DEF PutPack, Records, CreditedBy, At
<1>8. CASE SetScore(c)
  BY <1>8 DEF SetScore, At, history
<1>9. CASE SetPack(c)
  BY <1>9 DEF SetPack, At, history
<1>10. CASE Reply(c)
  BY <1>10 DEF Reply, TypeOK, history
<1> QED
  BY <1>2, <1>3, <1>4, <1>5, <1>6, <1>7, <1>8, <1>9, <1>10
     DEF Call, GetRateInfo, GetServiceInfo, CreateUserRate, CreateUserService

LEMMA CallLast ==
    ASSUME TypeOK, RequestsApart, CreditIsLast, NEW c \in Channels, Call(c)
    PROVE  CreditIsLast' /\ ChargedBefore
<1> DEFINE j == job[c]
<1>1. /\ j # None /\ EntryOf(j).req = j.req
      /\ \A d \in Channels \ {c} : job'[d] = job[d]
      /\ job'[c] # None => job'[c].req = j.req
  BY CallTrace DEF StaysUntraced, EntryOf
<1>2. ASSUME NEW e \in credited', NEW d \in Channels, job'[d] # None, job'[d].req = e.req
      PROVE  job'[d].pc = "reply"
  <2>1. CASE d = c
    <3>1. e \in credited => j.pc = "reply"
      BY <1>1, <1>2, <2>1 DEF CreditIsLast
    <3> QED
      BY <1>1, <1>2, <2>1, <3>1, CallHistory
  <2>2. CASE d # c
    <3>1. job[d].req # j.req
      BY <1>1, <1>2, <2>2 DEF RequestsApart
    <3> QED
      BY <1>1, <1>2, <2>2, <3>1, CallHistory DEF CreditIsLast
  <2> QED
    BY <2>1, <2>2
<1>3. ChargedBefore
  <2>1. CASE charged' = charged
    BY <2>1 DEF ChargedBefore
  <2>2. CASE j.pc = "charge" /\ charged' = charged \cup {ChargeOf(j)}
    <3>1. EntryOf(ChargeOf(j)) = EntryOf(j)
      BY DEF EntryOf, ChargeOf
    <3>2. EntryOf(j) \notin credited
      BY <1>1, <2>2 DEF CreditIsLast
    <3> QED
      BY <2>2, <3>1, <3>2 DEF ChargedBefore
  <2> QED
    BY <2>1, <2>2, CallHistory
<1> QED
  BY <1>2, <1>3 DEF CreditIsLast

LEMMA ServeLast ==
    ASSUME TypeOK, CreditedIsConnected, RequestsApart, CreditIsLast, Serve
    PROVE  CreditIsLast' /\ ChargedBefore
<1>0. Clients \subseteq Channels /\ Admins \subseteq Channels
  BY DEF Channels
<1>1. ASSUME NEW c \in Channels, UNCHANGED history,
             job'[c].req = requests, \A d \in Channels \ {c} : job'[d] = job[d]
      PROVE  CreditIsLast' /\ ChargedBefore
  <2>1. \A e \in credited : e.req # requests
    BY DEF CreditedIsConnected, RequestsApart, TypeOK, TablesOK, Entry
  <2> QED
    BY <1>1, <2>1 DEF CreditIsLast, ChargedBefore, history
<1>2. ASSUME NEW c \in Clients, RatePaymentRR(c) \/ ServicePaymentRR(c)
      PROVE  CreditIsLast' /\ ChargedBefore
  <2>1. /\ UNCHANGED history /\ job'[c].req = requests
        /\ \A d \in Channels \ {c} : job'[d] = job[d]
    BY <1>0, <1>2 DEF RatePaymentRR, ServicePaymentRR, Begin, TypeOK
  <2> QED
    BY <1>0, <1>1, <2>1
<1>3. ASSUME NEW c \in Admins,
             AdminRateChangeRR(c) \/ AdminServiceChangeRR(c) \/ UpdateUserPackage(c)
      PROVE  CreditIsLast' /\ ChargedBefore
  <2>1. /\ UNCHANGED history /\ job'[c].req = requests
        /\ \A d \in Channels \ {c} : job'[d] = job[d]
    BY <1>0, <1>3 DEF AdminRateChangeRR, AdminServiceChangeRR, UpdateUserPackage, Begin, TypeOK
  <2> QED
    BY <1>0, <1>1, <2>1
<1> QED
  BY <1>2, <1>3, CallLast DEF Serve

-----------------------------------------------------------------------------
(* The dated rows.                                                          *)

DatedOK == dated \in [Users -> Seq(DatedRow)]

(* What the views rely on of the tables: every connection has its dated    *)
(* row, every row an offer there is, every package an account.             *)
RowsKept ==
    /\ DatedOK
    /\ \A e \in connected : \E i \in DOMAIN dated[e.user] : dated[e.user][i] = e
    /\ \A u \in Users : \A i \in DOMAIN dated[u] : dated[u][i].item \in Listed
    /\ \A u \in Users : package_state[u] # None => users[u] # None

Longer ==
    \A u \in Users :
        /\ DOMAIN dated[u] \subseteq DOMAIN dated'[u]
        /\ \A i \in DOMAIN dated[u] : dated'[u][i] = dated[u][i]

LEMMA EntryDated == Entry \subseteq DatedRow
BY DEF Entry, DatedRow

LEMMA AppendRow ==
    ASSUME NEW s \in Seq(DatedRow), NEW e \in DatedRow
    PROVE  /\ Append(s, e) \in Seq(DatedRow)
           /\ Len(s) \in Nat /\ Len(s) + 1 \in DOMAIN Append(s, e)
           /\ DOMAIN s = 1 .. Len(s) /\ DOMAIN Append(s, e) = 1 .. Len(s) + 1
           /\ \A i \in DOMAIN s : i \in DOMAIN Append(s, e) /\ Append(s, e)[i] = s[i]
           /\ Append(s, e)[Len(s) + 1] = e
           /\ \A i \in DOMAIN Append(s, e) : i \in DOMAIN s \/ i = Len(s) + 1
BY AppendProperties, LenProperties

LEMMA DatedLonger ==
    ASSUME DatedOK, NEW e \in DatedRow,
           dated' = [dated EXCEPT ![e.user] = Append(@, e)]
    PROVE  /\ DatedOK' /\ Longer
           /\ \E i \in DOMAIN dated'[e.user] : dated'[e.user][i] = e
           /\ \A w \in Users : \A i \in DOMAIN dated'[w] :
                 dated'[w][i] = e \/ (i \in DOMAIN dated[w] /\ dated'[w][i] = dated[w][i])
<1>1. e.user \in Users
  BY DEF DatedRow
<1> DEFINE u == e.user
           s == dated[u]
           n == Len(s) + 1
<1>2. /\ dated'[u] = Append(s, e)
      /\ \A w \in Users \ {u} : dated'[w] = dated[w]
  BY <1>1 DEF DatedOK
<1>3. s \in Seq(DatedRow)
  BY <1>1 DEF DatedOK
<1>4. /\ Append(s, e) \in Seq(DatedRow)
      /\ n \in DOMAIN Append(s, e)
      /\ \A i \in DOMAIN s : i \in DOMAIN Append(s, e) /\ Append(s, e)[i] = s[i]
      /\ Append(s, e)[n] = e
      /\ \A i \in DOMAIN Append(s, e) : i \in DOMAIN s \/ i = n
  BY <1>3, AppendRow
<1> HIDE DEF n
<1>5. DatedOK'
  BY <1>1, <1>4 DEF DatedOK
<1>6. Longer
  BY <1>2, <1>4 DEF Longer
<1>7. \E i \in DOMAIN dated'[u] : dated'[u][i] = e
  BY <1>2, <1>4
<1>8. ASSUME NEW w \in Users, NEW i \in DOMAIN dated'[w]
      PROVE  dated'[w][i] = e \/ (i \in DOMAIN dated[w] /\ dated'[w][i] = dated[w][i])
  <2>1. CASE w # u
    BY <1>2, <1>8, <2>1
  <2>2. CASE w = u
    BY <1>2, <1>4, <1>8, <2>2
  <2> QED
    BY <2>1, <2>2
<1> QED
  BY <1>5, <1>6, <1>7, <1>8

LEMMA DatedStep ==
    ASSUME TypeOK, RowsKept, Grows, Dated
    PROVE  RowsKept' /\ Longer
<1>0. /\ connected \subseteq Entry
      /\ \A e \in Entry : e \in DatedRow /\ e.user \in Users /\ e.item \in Offers
  BY EntryDated DEF TypeOK, TablesOK, Entry
<1>1. \A u \in Users : package_state'[u] # None => users'[u] # None
  BY DEF RowsKept, Grows
<1>2. CASE connected' = connected /\ UNCHANGED dated
  BY <1>1, <1>2 DEF RowsKept, DatedOK, Longer
<1>3. ASSUME NEW e \in connected' \ connected,
             dated' = [dated EXCEPT ![e.user] = Append(@, e)]
      PROVE  RowsKept' /\ Longer
  <2>1. e \in Entry /\ e.item \in Listed /\ connected' = connected \cup {e}
    BY <1>3 DEF Grows
  <2>2. e \in DatedRow /\ DatedOK
    BY <1>0, <2>1 DEF RowsKept
  <2>3. /\ DatedOK' /\ Longer
        /\ \E i \in DOMAIN dated'[e.user] : dated'[e.user][i] = e
        /\ \A w \in Users : \A i \in DOMAIN dated'[w] :
              dated'[w][i] = e \/ (i \in DOMAIN dated[w] /\ dated'[w][i] = dated[w][i])
    BY <1>3, <2>2, DatedLonger
  <2>4. ASSUME NEW x \in connected
        PROVE  \E i \in DOMAIN dated'[x.user] : dated'[x.user][i] = x
    BY <1>0, <2>3, <2>4 DEF RowsKept, Longer
  <2>5. \A w \in Users : \A i \in DOMAIN dated'[w] : dated'[w][i].item \in Listed
    BY <2>1, <2>3 DEF RowsKept
  <2> QED
    BY <1>1, <2>1, <2>3, <2>4, <2>5 DEF RowsKept
<1> QED
  BY <1>2, <1>3 DEF Dated

LEMMA FirstStep ==
    ASSUME TypeOK, RowsKept, NEW u \in Users, ConnectFirst(u)
    PROVE  RowsKept' /\ Longer
<1> DEFINE e == First(u)
<1>1. e \in DatedRow /\ e.user = u /\ e.item \in Listed
  BY ViewAssumption DEF First, DatedRow, Offers
<1>2. DatedOK /\ UNCHANGED billing /\ dated' = [dated EXCEPT ![e.user] = Append(@, e)]
  BY <1>1 DEF ConnectFirst, RowsKept
<1> HIDE DEF e
<1>3. /\ DatedOK' /\ Longer
      /\ \A w \in Users : \A i \in DOMAIN dated'[w] :
            dated'[w][i] = e \/ (i \in DOMAIN dated[w] /\ dated'[w][i] = dated[w][i])
  BY <1>1, <1>2, DatedLonger
<1>4. ASSUME NEW x \in connected
      PROVE  \E i \in DOMAIN dated'[x.user] : dated'[x.user][i] = x
  <2>1. x.user \in Users
    BY <1>4 DEF TypeOK, TablesOK, Entry
  <2> QED
    BY <1>3, <1>4, <2>1 DEF RowsKept, Longer
<1> QED
  BY <1>1, <1>2, <1>3, <1>4 DEF RowsKept, billing

(* What a registration inserts takes nothing away.                         *)
LEMMA RegisterGrows ==
    ASSUME TypeOK, Register
    PROVE  /\ UNCHANGED <<connected, job, requests, history>>
           /\ \A u \in Users : users[u] # None => users'[u] # None
           /\ \A u \in Users : package_state[u] # None => package_state'[u] # None
           /\ \A u \in Users :
                 package_state'[u] # None => package_state[u] # None \/ users[u] # None
<1>0. 0 # None /\ Empty # None
  BY ConstantsAssumption DEF Empty, PackageInfo, Counter
<1>1. ASSUME NEW u \in Users, CreateUser(u)
      PROVE  /\ UNCHANGED <<connected, job, requests, history, package_state>>
             /\ \A w \in Users : users[w] # None => users'[w] # None
  BY <1>0, <1>1 DEF CreateUser, TypeOK, TablesOK
<1>2. ASSUME NEW u \in Users, CreateEmptyPackage(u)
      PROVE  /\ UNCHANGED <<connected, job, requests, history, users>>
             /\ \A w \in Users : package_state[w] # None => package_state'[w] # None
             /\ \A w \in Users :
                   package_state'[w] # None => package_state[w] # None \/ users[w] # None
  BY <1>0, <1>2 DEF CreateEmptyPackage, TypeOK, TablesOK
<1> QED
  BY <1>1, <1>2 DEF Register

-----------------------------------------------------------------------------
(* The scripts of the views, and type correctness.                          *)

LEMMA PackageOrder ==
    ASSUME NEW v \in ViewLocals, v.kind = "package", v.pc \in DOMAIN getPackageState
    PROVE  /\ v.pc = "role" => NextCall(v) = "package"
           /\ v.pc = "package" => NextCall(v) = "userInfo"
           /\ v.pc = "userInfo" => NextCall(v) = "userRate"
           /\ v.pc = "userRate" => NextCall(v) = "rateInfo"
           /\ v.pc = "rateInfo" => NextCall(v) = "userServices"
           /\ v.pc \in {"userServices", "serviceInfo"} =>
                 NextCall(v) = IF v.left = {} THEN "reply" ELSE "serviceInfo"
BY DEF NextCall, Order, getPackageState, Loops

LEMMA StoryOrder ==
    ASSUME NEW v \in ViewLocals, v.kind = "story", v.pc \in DOMAIN getUserStory
    PROVE  /\ v.pc = "role" => NextCall(v) = "connectedRate"
           /\ v.pc \in {"connectedRate", "eachRate"} =>
                 NextCall(v) = IF v.left = {} THEN "connectedService" ELSE "eachRate"
           /\ v.pc \in {"connectedService", "serviceInfo"} =>
                 NextCall(v) = IF v.left = {} THEN "calls" ELSE "serviceInfo"
           /\ v.pc = "calls" => NextCall(v) = "sms"
           /\ v.pc = "sms" => NextCall(v) = "reply"
BY DEF NextCall, Order, getUserStory, Loops

LEMMA Domains ==
    /\ DOMAIN getPackageState = {"role", "package", "userInfo", "userRate", "rateInfo",
                                 "userServices", "serviceInfo"}
    /\ DOMAIN getUserStory = {"role", "connectedRate", "eachRate", "connectedService",
                              "serviceInfo", "calls", "sms"}
BY DEF getPackageState, getUserStory

(* A view stays on its own script.                                         *)
LEMMA NextOnScript ==
    ASSUME NEW v \in ViewLocals, v.pc \in DOMAIN Order(v.kind)
    PROVE  /\ NextCall(v) \in DOMAIN Order(v.kind) \cup {"reply"}
           /\ NextCall(v) \notin Loops \/ v.left # {}
           /\ NextCall(v) # "role"
           /\ NextCall(v) = "reply" =>
                 v.pc \in {"userServices", "serviceInfo", "sms"}
           /\ v.pc \in {"userServices", "connectedRate", "connectedService"} \cup Loops =>
                 (v.left # {} => NextCall(v) \in Loops)
<1>1. CASE v.kind = "package"
  <2>1. v.pc \in DOMAIN getPackageState
    BY <1>1 DEF Order
  <2> QED
    BY <1>1, <2>1, PackageOrder, Domains DEF Order, Loops
<1>2. CASE v.kind = "story"
  <2>1. v.pc \in DOMAIN getUserStory
    BY <1>2 DEF Order
  <2> QED
    BY <1>2, <2>1, StoryOrder, Domains DEF Order, Loops
<1> QED
  BY <1>1, <1>2 DEF ViewLocals, Views

ViewsOK == view \in [Viewers -> View \cup {None}]

(* A view remembers whether its user was complete when he asked.           *)
Kept(c) ==
    view'[c] # None =>
        \/ /\ view[c] # None
           /\ view'[c].complete = view[c].complete /\ view'[c].user = view[c].user
        \/ view'[c].complete = Complete(view'[c].user)

LEMMA GoType ==
    ASSUME ViewsOK, NEW c \in Viewers, NEW v \in ViewLocals, v.pc \in DOMAIN Order(v.kind),
           Go(c, v)
    PROVE  /\ ViewsOK' /\ \A d \in Viewers \ {c} : view'[d] = view[d]
           /\ view'[c] \in View
           /\ view'[c] = [v EXCEPT !.pc = NextCall(v),
                 !.code = IF NextCall(v) = "reply" THEN "status_success" ELSE v.code]
<1> DEFINE w == [v EXCEPT !.pc = NextCall(v),
                    !.code = IF NextCall(v) = "reply" THEN "status_success" ELSE v.code]
<1>1. NextCall(v) \in DOMAIN Order(v.kind) \cup {"reply"}
  BY NextOnScript
<1>2. NextCall(v) \in DOMAIN getPackageState \cup DOMAIN getUserStory \cup {"reply"}
  BY <1>1 DEF Order
<1>3. w \in ViewLocals
  BY <1>2 DEF ViewLocals, Codes
<1>4. w \in View
  BY <1>1, <1>3 DEF View, ViewLocals
<1> QED
  BY <1>4 DEF ViewsOK, Go

LEMMA BlankType ==
    ASSUME NEW kind \in Views, NEW u \in Users, NEW complete \in BOOLEAN,
           NEW step \in {"role", "reply"}, NEW code \in Codes
    PROVE  /\ Blank(kind, u, complete, step) \in View
           /\ [Blank(kind, u, complete, step) EXCEPT !.code = code] \in View
BY Domains DEF Blank, View, ViewLocals, Views, Roles, Codes, Order

LEMMA RefuseType ==
    ASSUME ViewsOK, NEW c \in Viewers, view[c] # None, NEW code \in Codes, Refuse(c, code)
    PROVE  /\ ViewsOK' /\ \A d \in Viewers \ {c} : view'[d] = view[d]
           /\ view'[c] = [Blank(view[c].kind, view[c].user, view[c].complete, "reply")
                             EXCEPT !.code = code]
           /\ Kept(c)
<1> DEFINE w == [Blank(view[c].kind, view[c].user, view[c].complete, "reply")
                    EXCEPT !.code = code]
<1>1. view[c].kind \in Views /\ view[c].user \in Users /\ view[c].complete \in BOOLEAN
  BY DEF ViewsOK, View, ViewLocals
<1>2. w \in View
  BY <1>1, BlankType
<1>3. w.complete = view[c].complete /\ w.user = view[c].user
  BY DEF Blank
<1>4. view' = [view EXCEPT ![c] = w]
  BY DEF Refuse
<1> HIDE DEF w
<1>5. ViewsOK' /\ view'[c] = w /\ \A d \in Viewers \ {c} : view'[d] = view[d]
  BY <1>2, <1>4 DEF ViewsOK
<1> QED
  BY <1>3, <1>5 DEF Kept, w

(* A viewer at a step of the script of its view.                           *)
LEMMA ViewingAt ==
    ASSUME ViewsOK, NEW c \in Viewers, view[c] # None, view[c].pc # "reply"
    PROVE  /\ view[c] \in View /\ view[c] \in ViewLocals
           /\ view[c].user \in Users /\ view[c].kind \in Views
           /\ view[c].pc \in DOMAIN Order(view[c].kind)
           /\ view[c].pc \in {"package", "userInfo", "userRate", "rateInfo", "userServices"} =>
                 view[c].kind = "package"
           /\ view[c].pc \in {"connectedRate", "eachRate", "connectedService", "calls", "sms"} =>
                 view[c].kind = "story"
<1>1. view[c] \in View /\ view[c] \in ViewLocals
  BY DEF ViewsOK, View
<1>2. view[c].pc \in DOMAIN Order(view[c].kind)
  BY <1>1 DEF View
<1>3. view[c].user \in Users /\ view[c].kind \in Views
  BY <1>1 DEF ViewLocals
<1> QED
  BY <1>1, <1>2, <1>3, Domains DEF Order, Views

(* What Go leaves of the view it is given.                                 *)
LEMMA GoFields ==
    ASSUME ViewsOK, NEW c \in Viewers, NEW v \in ViewLocals, v.pc \in DOMAIN Order(v.kind),
           Go(c, v)
    PROVE  /\ view'[c].kind = v.kind /\ view'[c].user = v.user /\ view'[c].role = v.role
           /\ view'[c].complete = v.complete /\ view'[c].seen = v.seen /\ view'[c].paid = v.paid /\ view'[c].isRow = v.isRow
           /\ view'[c].rate = v.rate /\ view'[c].services = v.services
           /\ view'[c].left = v.left /\ view'[c].blank = v.blank
           /\ view'[c].pc = NextCall(v)
           /\ view'[c].pc = "reply" => view'[c].code = "status_success"
<1> DEFINE code == IF NextCall(v) = "reply" THEN "status_success" ELSE v.code
           w == [v EXCEPT !.pc = NextCall(v), !.code = code]
<1>1. view'[c] = w
  BY GoType
<1>2. \A p, k : /\ [v EXCEPT !.pc = p, !.code = k].kind = v.kind
                 /\ [v EXCEPT !.pc = p, !.code = k].user = v.user
                 /\ [v EXCEPT !.pc = p, !.code = k].role = v.role
                 /\ [v EXCEPT !.pc = p, !.code = k].complete = v.complete
                 /\ [v EXCEPT !.pc = p, !.code = k].seen = v.seen
                 /\ [v EXCEPT !.pc = p, !.code = k].paid = v.paid
                 /\ [v EXCEPT !.pc = p, !.code = k].isRow = v.isRow
                 /\ [v EXCEPT !.pc = p, !.code = k].rate = v.rate
                 /\ [v EXCEPT !.pc = p, !.code = k].services = v.services
                 /\ [v EXCEPT !.pc = p, !.code = k].left = v.left
                 /\ [v EXCEPT !.pc = p, !.code = k].blank = v.blank
                 /\ [v EXCEPT !.pc = p, !.code = k].pc = p
                 /\ [v EXCEPT !.pc = p, !.code = k].code = k
  BY DEF ViewLocals
<1>3. code = "status_success" \/ NextCall(v) # "reply"
  OBVIOUS
<1> HIDE DEF code
<1> QED
  BY <1>1, <1>2, <1>3

LEMMA GoKept ==
    ASSUME ViewsOK, NEW c \in Viewers, view[c] # None, NEW v \in ViewLocals,
           v.pc \in DOMAIN Order(v.kind), Go(c, v),
           v.user = view[c].user, v.complete = view[c].complete
    PROVE  ViewsOK' /\ Kept(c)
BY GoType, GoFields DEF Kept

LEMMA ViewCallType ==
    ASSUME TypeOK, ViewTypeOK, NEW c \in Viewers, ViewCall(c)
    PROVE  ViewsOK' /\ Kept(c) /\ failed' \in 0 .. MaxFailed
<1> USE DEF ViewTypeOK, Viewing
<1> DEFINE v == view[c]
<1>0. /\ ViewsOK /\ ViewAssumption /\ failed \in Nat
      /\ Codes = {"status_success", "status_internal_error", "status_does_not_exist"}
  BY ViewAssumption DEF ViewsOK, Codes
<1>a. ViewFault => failed' \in 0 .. MaxFailed
  BY <1>0 DEF ViewFault, ViewAssumption
<1>b. Works(c) \/ Fails(c) => failed' \in 0 .. MaxFailed
  BY <1>a DEF Works, Fails
<1>1. CASE PackageInfoRR(c) \/ UserStoryRR(c)
  <2>1. PICK kind \in Views, u \in Users :
           view' = [view EXCEPT ![c] = Blank(kind, u, Complete(u), "role")]
    BY <1>1 DEF PackageInfoRR, UserStoryRR, Ask, Views
  <2>2. Blank(kind, u, Complete(u), "role") \in View
    BY BlankType DEF Codes, Complete
  <2>3. Kept(c)
    BY <1>0, <2>1 DEF Kept, Blank, ViewsOK
  <2> QED
    BY <1>0, <1>1, <2>1, <2>2, <2>3 DEF PackageInfoRR, UserStoryRR, Ask, ViewsOK
<1>2. CASE GetRole(c)
  <2>1. v # None /\ v.pc = "role"
    BY <1>2 DEF GetRole
  <2>2. v \in ViewLocals /\ v.pc \in DOMAIN Order(v.kind)
    BY <1>0, <2>1, ViewingAt
  <2>3. ASSUME NEW r \in Roles, Go(c, [v EXCEPT !.role = r]) PROVE ViewsOK' /\ Kept(c)
    <3> DEFINE w == [v EXCEPT !.role = r]
    <3>1. /\ w \in ViewLocals /\ w.pc = v.pc /\ w.kind = v.kind
          /\ w.user = v.user /\ w.complete = v.complete
      BY <2>2 DEF ViewLocals
    <3> HIDE DEF w
    <3>2. Go(c, w)
      BY <2>3 DEF w
    <3> QED
      BY <1>0, <2>1, <2>2, <3>1, <3>2, GoKept
  <2>4. ViewsOK' /\ Kept(c)
    BY <1>0, <1>2, <2>1, <2>2, <2>3, GoKept DEF GetRole
  <2> QED
    BY <1>2, <1>a, <2>4 DEF GetRole
<1>3. CASE FailedCall(c)
  BY <1>0, <1>3, <1>b, RefuseType DEF FailedCall
<1>4. CASE GetPackage(c)
  <2>1. v # None /\ v.pc = "package"
    BY <1>4 DEF GetPackage
  <2>2. v \in ViewLocals /\ v.pc \in DOMAIN Order(v.kind)
    BY <1>0, <2>1, ViewingAt
  <2> DEFINE w == [v EXCEPT !.seen = {e \in credited : e.user = v.user}]
  <2>3. /\ w \in ViewLocals /\ w.pc = v.pc /\ w.kind = v.kind
        /\ w.user = v.user /\ w.complete = v.complete
    BY <2>2 DEF ViewLocals, TypeOK
  <2>4. Refuse(c, "status_does_not_exist") \/ Go(c, w)
    BY <1>4 DEF GetPackage
  <2> HIDE DEF w
  <2>5. ViewsOK' /\ Kept(c)
    BY <1>0, <2>1, <2>2, <2>3, <2>4, GoKept, RefuseType
  <2> QED
    BY <1>4, <1>b, <2>5 DEF GetPackage
<1>5. CASE GetUserInfo(c)
  <2>1. v # None /\ v.pc = "userInfo"
    BY <1>5 DEF GetUserInfo
  <2>2. v \in ViewLocals /\ v.pc \in DOMAIN Order(v.kind)
    BY <1>0, <2>1, ViewingAt
  <2> DEFINE w == [v EXCEPT !.isRow = users[v.user] # None,
                            !.paid = balance[v.user]]
  <2>3. /\ w \in ViewLocals /\ w.pc = v.pc /\ w.kind = v.kind
        /\ w.user = v.user /\ w.complete = v.complete
    BY <2>2 DEF ViewLocals, TypeOK
  <2>4. Go(c, w)
    BY <1>5 DEF GetUserInfo
  <2> HIDE DEF w
  <2>5. ViewsOK' /\ Kept(c)
    BY <1>0, <2>1, <2>2, <2>3, <2>4, GoKept
  <2> QED
    BY <1>5, <1>b, <2>5 DEF GetUserInfo
<1>6. CASE GetUserRate(c)
  <2>1. v # None /\ v.pc = "userRate"
    BY <1>6 DEF GetUserRate
  <2>2. v \in ViewLocals /\ v.pc \in DOMAIN Order(v.kind) /\ v.user \in Users
    BY <1>0, <2>1, ViewingAt
  <2>3. RatesOf(v.user) \subseteq Nat
    BY <2>2, LenProperties DEF RatesOf
  <2>4. ASSUME NEW r \in RatesOf(v.user), Go(c, [v EXCEPT !.rate = r]) PROVE ViewsOK' /\ Kept(c)
    <3> DEFINE w == [v EXCEPT !.rate = r]
    <3>1. /\ w \in ViewLocals /\ w.pc = v.pc /\ w.kind = v.kind
          /\ w.user = v.user /\ w.complete = v.complete
      BY <2>2, <2>3 DEF ViewLocals
    <3> HIDE DEF w
    <3>2. Go(c, w)
      BY <2>4 DEF w
    <3> QED
      BY <1>0, <2>1, <2>2, <3>1, <3>2, GoKept
  <2>5. ViewsOK' /\ Kept(c)
    BY <1>0, <1>6, <2>1, <2>4, RefuseType DEF GetUserRate
  <2> QED
    BY <1>6, <1>b, <2>5 DEF GetUserRate
<1>7. CASE ViewRateInfo(c)
  <2>1. v # None /\ v.pc = "rateInfo"
    BY <1>7 DEF ViewRateInfo
  <2>2. v \in ViewLocals /\ v.pc \in DOMAIN Order(v.kind)
    BY <1>0, <2>1, ViewingAt
  <2>3. ViewsOK' /\ Kept(c)
    BY <1>0, <1>7, <2>1, <2>2, GoKept, RefuseType DEF ViewRateInfo
  <2> QED
    BY <1>7, <1>b, <2>3 DEF ViewRateInfo
<1>8. CASE GetUserServices(c)
  <2>1. v # None /\ v.pc = "userServices"
    BY <1>8 DEF GetUserServices
  <2>2. v \in ViewLocals /\ v.pc \in DOMAIN Order(v.kind) /\ v.user \in Users
    BY <1>0, <2>1, ViewingAt
  <2> DEFINE live == {i \in ServicesOf(v.user) : <<v.user, i>> \notin over}
             w == [v EXCEPT !.services = live, !.left = live]
  <2>3. live \subseteq Nat
    BY <2>2, LenProperties DEF ServicesOf
  <2>4. /\ w \in ViewLocals /\ w.pc = v.pc /\ w.kind = v.kind
        /\ w.user = v.user /\ w.complete = v.complete
    BY <2>2, <2>3 DEF ViewLocals
  <2>5. Refuse(c, "status_internal_error") \/ Go(c, w)
    BY <1>8 DEF GetUserServices
  <2> HIDE DEF w
  <2>6. ViewsOK' /\ Kept(c)
    BY <1>0, <2>1, <2>2, <2>4, <2>5, GoKept, RefuseType
  <2> QED
    BY <1>8, <1>b, <2>6 DEF GetUserServices
<1>9. ASSUME NEW step \in {"connectedRate", "connectedService"}, NEW rows, rows \subseteq Nat,
             ListRows(c, step, rows)
      PROVE  ViewsOK' /\ Kept(c) /\ failed' \in 0 .. MaxFailed
  <2>1. v # None /\ v.pc = step
    BY <1>9 DEF ListRows
  <2>2. v \in ViewLocals /\ v.pc \in DOMAIN Order(v.kind)
    BY <1>0, <1>9, <2>1, ViewingAt
  <2>3. PICK start \in 0 .. Len(dated[v.user]) :
           Go(c, [v EXCEPT !.left = {i \in rows : start < i}])
    BY <1>9 DEF ListRows
  <2> DEFINE w == [v EXCEPT !.left = {i \in rows : start < i}]
  <2>4. /\ w \in ViewLocals /\ w.pc = v.pc /\ w.kind = v.kind
        /\ w.user = v.user /\ w.complete = v.complete
    BY <1>9, <2>2 DEF ViewLocals
  <2>5. Go(c, w)
    BY <2>3
  <2> HIDE DEF w
  <2>6. ViewsOK' /\ Kept(c)
    BY <1>0, <2>1, <2>2, <2>4, <2>5, GoKept
  <2> QED
    BY <1>9, <1>b, <2>6 DEF ListRows
<1>10. CASE GetUserConnectedRate(c) \/ GetUserConnectedService(c)
  <2>1. v # None /\ v.user \in Users
    BY <1>0, <1>10 DEF GetUserConnectedRate, GetUserConnectedService, ViewsOK, View, ViewLocals
  <2>2. RatesOf(v.user) \subseteq Nat /\ ServicesOf(v.user) \subseteq Nat
    BY <2>1, LenProperties DEF RatesOf, ServicesOf
  <2> QED
    BY <1>9, <1>10, <2>2 DEF GetUserConnectedRate, GetUserConnectedService
<1>11. CASE Describe(c)
  <2>1. v # None /\ v.pc \in Loops /\ v.pc # "reply"
    BY <1>11 DEF Describe, Loops
  <2>2. v \in ViewLocals /\ v.pc \in DOMAIN Order(v.kind)
    BY <1>0, <2>1, ViewingAt
  <2>3. PICK i \in v.left, b \in BOOLEAN :
           Go(c, [[v EXCEPT !.left = v.left \ {i}] EXCEPT !.blank = b])
    BY <1>11, <2>2 DEF Describe, ViewLocals
  <2> DEFINE w == [[v EXCEPT !.left = v.left \ {i}] EXCEPT !.blank = b]
  <2>4. /\ w \in ViewLocals /\ w.pc = v.pc /\ w.kind = v.kind
        /\ w.user = v.user /\ w.complete = v.complete
    BY <2>2 DEF ViewLocals
  <2>5. Go(c, w)
    BY <2>3
  <2> HIDE DEF w
  <2>6. ViewsOK' /\ Kept(c)
    BY <1>0, <2>1, <2>2, <2>4, <2>5, GoKept
  <2>7. Works(c) \/ Fails(c)
    BY <1>11 DEF Describe
  <2> QED
    BY <1>b, <2>6, <2>7
<1>12. CASE GetPayments(c)
  <2>1. v # None /\ v.pc \in {"calls", "sms"}
    BY <1>12 DEF GetPayments
  <2>2. v \in ViewLocals /\ v.pc \in DOMAIN Order(v.kind)
    BY <1>0, <2>1, ViewingAt
  <2> QED
    BY <1>0, <1>12, <1>b, <2>1, <2>2, GoKept DEF GetPayments
<1>13. CASE ViewReply(c)
  BY <1>0, <1>13 DEF ViewReply, ViewsOK, Kept
<1> QED
  BY <1>1, <1>2, <1>3, <1>4, <1>5, <1>6, <1>7, <1>8, <1>10, <1>11, <1>12, <1>13 DEF ViewCall

LEMMA FirstRow ==
    ASSUME NEW u \in Users
    PROVE  /\ <<First(u)>> \in Seq(DatedRow)
           /\ DOMAIN <<First(u)>> = {1} /\ <<First(u)>>[1] = First(u)
           /\ First(u).item \in Listed
BY ViewAssumption DEF First, DatedRow, Offers

(* Every charge is in the score of the account it was taken from, unless a *)
(* later update dropped it.                                                *)
AccountsKept == \A p \in charged : EntryOf(p) \in balance[p.uid] \cup lost

LEMMA InitRecords == ViewInit => ViewTypeOK /\ RowsKept /\ AccountsKept
<1> SUFFICES ASSUME ViewInit PROVE ViewTypeOK /\ RowsKept /\ AccountsKept
  OBVIOUS
<1>1. PICK given \in SUBSET {u \in Users : users[u] # None} :
         dated = [u \in Users |-> IF u \in given THEN <<First(u)>> ELSE <<>>]
  BY DEF ViewInit
<1>2. \A u \in Users : dated[u] = <<First(u)>> \/ dated[u] = <<>>
  BY <1>1
<1>3. DatedOK
  BY <1>1, FirstRow DEF DatedOK
<1>4. \A u \in Users : \A i \in DOMAIN dated[u] : dated[u][i].item \in Listed
  BY <1>2, FirstRow
<1>5. RowsKept
  BY <1>3, <1>4 DEF RowsKept, ViewInit, Init
<1>6. ViewTypeOK
  BY <1>3, ViewAssumption DEF ViewTypeOK, DatedOK, ViewInit
<1>7. AccountsKept
  BY DEF AccountsKept, ViewInit, Init
<1> QED
  BY <1>5, <1>6, <1>7

AccountsOK ==
    /\ balance \in [Users -> SUBSET Entry]
    /\ copy \in [Channels -> SUBSET Entry]
    /\ lost \subseteq Entry

LEMMA ChargeInEntry == \A p \in Charges : EntryOf(p) \in Entry /\ p.uid \in Users
BY DEF Charges, EntryOf, Entry

(* Which charge a step of Billing adds, if any.                            *)
LEMMA ServeCharges ==
    ASSUME TypeOK, Serve
    PROVE  \/ charged' = charged
           \/ \E c \in Channels :
                 /\ At(c, "charge") /\ charged' = charged \cup {ChargeOf(job[c])}
                 /\ \A d \in Channels \ {c} : job'[d] = job[d]
<1>1. ASSUME NEW c \in Clients, RatePaymentRR(c) \/ ServicePaymentRR(c)
      PROVE  charged' = charged
  BY <1>1 DEF RatePaymentRR, ServicePaymentRR, Begin, history
<1>2. ASSUME NEW c \in Admins,
             AdminRateChangeRR(c) \/ AdminServiceChangeRR(c) \/ UpdateUserPackage(c)
      PROVE  charged' = charged
  BY <1>2 DEF AdminRateChangeRR, AdminServiceChangeRR, UpdateUserPackage, Begin, history
<1>3. ASSUME NEW c \in Channels, Call(c), charged' # charged
      PROVE  /\ At(c, "charge") /\ charged' = charged \cup {ChargeOf(job[c])}
             /\ \A d \in Channels \ {c} : job'[d] = job[d]
  BY <1>3, CallHistory, CallTrace DEF At
<1> QED
  BY <1>1, <1>2, <1>3 DEF Serve

LEMMA AccountedStep ==
    ASSUME TypeOK, AccountsOK, AccountsKept, Serve, Accounted
    PROVE  AccountsOK' /\ AccountsKept' /\ lost \subseteq lost'
<1>0. "charge" \in Steps /\ "setScore" \in Steps
  BY DEF Steps
<1>1. /\ charged \subseteq Charges
      /\ lost' = lost \cup UNION {balance[u] \ balance'[u] : u \in Users}
      /\ \A u \in Users : balance[u] \subseteq Entry
  BY DEF Accounted, TypeOK, AccountsOK
<1>2. /\ lost \subseteq lost' /\ lost' \subseteq Entry
      /\ \A u \in Users : balance[u] \subseteq balance'[u] \cup lost'
  BY <1>1 DEF AccountsOK
<1>3. copy' \in [Channels -> SUBSET Entry]
  <2>1. ASSUME NEW c \in Channels PROVE Copied(c) \in SUBSET Entry
    <3>1. CASE Leaves(c, "getUser") /\ job'[c].isRow
      <4>1. job[c].user \in Users
        BY <3>1 DEF Leaves, At, TypeOK, Handler, Job
      <4> QED
        BY <3>1, <4>1 DEF Copied, AccountsOK
    <3>2. CASE ~ (Leaves(c, "getUser") /\ job'[c].isRow)
      BY <3>2 DEF Copied, AccountsOK
    <3> QED
      BY <3>1, <3>2
  <2> QED
    BY <2>1 DEF Accounted
<1>4. ASSUME NEW p \in charged PROVE EntryOf(p) \in balance'[p.uid] \cup lost'
  BY <1>1, <1>2, ChargeInEntry DEF AccountsKept
<1>5. CASE charged' = charged /\ UNCHANGED balance
  BY <1>2, <1>3, <1>4, <1>5 DEF AccountsOK, AccountsKept
<1>6. ASSUME NEW c \in Channels, Leaves(c, "charge"), charged' # charged,
             balance' = [balance EXCEPT ![job[c].uid] = copy[c] \cup {EntryOf(job[c])}]
      PROVE  AccountsOK' /\ AccountsKept'
  <2>1. At(c, "charge") /\ job'[c] # job[c]
    BY <1>6 DEF Leaves, At
  <2>2. EntryOf(job[c]) \in Entry /\ job[c] \in Job /\ job[c].uid \in Users
    BY <1>0, <2>1, HandlerAt DEF Job
  <2>3. charged' = charged \cup {ChargeOf(job[c])}
    BY <1>6, <2>1, ServeCharges
  <2>4. /\ ChargeOf(job[c]).uid = job[c].uid
        /\ EntryOf(ChargeOf(job[c])) = EntryOf(job[c])
    BY DEF ChargeOf, EntryOf
  <2>5. balance' \in [Users -> SUBSET Entry] /\ EntryOf(job[c]) \in balance'[job[c].uid]
    BY <1>6, <2>2 DEF AccountsOK
  <2> QED
    BY <1>2, <1>3, <1>4, <2>3, <2>4, <2>5 DEF AccountsOK, AccountsKept
<1>7. ASSUME NEW c \in Channels, Leaves(c, "setScore"), users' # users,
             balance' = [balance EXCEPT ![job[c].uid] = {}]
      PROVE  AccountsOK' /\ AccountsKept'
  <2>1. At(c, "setScore") /\ job'[c] # job[c]
    BY <1>7 DEF Leaves, At
  <2>2. charged' = charged
    <3>1. ~ At(c, "charge")
      BY <2>1 DEF At
    <3> QED
      BY <2>1, <3>1, ServeCharges
  <2>3. balance' \in [Users -> SUBSET Entry]
    BY <1>7 DEF AccountsOK
  <2> QED
    BY <1>2, <1>3, <1>4, <2>2, <2>3 DEF AccountsOK, AccountsKept
<1> QED
  BY <1>2, <1>5, <1>6, <1>7 DEF Accounted, Balanced

LEMMA RecordsStep ==
    ASSUME TypeOK, ViewTypeOK, RowsKept, AccountsKept, [ViewNext]_viewVars
    PROVE  ViewTypeOK' /\ RowsKept' /\ AccountsKept'
<1>1. CASE Serve /\ Dated /\ Accounted /\ UNCHANGED <<over, view, failed>>
  <2>1. RowsKept'
    BY <1>1, ServeGrows, DatedStep
  <2>2. AccountsOK' /\ AccountsKept'
    BY <1>1, AccountedStep DEF ViewTypeOK, AccountsOK
  <2> QED
    BY <1>1, <2>1, <2>2 DEF ViewTypeOK, RowsKept, DatedOK, AccountsOK
<1>2. ASSUME NEW c \in Viewers, ViewCall(c) PROVE ViewTypeOK' /\ RowsKept' /\ AccountsKept'
  <2>1. UNCHANGED <<billing, accounts, dated, over>>
    BY <1>2, ViewCallFrame
  <2>2. ViewsOK' /\ failed' \in 0 .. MaxFailed
    BY <1>2, ViewCallType
  <2> QED
    BY <2>1, <2>2 DEF ViewTypeOK, ViewsOK, RowsKept, DatedOK, AccountsKept, billing, accounts
<1>3. ASSUME NEW u \in Users, Expire(u) PROVE ViewTypeOK' /\ RowsKept' /\ AccountsKept'
  <2>1. PICK i \in ServicesOf(u) : over' = over \cup {<<u, i>>}
    BY <1>3 DEF Expire
  <2>2. i \in Nat
    BY LenProperties DEF ServicesOf, ViewTypeOK
  <2>3. over' \subseteq Users \X Nat
    BY <2>1, <2>2 DEF ViewTypeOK
  <2> QED
    BY <1>3, <2>3 DEF Expire, ViewTypeOK, RowsKept, DatedOK, AccountsKept, billing, accounts
<1>4. CASE ViewCrash
  BY <1>4 DEF ViewCrash, ViewTypeOK, RowsKept, DatedOK, AccountsKept, tables, history
<1>5. CASE UNCHANGED viewVars
  BY <1>5 DEF viewVars, ViewTypeOK, RowsKept, DatedOK, AccountsKept
<1>6. CASE Register /\ UNCHANGED <<accounts, dated, over, view, failed>>
  BY <1>6, RegisterGrows DEF ViewTypeOK, RowsKept, DatedOK, AccountsKept, accounts, history
<1>7. ASSUME NEW u \in Users, ConnectFirst(u)
      PROVE  ViewTypeOK' /\ RowsKept' /\ AccountsKept'
  <2>1. RowsKept'
    BY <1>7, FirstStep
  <2> QED
    BY <1>7, <2>1 DEF ConnectFirst, ViewTypeOK, RowsKept, DatedOK, AccountsKept, billing,
                      accounts
<1> QED
  BY <1>1, <1>2, <1>3, <1>4, <1>5, <1>6, <1>7 DEF ViewNext, ViewServe

LEMMA RecordsAlways == ViewSpec => [](TypeOK /\ ViewTypeOK /\ RowsKept /\ AccountsKept)
<1>1. ViewInit => Init
  BY DEF ViewInit
<1>2. TypeOK /\ ViewTypeOK /\ RowsKept /\ AccountsKept /\ [ViewNext]_viewVars =>
         (TypeOK /\ ViewTypeOK /\ RowsKept /\ AccountsKept)'
  BY ViewStep, NextType, RecordsStep
<1> QED
  BY <1>1, <1>2, InitType, InitRecords, PTL DEF ViewSpec

(* Every view stays on the script of its function, with positions of rows  *)
(* and entries for what it read, whatever Billing inserts meanwhile.       *)
THEOREM ViewTypeCorrect == ViewSpec => []ViewTypeOK
<1>1. TypeOK /\ ViewTypeOK /\ RowsKept /\ AccountsKept => ViewTypeOK
  OBVIOUS
<1> QED
  BY <1>1, RecordsAlways, PTL

-----------------------------------------------------------------------------
(* What a view has read.                                                    *)

Answered(v) == v.pc = "reply" /\ v.code = "status_success"
AccountRead(v) ==
    /\ v.kind = "package"
    /\ v.pc \in {"userRate", "rateInfo", "userServices", "serviceInfo"} \/ Answered(v)
RateRead(v) ==
    /\ v.kind = "package"
    /\ v.pc \in {"rateInfo", "userServices", "serviceInfo"} \/ Answered(v)
ServicesRead(v) == v.kind = "package" /\ (v.pc = "serviceInfo" \/ Answered(v))

(* The credits a view has seen are of its user; what it has read since     *)
(* accounts for them: his rows are never removed, and a row that was not   *)
(* yet there when the package was read is no credit of it.                 *)
Explained(v) ==
    \A e \in v.seen :
        /\ e \in credited /\ e.user = v.user
        /\ \E i \in DOMAIN dated[v.user] :
              /\ dated[v.user][i] = e
              /\ RateRead(v) /\ e.item \in Rates => i <= v.rate
              /\ ServicesRead(v) /\ e.item \in Services =>
                    i \in v.services \/ <<v.user, i>> \in over

Current(v) ==
    AccountRead(v) =>
        \A p \in charged :
            EntryOf(p) \in v.seen /\ p.isRow => EntryOf(p) \in v.paid \cup lost

(* The account was read after a package, which only a user with an account *)
(* has; a list is left when none of its rows is; details are missing only  *)
(* after a failure.                                                        *)
Described(v) ==
    /\ v.isRow
    /\ v.kind = "package" /\ v.pc = "userInfo" => package_state[v.user] # None
    /\ v.pc \notin Loops => v.left = {}
    /\ v.left \subseteq DOMAIN dated[v.user]
    /\ v.pc = "rateInfo" => v.rate \in DOMAIN dated[v.user]
    /\ failed = 0 => v.role = "own" /\ ~ v.blank

Excused(v) ==
    v.pc = "reply" /\ v.code # "status_success" /\ failed = 0 =>
        /\ v.kind = "package"
        /\ \/ ~ v.complete
           \/ \E i \in DOMAIN dated[v.user] : dated[v.user][i].item \in LongLived

Sound(v) == Explained(v) /\ Current(v) /\ Described(v) /\ Excused(v)

ViewsSound == \A c \in Viewers : view[c] # None => Sound(view[c])

(* Who was complete when he asked still is.                                *)
StillComplete ==
    \A c \in Viewers : view[c] # None /\ view[c].complete => Complete(view[c].user)

(* What goes on beside a view.                                             *)
Around ==
    /\ Longer /\ ChargedBefore
    /\ credited \subseteq credited' /\ over \subseteq over'
    /\ failed' = 0 => failed = 0
    /\ lost \subseteq lost'
    /\ \A u \in Users : package_state[u] # None => package_state'[u] # None

LEMMA CompleteStays ==
    ASSUME Around, NEW u \in Users, Complete(u)
    PROVE  Complete(u)'
BY DEF Around, Longer, Complete, FirstsOf, First

LEMMA OtherViews ==
    ASSUME ViewTypeOK, ViewsSound, Around, NEW c \in Viewers, view[c] # None,
           view'[c] = view[c]
    PROVE  Sound(view[c])'
<1> DEFINE v == view[c]
<1>1. v.user \in Users /\ Sound(v)
  BY DEF ViewTypeOK, View, ViewLocals, ViewsSound
<1>2. /\ DOMAIN dated[v.user] \subseteq DOMAIN dated'[v.user]
      /\ \A i \in DOMAIN dated[v.user] : dated'[v.user][i] = dated[v.user][i]
      /\ package_state[v.user] # None => package_state'[v.user] # None
  BY <1>1 DEF Around, Longer
<1>3. Explained(v)'
  <2>1. ASSUME NEW e \in v.seen
        PROVE  /\ e \in credited' /\ e.user = v.user
               /\ \E i \in DOMAIN dated'[v.user] :
                     /\ dated'[v.user][i] = e
                     /\ RateRead(v) /\ e.item \in Rates => i <= v.rate
                     /\ ServicesRead(v) /\ e.item \in Services =>
                           i \in v.services \/ <<v.user, i>> \in over'
    <3>1. /\ e \in credited /\ e.user = v.user
          /\ \E i \in DOMAIN dated[v.user] :
                /\ dated[v.user][i] = e
                /\ RateRead(v) /\ e.item \in Rates => i <= v.rate
                /\ ServicesRead(v) /\ e.item \in Services =>
                      i \in v.services \/ <<v.user, i>> \in over
      BY <1>1, <2>1 DEF Sound, Explained
    <3> QED
      BY <1>2, <3>1 DEF Around
  <2> QED
    BY <2>1 DEF Explained, RateRead, ServicesRead, Answered
<1>4. Current(v)'
  <2>1. v.seen \subseteq credited /\ Current(v)
    BY <1>1 DEF Sound, Explained
  <2>2. ASSUME NEW p \in charged', EntryOf(p) \in v.seen PROVE p \in charged
    BY <2>1, <2>2 DEF Around, ChargedBefore
  <2>3. ASSUME NEW p \in charged', EntryOf(p) \in v.seen, p.isRow, AccountRead(v)
        PROVE  EntryOf(p) \in v.paid \cup lost'
    BY <2>1, <2>2, <2>3 DEF Current, Around
  <2> QED
    BY <2>3 DEF Current, AccountRead, Answered, EntryOf
<1>5. Described(v)'
  BY <1>1, <1>2 DEF Sound, Described, Around
<1>6. Excused(v)'
  BY <1>1, <1>2 DEF Sound, Excused, Around
<1> QED
  BY <1>3, <1>4, <1>5, <1>6 DEF Sound

(* A refusal shows nothing, and is sound when it is excused.               *)
LEMMA RefuseSound ==
    ASSUME ViewTypeOK, NEW c \in Viewers, view[c] # None, NEW code \in Codes, Refuse(c, code),
           failed' = 0 =>
               /\ view[c].kind = "package" /\ UNCHANGED dated
               /\ \/ ~ view[c].complete
                  \/ \E i \in DOMAIN dated[view[c].user] :
                        dated[view[c].user][i].item \in LongLived
    PROVE  Sound(view[c])'
<1>1. view'[c] = [Blank(view[c].kind, view[c].user, view[c].complete, "reply")
                    EXCEPT !.code = code]
  BY RefuseType DEF ViewTypeOK, ViewsOK
<1>2. /\ view'[c].kind = view[c].kind /\ view'[c].user = view[c].user
      /\ view'[c].complete = view[c].complete
      /\ view'[c].pc = "reply" /\ view'[c].role = "own" /\ view'[c].seen = {}
      /\ view'[c].isRow = TRUE /\ view'[c].left = {} /\ view'[c].blank = FALSE
  BY <1>1 DEF Blank
<1>3. Explained(view[c])' /\ Current(view[c])'
  BY <1>2 DEF Explained, Current
<1>4. Described(view[c])'
  BY <1>2 DEF Described
<1>5. Excused(view[c])'
  BY <1>2 DEF Excused
<1> QED
  BY <1>3, <1>4, <1>5 DEF Sound

LEMMA AskSound ==
    ASSUME NEW c \in Viewers, ViewTypeOK, PackageInfoRR(c) \/ UserStoryRR(c)
    PROVE  Sound(view[c])'
<1>1. PICK kind \in Views, u \in Users : view' = [view EXCEPT ![c] = Blank(kind, u, Complete(u), "role")]
  BY DEF PackageInfoRR, UserStoryRR, Ask, Views
<1>2. view'[c] = Blank(kind, u, Complete(u), "role")
  BY <1>1 DEF ViewTypeOK
<1>3. /\ view'[c].pc = "role" /\ view'[c].role = "own" /\ view'[c].seen = {}
      /\ view'[c].isRow = TRUE /\ view'[c].left = {} /\ view'[c].blank = FALSE
  BY <1>2 DEF Blank
<1> QED
  BY <1>3 DEF Sound, Explained, Current, Described, Excused, Loops

(* What a call finds that goes on with the view.                           *)
LEMMA CallStarts ==
    ASSUME ViewTypeOK, ViewsSound, NEW c \in Viewers, view[c] # None, view[c].pc # "reply"
    PROVE  /\ ViewsOK /\ view[c] \in ViewLocals /\ view[c].user \in Users
           /\ view[c].kind \in Views
           /\ view[c].pc \in DOMAIN Order(view[c].kind)
           /\ view[c].kind = "package" => view[c].pc \in DOMAIN getPackageState
           /\ view[c].kind = "story" => view[c].pc \in DOMAIN getUserStory
           /\ Explained(view[c]) /\ Current(view[c]) /\ Described(view[c])
BY ViewingAt DEF ViewTypeOK, ViewsOK, ViewsSound, Sound, Order

LEMMA RoleSound ==
    ASSUME ViewTypeOK, ViewsSound, NEW c \in Viewers, GetRole(c)
    PROVE  Sound(view[c])'
<1> DEFINE v == view[c]
<1>1. v # None /\ v.pc = "role" /\ UNCHANGED <<billing, accounts, dated, over>>
  BY DEF GetRole, Viewing
<1>2. /\ ViewsOK /\ v \in ViewLocals /\ v.kind \in Views
      /\ v.pc \in DOMAIN Order(v.kind)
      /\ v.kind = "package" => v.pc \in DOMAIN getPackageState
      /\ v.kind = "story" => v.pc \in DOMAIN getUserStory
      /\ Explained(v) /\ Current(v) /\ Described(v)
  BY <1>1, CallStarts
<1>3. PICK r \in Roles : /\ Go(c, [v EXCEPT !.role = r])
                         /\ failed' = 0 => failed = 0 /\ r = v.role
  <2>1. CASE Go(c, v) /\ UNCHANGED failed
    <3>1. v.role \in Roles /\ [v EXCEPT !.role = v.role] = v
      BY <1>2 DEF ViewLocals
    <3> QED
      BY <2>1, <3>1
  <2>2. ASSUME ViewFault, NEW r \in Roles, Go(c, [v EXCEPT !.role = r])
        PROVE  failed' # 0
    BY <2>2, ViewAssumption DEF ViewFault, ViewTypeOK
  <2> QED
    BY <2>1, <2>2 DEF GetRole
<1> DEFINE w == [v EXCEPT !.role = r]
<1>4. /\ w \in ViewLocals /\ w.pc = v.pc /\ w.kind = v.kind /\ w.user = v.user
      /\ w.seen = v.seen /\ w.isRow = v.isRow /\ w.left = v.left /\ w.blank = v.blank
      /\ w.role = r
  BY <1>2 DEF ViewLocals
<1>5. Go(c, w)
  BY <1>3
<1> HIDE DEF w
<1>6. /\ view'[c].user = v.user
      /\ view'[c].role = r /\ view'[c].seen = v.seen /\ view'[c].isRow = v.isRow
      /\ view'[c].left = v.left /\ view'[c].blank = v.blank /\ view'[c].pc = NextCall(w)
  BY <1>2, <1>4, <1>5, GoFields
<1>7. NextCall(w) \in {"package", "connectedRate"}
  BY <1>1, <1>2, <1>4, PackageOrder, StoryOrder DEF Views
<1>8. Explained(view[c])'
  BY <1>1, <1>2, <1>6, <1>7 DEF Explained, RateRead, ServicesRead, Answered, billing
<1>9. Current(view[c])'
  BY <1>6, <1>7 DEF Current, AccountRead, Answered
<1>10. Described(view[c])'
  <2>1. v.left = {}
    BY <1>1, <1>2 DEF Described, Loops
  <2> QED
    BY <1>1, <1>2, <1>3, <1>6, <1>7, <2>1 DEF Described
<1>11. Excused(view[c])'
  BY <1>6, <1>7 DEF Excused
<1> QED
  BY <1>8, <1>9, <1>10, <1>11 DEF Sound

LEMMA FailedSound ==
    ASSUME ViewTypeOK, ViewsSound, NEW c \in Viewers, FailedCall(c)
    PROVE  Sound(view[c])'
<1>1. /\ view[c] # None /\ view[c].pc # "reply"
      /\ Fails(c) /\ Refuse(c, "status_internal_error")
  BY DEF FailedCall
<1>2. failed' # 0
  <2>1. Described(view[c]) /\ failed \in Nat
    BY <1>1, CallStarts, ViewAssumption DEF ViewTypeOK
  <2> QED
    BY <1>1, <2>1 DEF Fails, ViewFault, Described
<1> QED
  BY <1>1, <1>2, RefuseSound DEF Codes

LEMMA PackageSound ==
    ASSUME TypeOK, CreditedIsConnected, ViewTypeOK, RowsKept, ViewsSound, StillComplete,
           NEW c \in Viewers, GetPackage(c)
    PROVE  Sound(view[c])'
<1> DEFINE v == view[c]
<1>1. /\ v # None /\ v.pc = "package" /\ UNCHANGED <<billing, accounts, dated, over>>
      /\ UNCHANGED failed
  BY DEF GetPackage, Viewing, Works
<1>2. /\ ViewsOK /\ v \in ViewLocals /\ v.user \in Users
      /\ v.kind = "package"
      /\ v.pc \in DOMAIN Order(v.kind) /\ v.pc \in DOMAIN getPackageState
      /\ Explained(v) /\ Described(v)
  BY <1>1, CallStarts, ViewingAt
<1>3. CASE package_state[v.user] = None
  <2>1. Refuse(c, "status_does_not_exist")
    BY <1>3 DEF GetPackage
  <2>2. ~ v.complete
    BY <1>1, <1>3 DEF StillComplete, Complete
  <2> QED
    BY <1>1, <1>2, <2>1, <2>2, RefuseSound DEF Codes
<1>4. CASE package_state[v.user] # None
  <2> DEFINE w == [v EXCEPT !.seen = {e \in credited : e.user = v.user}]
  <2>1. /\ w \in ViewLocals /\ w.pc = v.pc /\ w.kind = v.kind /\ w.user = v.user
        /\ w.role = v.role /\ w.isRow = v.isRow /\ w.left = v.left /\ w.blank = v.blank
        /\ w.seen = {e \in credited : e.user = v.user}
    BY <1>2 DEF ViewLocals, TypeOK
  <2>2. Go(c, w)
    BY <1>4 DEF GetPackage
  <2> HIDE DEF w
  <2>3. /\ view'[c].user = v.user /\ view'[c].role = v.role
        /\ view'[c].seen = {e \in credited : e.user = v.user}
        /\ view'[c].isRow = v.isRow
        /\ view'[c].left = v.left /\ view'[c].blank = v.blank /\ view'[c].pc = "userInfo"
    BY <1>1, <1>2, <2>1, <2>2, GoFields, PackageOrder
  <2>4. Explained(view[c])'
    <3>1. ASSUME NEW e \in credited, e.user = v.user
          PROVE  \E i \in DOMAIN dated[v.user] : dated[v.user][i] = e
      BY <3>1 DEF CreditedIsConnected, RowsKept
    <3> QED
      BY <1>1, <2>3, <3>1 DEF Explained, RateRead, ServicesRead, Answered, billing
  <2>5. Current(view[c])'
    BY <2>3 DEF Current, AccountRead, Answered
  <2>6. Described(view[c])'
    BY <1>1, <1>2, <1>4, <2>3 DEF Described, Loops, billing
  <2>7. Excused(view[c])'
    BY <2>3 DEF Excused
  <2> QED
    BY <2>4, <2>5, <2>6, <2>7 DEF Sound
<1> QED
  BY <1>3, <1>4

LEMMA AccountSound ==
    ASSUME TypeOK, ChargedIsConnected, ViewTypeOK, RowsKept, AccountsKept, ViewsSound,
           NEW c \in Viewers, GetUserInfo(c)
    PROVE  Sound(view[c])'
<1> DEFINE v == view[c]
<1>1. /\ v # None /\ v.pc = "userInfo" /\ UNCHANGED <<billing, accounts, dated, over>>
      /\ UNCHANGED failed
  BY DEF GetUserInfo, Viewing, Works
<1>2. /\ ViewsOK /\ v \in ViewLocals /\ v.user \in Users
      /\ v.kind = "package"
      /\ v.pc \in DOMAIN Order(v.kind) /\ v.pc \in DOMAIN getPackageState
      /\ Explained(v) /\ Described(v)
  BY <1>1, CallStarts, ViewingAt
<1>3. users[v.user] # None
  BY <1>1, <1>2 DEF Described, RowsKept
<1> DEFINE w == [v EXCEPT !.isRow = users[v.user] # None,
                          !.paid = balance[v.user]]
<1>4. /\ w \in ViewLocals /\ w.pc = v.pc /\ w.kind = v.kind /\ w.user = v.user
      /\ w.role = v.role /\ w.left = v.left /\ w.blank = v.blank /\ w.seen = v.seen
      /\ w.isRow = TRUE /\ w.paid = balance[v.user]
  BY <1>2, <1>3 DEF ViewLocals, ViewTypeOK
<1>5. Go(c, w)
  BY DEF GetUserInfo
<1> HIDE DEF w
<1>6. /\ view'[c].user = v.user /\ view'[c].role = v.role /\ view'[c].seen = v.seen
      /\ view'[c].paid = balance[v.user] /\ view'[c].isRow = TRUE
      /\ view'[c].left = v.left /\ view'[c].blank = v.blank /\ view'[c].pc = "userRate"
  BY <1>1, <1>2, <1>4, <1>5, GoFields, PackageOrder
<1>7. Explained(view[c])'
  BY <1>1, <1>2, <1>6 DEF Explained, RateRead, ServicesRead, Answered, billing
<1>8. Current(view[c])'
  <2>1. ASSUME NEW p \in charged, EntryOf(p) \in v.seen, p.isRow
        PROVE  EntryOf(p) \in balance[v.user] \cup lost
    <3>1. p.uid = v.user
      BY <1>2, <2>1 DEF Explained, ChargedIsConnected, EntryOf
    <3> QED
      BY <3>1 DEF AccountsKept
  <2> QED
    BY <1>1, <1>6, <2>1 DEF Current, billing, accounts, EntryOf
<1>9. Described(view[c])'
  BY <1>1, <1>2, <1>6 DEF Described, Loops
<1>10. Excused(view[c])'
  BY <1>6 DEF Excused
<1> QED
  BY <1>7, <1>8, <1>9, <1>10 DEF Sound

LEMMA RateSound ==
    ASSUME ViewTypeOK, ViewsSound, StillComplete, NEW c \in Viewers, GetUserRate(c)
    PROVE  Sound(view[c])'
<1> DEFINE v == view[c]
           rates == RatesOf(v.user)
<1>1. /\ v # None /\ v.pc = "userRate" /\ UNCHANGED <<billing, accounts, dated, over>>
      /\ UNCHANGED failed
  BY DEF GetUserRate, Viewing, Works
<1>2. /\ ViewsOK /\ v \in ViewLocals /\ v.user \in Users
      /\ v.kind = "package"
      /\ v.pc \in DOMAIN Order(v.kind) /\ v.pc \in DOMAIN getPackageState
      /\ Explained(v) /\ Current(v) /\ Described(v)
  BY <1>1, CallStarts, ViewingAt
<1>3. rates \subseteq DOMAIN dated[v.user] /\ rates \subseteq Nat
  BY <1>2, LenProperties DEF RatesOf, ViewTypeOK
<1>4. CASE rates = {}
  <2>1. Refuse(c, "status_does_not_exist")
    BY <1>4 DEF GetUserRate
  <2>2. ~ v.complete
    <3>1. \A i \in FirstsOf(v.user) : i \in rates
      BY ViewAssumption DEF FirstsOf, First, RatesOf
    <3> QED
      BY <1>1, <1>4, <3>1 DEF StillComplete, Complete
  <2> QED
    BY <1>1, <1>2, <2>1, <2>2, RefuseSound DEF Codes
<1>5. ASSUME NEW r \in rates, \A q \in rates : q <= r, Go(c, [v EXCEPT !.rate = r])
      PROVE  Sound(view[c])'
  <2> DEFINE w == [v EXCEPT !.rate = r]
  <2>1. /\ w \in ViewLocals /\ w.pc = v.pc /\ w.kind = v.kind /\ w.user = v.user
        /\ w.role = v.role /\ w.left = v.left /\ w.blank = v.blank /\ w.seen = v.seen
        /\ w.isRow = v.isRow /\ w.paid = v.paid /\ w.rate = r
    BY <1>2, <1>3 DEF ViewLocals
  <2>2. Go(c, w)
    BY <1>5
  <2> HIDE DEF w
  <2>3. /\ view'[c].user = v.user /\ view'[c].role = v.role /\ view'[c].seen = v.seen
        /\ view'[c].paid = v.paid /\ view'[c].isRow = v.isRow /\ view'[c].rate = r
        /\ view'[c].left = v.left /\ view'[c].blank = v.blank /\ view'[c].pc = "rateInfo"
    BY <1>1, <1>2, <2>1, <2>2, GoFields, PackageOrder
  <2>4. ASSUME NEW i \in DOMAIN dated[v.user], dated[v.user][i].item \in Rates
        PROVE  i <= r
    BY <1>5, <2>4 DEF RatesOf
  <2>5. Explained(view[c])'
    BY <1>1, <1>2, <2>3, <2>4 DEF Explained, ServicesRead, Answered, billing
  <2>6. Current(view[c])'
    BY <1>1, <1>2, <2>3 DEF Current, AccountRead, billing, accounts
  <2>7. Described(view[c])'
    BY <1>1, <1>2, <1>3, <2>3 DEF Described, Loops
  <2>8. Excused(view[c])'
    BY <2>3 DEF Excused
  <2> QED
    BY <2>5, <2>6, <2>7, <2>8 DEF Sound
<1> QED
  BY <1>4, <1>5 DEF GetUserRate

LEMMA RateInfoSound ==
    ASSUME ViewTypeOK, RowsKept, ViewsSound, NEW c \in Viewers, ViewRateInfo(c)
    PROVE  Sound(view[c])'
<1> DEFINE v == view[c]
<1>1. /\ v # None /\ v.pc = "rateInfo" /\ UNCHANGED <<billing, accounts, dated, over>>
      /\ UNCHANGED failed
  BY DEF ViewRateInfo, Viewing, Works
<1>2. /\ ViewsOK /\ v \in ViewLocals /\ v.user \in Users
      /\ v.kind = "package"
      /\ v.pc \in DOMAIN Order(v.kind) /\ v.pc \in DOMAIN getPackageState
      /\ Explained(v) /\ Current(v) /\ Described(v)
  BY <1>1, CallStarts, ViewingAt
<1>3. dated[v.user][v.rate].item \in Listed
  BY <1>1, <1>2 DEF Described, RowsKept
<1>4. Go(c, v)
  BY <1>3 DEF ViewRateInfo
<1>5. /\ view'[c].user = v.user /\ view'[c].role = v.role /\ view'[c].seen = v.seen
      /\ view'[c].paid = v.paid /\ view'[c].isRow = v.isRow /\ view'[c].rate = v.rate
      /\ view'[c].left = v.left /\ view'[c].blank = v.blank /\ view'[c].pc = "userServices"
  BY <1>1, <1>2, <1>4, GoFields, PackageOrder
<1>6. Explained(view[c])'
  BY <1>1, <1>2, <1>5 DEF Explained, RateRead, ServicesRead, Answered, billing
<1>7. Current(view[c])'
  BY <1>1, <1>2, <1>5 DEF Current, AccountRead, billing, accounts
<1>8. Described(view[c])'
  BY <1>1, <1>2, <1>5 DEF Described, Loops
<1>9. Excused(view[c])'
  BY <1>5 DEF Excused
<1> QED
  BY <1>6, <1>7, <1>8, <1>9 DEF Sound

LEMMA ServicesSound ==
    ASSUME ViewTypeOK, ViewsSound, NEW c \in Viewers, GetUserServices(c)
    PROVE  Sound(view[c])'
<1> DEFINE v == view[c]
           live == {i \in ServicesOf(v.user) : <<v.user, i>> \notin over}
<1>1. /\ v # None /\ v.pc = "userServices" /\ UNCHANGED <<billing, accounts, dated, over>>
      /\ UNCHANGED failed
  BY DEF GetUserServices, Viewing, Works
<1>2. /\ ViewsOK /\ v \in ViewLocals /\ v.user \in Users
      /\ v.kind = "package"
      /\ v.pc \in DOMAIN Order(v.kind) /\ v.pc \in DOMAIN getPackageState
      /\ Explained(v) /\ Current(v) /\ Described(v)
  BY <1>1, CallStarts, ViewingAt
<1>3. live \subseteq DOMAIN dated[v.user] /\ live \subseteq Nat
  BY <1>2, LenProperties DEF ServicesOf, ViewTypeOK
<1>4. CASE \E i \in ServicesOf(v.user) : dated[v.user][i].item \in LongLived
  <2>1. Refuse(c, "status_internal_error")
    BY <1>4 DEF GetUserServices
  <2>2. \E i \in DOMAIN dated[v.user] : dated[v.user][i].item \in LongLived
    BY <1>4 DEF ServicesOf
  <2> QED
    BY <1>1, <1>2, <2>1, <2>2, RefuseSound DEF Codes
<1>5. CASE ~ \E i \in ServicesOf(v.user) : dated[v.user][i].item \in LongLived
  <2> DEFINE w == [v EXCEPT !.services = live, !.left = live]
  <2>1. /\ w \in ViewLocals /\ w.pc = v.pc /\ w.kind = v.kind /\ w.user = v.user
        /\ w.role = v.role /\ w.left = live /\ w.blank = v.blank /\ w.seen = v.seen
        /\ w.isRow = v.isRow /\ w.paid = v.paid /\ w.rate = v.rate /\ w.services = live
    BY <1>2, <1>3 DEF ViewLocals
  <2>2. Go(c, w)
    BY <1>5 DEF GetUserServices
  <2> HIDE DEF w
  <2>3. /\ view'[c].user = v.user /\ view'[c].role = v.role /\ view'[c].seen = v.seen
        /\ view'[c].paid = v.paid /\ view'[c].isRow = v.isRow /\ view'[c].rate = v.rate
        /\ view'[c].services = live /\ view'[c].left = live /\ view'[c].blank = v.blank
        /\ view'[c].pc = NextCall(w)
        /\ view'[c].pc = "reply" => view'[c].code = "status_success"
    BY <1>2, <2>1, <2>2, GoFields
  <2>4. NextCall(w) = IF live = {} THEN "reply" ELSE "serviceInfo"
    BY <1>1, <1>2, <2>1, PackageOrder
  <2>5. ASSUME NEW i \in DOMAIN dated[v.user], dated[v.user][i].item \in Services
        PROVE  i \in live \/ <<v.user, i>> \in over
    BY <2>5 DEF ServicesOf
  <2>6. Explained(view[c])'
    <3>1. ASSUME NEW e \in v.seen
          PROVE  /\ e \in credited /\ e.user = v.user
                 /\ \E i \in DOMAIN dated[v.user] :
                       /\ dated[v.user][i] = e
                       /\ e.item \in Rates => i <= v.rate
                       /\ e.item \in Services => i \in live \/ <<v.user, i>> \in over
      <4>1. RateRead(v)
        BY <1>1, <1>2 DEF RateRead
      <4> QED
        BY <1>2, <2>5, <3>1, <4>1 DEF Explained
    <3> HIDE DEF live
    <3> QED
      BY <1>1, <2>3, <3>1 DEF Explained, billing
  <2>7. Current(view[c])'
    BY <1>1, <1>2, <2>3 DEF Current, AccountRead, billing, accounts
  <2>8. Described(view[c])'
    <3> HIDE DEF live
    <3> QED
      BY <1>1, <1>2, <1>3, <2>3, <2>4 DEF Described, Loops
  <2>9. Excused(view[c])'
    BY <2>3 DEF Excused
  <2> QED
    BY <2>6, <2>7, <2>8, <2>9 DEF Sound
<1> QED
  BY <1>4, <1>5

LEMMA RowsSound ==
    ASSUME ViewTypeOK, ViewsSound, NEW c \in Viewers,
           NEW step \in {"connectedRate", "connectedService"}, NEW rows,
           rows \subseteq DOMAIN dated[view[c].user], view[c] # None, ListRows(c, step, rows)
    PROVE  Sound(view[c])'
<1> DEFINE v == view[c]
<1>1. /\ v # None /\ v.pc = step /\ UNCHANGED <<billing, accounts, dated, over>>
      /\ UNCHANGED failed
  BY DEF ListRows, Viewing, Works
<1>2. /\ ViewsOK /\ v \in ViewLocals /\ v.user \in Users
      /\ v.kind = "story"
      /\ v.pc \in DOMAIN Order(v.kind) /\ v.pc \in DOMAIN getUserStory
      /\ Explained(v) /\ Described(v)
  BY <1>1, CallStarts, ViewingAt
<1>3. PICK start \in 0 .. Len(dated[v.user]) :
         Go(c, [v EXCEPT !.left = {i \in rows : start < i}])
  BY DEF ListRows
<1> DEFINE left == {i \in rows : start < i}
           w == [v EXCEPT !.left = left]
<1>4. left \subseteq DOMAIN dated[v.user] /\ left \subseteq Nat
  BY <1>2, LenProperties DEF ViewTypeOK
<1>5. Go(c, w)
  BY <1>3
<1> HIDE DEF left
<1>6. /\ w \in ViewLocals /\ w.pc = v.pc /\ w.kind = v.kind /\ w.user = v.user
      /\ w.role = v.role /\ w.left = left /\ w.blank = v.blank /\ w.seen = v.seen
      /\ w.isRow = v.isRow
  BY <1>2, <1>4 DEF ViewLocals
<1> HIDE DEF w
<1>7. /\ view'[c].user = v.user /\ view'[c].role = v.role /\ view'[c].seen = v.seen
      /\ view'[c].isRow = v.isRow /\ view'[c].kind = "story"
      /\ view'[c].left = left /\ view'[c].blank = v.blank /\ view'[c].pc = NextCall(w)
  BY <1>2, <1>5, <1>6, GoFields
<1>8. NextCall(w) \in {"eachRate", "connectedService", "serviceInfo", "calls"}
  BY <1>1, <1>2, <1>6, StoryOrder
<1>9. left # {} => NextCall(w) \in Loops
  BY <1>1, <1>2, <1>6, StoryOrder DEF Loops
<1>10. Explained(view[c])'
  BY <1>1, <1>2, <1>7 DEF Explained, RateRead, ServicesRead, billing
<1>11. Current(view[c])'
  BY <1>7 DEF Current, AccountRead
<1>12. Described(view[c])'
  BY <1>1, <1>2, <1>4, <1>7, <1>8, <1>9 DEF Described
<1>13. Excused(view[c])'
  BY <1>7, <1>8 DEF Excused
<1> QED
  BY <1>10, <1>11, <1>12, <1>13 DEF Sound

LEMMA DescribeSound ==
    ASSUME ViewTypeOK, RowsKept, ViewsSound, NEW c \in Viewers, Describe(c)
    PROVE  Sound(view[c])'
<1> DEFINE v == view[c]
<1>1. /\ v # None /\ v.pc \in Loops /\ v.pc # "reply" /\ UNCHANGED <<billing, accounts, dated, over>>
  BY DEF Describe, Loops
<1>2. /\ ViewsOK /\ v \in ViewLocals /\ v.user \in Users /\ v.kind \in Views
      /\ v.pc \in DOMAIN Order(v.kind)
      /\ v.kind = "package" => v.pc \in DOMAIN getPackageState
      /\ v.kind = "story" => v.pc \in DOMAIN getUserStory
      /\ Explained(v) /\ Current(v) /\ Described(v)
  BY <1>1, CallStarts
<1>3. failed \in Nat
  BY ViewAssumption DEF ViewTypeOK
<1>4. PICK i \in v.left, b \in BOOLEAN :
         /\ Go(c, [[v EXCEPT !.left = v.left \ {i}] EXCEPT !.blank = b])
         /\ failed' = 0 => failed = 0 /\ ~ b
  <2>1. PICK i \in v.left :
           \/ /\ Works(c)
              /\ Go(c, [[v EXCEPT !.left = v.left \ {i}] EXCEPT
                          !.blank = v.blank \/ dated[v.user][i].item \notin Listed])
           \/ Fails(c) /\ Go(c, [[v EXCEPT !.left = v.left \ {i}] EXCEPT !.blank = TRUE])
    BY <1>2 DEF Describe, ViewLocals
  <2>2. dated[v.user][i].item \in Listed
    BY <1>2, <2>1 DEF Described, RowsKept
  <2>3. Works(c) => failed' = failed
    BY DEF Works
  <2>4. Fails(c) => failed' # 0
    BY <1>2, <1>3 DEF Fails, ViewFault, Described
  <2>5. v.blank \in BOOLEAN /\ (failed = 0 => ~ v.blank)
    BY <1>2 DEF ViewLocals, Described
  <2>6. (v.blank \/ dated[v.user][i].item \notin Listed) = v.blank
    BY <2>2, <2>5
  <2>7. \/ failed' = failed /\ Go(c, [[v EXCEPT !.left = v.left \ {i}] EXCEPT !.blank = v.blank])
        \/ failed' # 0 /\ Go(c, [[v EXCEPT !.left = v.left \ {i}] EXCEPT !.blank = TRUE])
    BY ONLY <2>1, <2>3, <2>4, <2>6
  <2> QED
    BY <2>1, <2>5, <2>7
<1> DEFINE w == [[v EXCEPT !.left = v.left \ {i}] EXCEPT !.blank = b]
<1>5. /\ w \in ViewLocals /\ w.pc = v.pc /\ w.kind = v.kind /\ w.user = v.user
      /\ w.role = v.role /\ w.left = v.left \ {i} /\ w.blank = b /\ w.seen = v.seen
      /\ w.isRow = v.isRow /\ w.paid = v.paid /\ w.rate = v.rate
      /\ w.services = v.services
  BY <1>2 DEF ViewLocals
<1>6. Go(c, w)
  BY <1>4
<1> HIDE DEF w
<1>7. /\ view'[c].user = v.user /\ view'[c].kind = v.kind /\ view'[c].role = v.role
      /\ view'[c].seen = v.seen /\ view'[c].paid = v.paid /\ view'[c].isRow = v.isRow
      /\ view'[c].rate = v.rate /\ view'[c].services = v.services
      /\ view'[c].left = v.left \ {i} /\ view'[c].blank = b
      /\ view'[c].pc = NextCall(w)
      /\ view'[c].pc = "reply" => view'[c].code = "status_success"
  BY <1>2, <1>5, <1>6, GoFields
<1>8. /\ NextCall(w) \in Loops => w.left # {}
      /\ NextCall(w) \notin Loops => w.left = {}
      /\ NextCall(w) \notin {"userInfo", "rateInfo"}
  BY <1>1, <1>2, <1>5, PackageOrder, StoryOrder, Domains DEF Loops, Views
<1>9. CASE v.kind = "package"
  <2>1. AccountRead(v) /\ RateRead(v) /\ ServicesRead(v)
    BY <1>1, <1>2, <1>9, Domains DEF AccountRead, RateRead, ServicesRead, Loops
  <2>2. Explained(view[c])'
    BY <1>1, <1>2, <1>7, <2>1 DEF Explained, billing
  <2>3. Current(view[c])'
    BY <1>1, <1>2, <1>7, <2>1 DEF Current, billing, accounts
  <2> QED
    BY <2>2, <2>3, <1>1, <1>2, <1>4, <1>5, <1>7, <1>8 DEF Sound, Described, Excused
<1>10. CASE v.kind = "story"
  <2>1. Explained(view[c])'
    BY <1>1, <1>2, <1>7, <1>10 DEF Explained, RateRead, ServicesRead, billing
  <2>2. Current(view[c])'
    BY <1>7, <1>10 DEF Current, AccountRead
  <2> QED
    BY <2>1, <2>2, <1>1, <1>2, <1>4, <1>5, <1>7, <1>8 DEF Sound, Described, Excused
<1> QED
  BY <1>2, <1>9, <1>10 DEF Views

LEMMA PaymentsSound ==
    ASSUME ViewTypeOK, ViewsSound, NEW c \in Viewers, GetPayments(c)
    PROVE  Sound(view[c])'
<1> DEFINE v == view[c]
<1>1. /\ v # None /\ v.pc \in {"calls", "sms"} /\ UNCHANGED <<billing, accounts, dated, over>>
      /\ UNCHANGED failed /\ Go(c, v)
  BY DEF GetPayments, Viewing, Works
<1>2. /\ ViewsOK /\ v \in ViewLocals /\ v.user \in Users
      /\ v.kind = "story"
      /\ v.pc \in DOMAIN Order(v.kind) /\ v.pc \in DOMAIN getUserStory
      /\ Explained(v) /\ Described(v)
  BY <1>1, CallStarts, ViewingAt
<1>3. /\ view'[c].user = v.user /\ view'[c].kind = "story" /\ view'[c].role = v.role
      /\ view'[c].seen = v.seen /\ view'[c].isRow = v.isRow
      /\ view'[c].left = v.left /\ view'[c].blank = v.blank
      /\ view'[c].pc \in {"sms", "reply"}
      /\ view'[c].pc = "reply" => view'[c].code = "status_success"
  BY <1>1, <1>2, GoFields, StoryOrder
<1>4. Explained(view[c])'
  BY <1>1, <1>2, <1>3 DEF Explained, RateRead, ServicesRead, billing
<1>5. Current(view[c])'
  BY <1>3 DEF Current, AccountRead
<1>6. Described(view[c])'
  BY <1>1, <1>2, <1>3 DEF Described, Loops
<1>7. Excused(view[c])'
  BY <1>3 DEF Excused
<1> QED
  BY <1>4, <1>5, <1>6, <1>7 DEF Sound

LEMMA ViewCallSound ==
    ASSUME TypeOK, ChargedIsConnected, CreditedIsConnected, ViewTypeOK, RowsKept, AccountsKept,
           ViewsSound, StillComplete, NEW c \in Viewers, ViewCall(c), view'[c] # None
    PROVE  Sound(view[c])'
<1>1. CASE GetUserConnectedRate(c) \/ GetUserConnectedService(c)
  <2>1. /\ RatesOf(view[c].user) \subseteq DOMAIN dated[view[c].user]
        /\ ServicesOf(view[c].user) \subseteq DOMAIN dated[view[c].user]
    BY DEF RatesOf, ServicesOf
  <2> QED
    BY <1>1, <2>1, RowsSound DEF GetUserConnectedRate, GetUserConnectedService
<1>2. CASE ViewReply(c)
  BY <1>2 DEF ViewReply, ViewTypeOK
<1> QED
  BY <1>1, <1>2, AskSound, RoleSound, FailedSound, PackageSound, AccountSound, RateSound,
     RateInfoSound, ServicesSound, DescribeSound, PaymentsSound DEF ViewCall

LEMMA ViewCallOthers ==
    ASSUME ViewTypeOK, NEW c \in Viewers, ViewCall(c)
    PROVE  /\ \A d \in Viewers \ {c} : view'[d] = view[d]
           /\ failed' = 0 => failed = 0
<1>1. \A d \in Viewers \ {c} : view'[d] = view[d]
  BY DEF ViewTypeOK, ViewCall, PackageInfoRR, UserStoryRR, Ask, GetRole, FailedCall, GetPackage,
         GetUserInfo, GetUserRate, ViewRateInfo, GetUserServices, GetUserConnectedRate,
         GetUserConnectedService, ListRows, Describe, GetPayments, ViewReply, Go, Refuse
<1>2. UNCHANGED failed \/ ViewFault
  BY DEF ViewCall, PackageInfoRR, UserStoryRR, Ask, GetRole, FailedCall, GetPackage, GetUserInfo,
         GetUserRate, ViewRateInfo, GetUserServices, GetUserConnectedRate,
         GetUserConnectedService, ListRows, Describe, GetPayments, ViewReply, Works, Fails
<1>3. ViewFault => failed' # 0
  BY ViewAssumption DEF ViewFault, ViewTypeOK
<1> QED
  BY <1>1, <1>2, <1>3

(* The inductive invariant.                                                *)
ViewSafe ==
    /\ TypeOK /\ Safe /\ RequestsApart
    /\ ViewTypeOK /\ RowsKept /\ AccountsKept
    /\ CreditIsLast /\ ViewsSound /\ StillComplete

LEMMA AroundUnchanged ==
    ASSUME UNCHANGED <<billing, accounts, dated>>, over \subseteq over', failed' = 0 => failed = 0
    PROVE  Around
BY DEF Around, Longer, ChargedBefore, billing, accounts

(* Views that take no step beside one that keeps what they rely on.        *)
LEMMA AllSound ==
    ASSUME ViewTypeOK, ViewsSound, StillComplete, Around, UNCHANGED view
    PROVE  ViewsSound' /\ StillComplete'
<1>1. ASSUME NEW d \in Viewers, view'[d] # None PROVE Sound(view[d])'
  BY <1>1, OtherViews
<1>2. ASSUME NEW d \in Viewers, view[d] # None, view[d].complete
      PROVE  Complete(view[d].user)'
  <2>1. PICK u \in Users : u = view[d].user /\ Complete(u)
    BY <1>2 DEF StillComplete, ViewTypeOK, View, ViewLocals
  <2>2. Complete(u)'
    BY <2>1, CompleteStays
  <2> QED
    BY <2>1, <2>2 DEF Complete, FirstsOf, First
<1> QED
  BY <1>1, <1>2 DEF ViewsSound, StillComplete

LEMMA ViewCallAll ==
    ASSUME ViewSafe, NEW c \in Viewers, ViewCall(c)
    PROVE  CreditIsLast' /\ ViewsSound' /\ StillComplete'
<1>0. /\ TypeOK /\ ChargedIsConnected /\ CreditedIsConnected /\ RequestsApart
      /\ ViewTypeOK /\ RowsKept /\ AccountsKept /\ CreditIsLast /\ ViewsSound /\ StillComplete
  BY DEF ViewSafe, Safe
<1>1. UNCHANGED <<billing, accounts, dated, over>>
  BY ViewCallFrame
<1>2. Around
  BY <1>0, <1>1, ViewCallOthers, AroundUnchanged
<1>3. ASSUME NEW d \in Viewers, view'[d] # None PROVE Sound(view[d])'
  <2>1. CASE d = c
    BY <1>0, <1>3, <2>1, ViewCallSound
  <2>2. CASE d # c
    BY <1>0, <1>2, <1>3, <2>2, ViewCallOthers, OtherViews
  <2> QED
    BY <2>1, <2>2
<1>4. ASSUME NEW d \in Viewers, view'[d] # None, view'[d].complete
      PROVE  Complete(view'[d].user)
  <2>1. CASE d = c
    BY <1>0, <1>4, <2>1, ViewCallType DEF Kept, StillComplete
  <2>2. CASE d # c
    BY <1>0, <1>4, <2>2, ViewCallOthers DEF StillComplete
  <2> QED
    BY <2>1, <2>2
<1>5. \A u : Complete(u) => Complete(u)'
  BY <1>1 DEF Complete, FirstsOf, First, billing
<1> QED
  BY <1>0, <1>1, <1>3, <1>4, <1>5 DEF ViewsSound, StillComplete, CreditIsLast, billing

LEMMA NextSound ==
    ASSUME ViewSafe, [ViewNext]_viewVars
    PROVE  CreditIsLast' /\ ViewsSound' /\ StillComplete'
<1>0. /\ TypeOK /\ CreditedIsConnected /\ RequestsApart
      /\ ViewTypeOK /\ RowsKept /\ AccountsKept /\ CreditIsLast /\ ViewsSound /\ StillComplete
  BY DEF ViewSafe, Safe
<1>1. CASE Serve /\ Dated /\ Accounted /\ UNCHANGED <<over, view, failed>>
  <2>1. Grows /\ Longer /\ CreditIsLast' /\ ChargedBefore
    BY <1>0, <1>1, ServeGrows, ServeLast, DatedStep
  <2>2. lost \subseteq lost'
    BY <1>1 DEF Accounted
  <2>3. Around
    BY <1>1, <2>1, <2>2 DEF Around, Grows
  <2> QED
    BY <1>0, <1>1, <2>1, <2>3, AllSound
<1>2. CASE Register /\ UNCHANGED <<accounts, dated, over, view, failed>>
  <2>1. /\ UNCHANGED <<job, history>>
        /\ \A u \in Users : package_state[u] # None => package_state'[u] # None
    BY <1>0, <1>2, RegisterGrows
  <2>2. Around
    BY <1>2, <2>1 DEF Around, Longer, ChargedBefore, accounts, history
  <2> QED
    BY <1>0, <1>2, <2>1, <2>2, AllSound DEF CreditIsLast, history
<1>3. ASSUME NEW u \in Users, ConnectFirst(u)
      PROVE  CreditIsLast' /\ ViewsSound' /\ StillComplete'
  <2>1. Longer /\ UNCHANGED <<billing, accounts, over, view, failed>>
    BY <1>0, <1>3, FirstStep DEF ConnectFirst
  <2>2. Around
    BY <2>1 DEF Around, ChargedBefore, billing, accounts
  <2> QED
    BY <1>0, <2>1, <2>2, AllSound DEF CreditIsLast, billing
<1>4. ASSUME NEW c \in Viewers, ViewCall(c)
      PROVE  CreditIsLast' /\ ViewsSound' /\ StillComplete'
  BY <1>4, ViewCallAll
<1>5. ASSUME NEW u \in Users, Expire(u)
      PROVE  CreditIsLast' /\ ViewsSound' /\ StillComplete'
  <2>1. UNCHANGED <<billing, accounts, dated, view, failed>> /\ over \subseteq over'
    BY <1>5 DEF Expire
  <2>2. Around
    BY <2>1, AroundUnchanged
  <2> QED
    BY <1>0, <2>1, <2>2, AllSound DEF CreditIsLast, billing
<1>6. CASE ViewCrash
  BY <1>0, <1>6 DEF ViewCrash, ViewsSound, StillComplete, CreditIsLast, history
<1>7. CASE UNCHANGED viewVars
  <2>1. UNCHANGED <<billing, accounts, dated, over, view, failed>>
    BY <1>7 DEF viewVars, billing, accounts
  <2>2. Around
    BY <2>1, AroundUnchanged
  <2> QED
    BY <1>0, <2>1, <2>2, AllSound DEF CreditIsLast, billing
<1> QED
  BY <1>1, <1>2, <1>3, <1>4, <1>5, <1>6, <1>7 DEF ViewNext, ViewServe

LEMMA ViewSafeAlways == ViewSpec => []ViewSafe
<1>1. ViewInit => ViewSafe
  <2> SUFFICES ASSUME ViewInit PROVE ViewSafe
    OBVIOUS
  <2>1. TypeOK /\ Safe /\ RequestsApart
    BY InitType, InitSafe DEF ViewInit, Init, RequestsApart
  <2>2. CreditIsLast /\ ViewsSound /\ StillComplete
    BY DEF ViewInit, Init, CreditIsLast, ViewsSound, StillComplete
  <2> QED
    BY <2>1, <2>2, InitRecords DEF ViewSafe
<1>2. ViewSafe /\ [ViewNext]_viewVars => ViewSafe'
  <2> SUFFICES ASSUME ViewSafe, [ViewNext]_viewVars PROVE ViewSafe'
    OBVIOUS
  <2>1. TypeOK /\ Safe /\ RequestsApart /\ ViewTypeOK /\ RowsKept /\ AccountsKept
    BY DEF ViewSafe
  <2>2. [Next]_vars
    BY <2>1, ViewStep
  <2>3. (TypeOK /\ Safe /\ RequestsApart)'
    BY <2>1, <2>2, NextType, NextSafe, NextApart
  <2>4. ViewTypeOK' /\ RowsKept' /\ AccountsKept'
    BY <2>1, RecordsStep
  <2> QED
    BY <2>3, <2>4, NextSound DEF ViewSafe
<1> QED
  BY <1>1, <1>2, PTL DEF ViewSpec

LEMMA ReplySound ==
    ASSUME ViewSafe, NEW c \in Viewers, Viewing(c, "reply")
    PROVE  /\ Explained(view[c]) /\ Current(view[c]) /\ Described(view[c])
           /\ Excused(view[c]) /\ view[c] \in ViewLocals
BY DEF ViewSafe, ViewsSound, Sound, Viewing, ViewTypeOK, View

(* Whatever offer had grown the package a user is shown is the rate he is  *)
(* shown or an older one, a service he is shown, or one that is over.      *)
THEOREM PackagesExplained == ViewSpec => []PackageIsExplained
<1>1. ViewSafe => PackageIsExplained
  <2> SUFFICES ASSUME ViewSafe, NEW c \in Viewers, Shown(c), NEW e \in view[c].seen
               PROVE  \E i \in DOMAIN dated[view[c].user] :
                         /\ dated[view[c].user][i] = e
                         /\ \/ i <= view[c].rate \/ i \in view[c].services
                            \/ <<view[c].user, i>> \in over
    BY DEF PackageIsExplained
  <2>1. /\ Explained(view[c]) /\ view[c] \in ViewLocals
        /\ RateRead(view[c]) /\ ServicesRead(view[c])
    BY ReplySound DEF Shown, Viewing, RateRead, ServicesRead, Answered
  <2>2. e.item \in Rates \/ e.item \in Services
    BY <2>1 DEF ViewLocals, Entry, Offers
  <2> QED
    BY <2>1, <2>2 DEF Explained
<1> QED
  BY <1>1, ViewSafeAlways, PTL

(* The score shown with a package contains every charge, made or to come,  *)
(* of the credits the package includes, but those that an overlapping      *)
(* update of the score dropped.                                            *)
THEOREM ScoresCurrent == ViewSpec => []ScoreIsCurrent
<1>1. ViewSafe => ScoreIsCurrent
  BY ReplySound DEF ScoreIsCurrent, Shown, Viewing, Current, AccountRead, Answered
<1> QED
  BY <1>1, ViewSafeAlways, PTL

(* A successful view shows an account that was read, lists whose rows were *)
(* all looked up, and, when no call failed, nothing without its details.   *)
THEOREM ViewsReal == ViewSpec => []ViewIsReal
<1>1. ViewSafe => ViewIsReal
  BY ReplySound DEF ViewIsReal, Viewing, Described, Loops
<1> QED
  BY <1>1, ViewSafeAlways, PTL

(* Without failures, a view is refused only to a user whose registration   *)
(* was not complete when he asked, or who connected a service of 1000 days *)
(* and more.                                                               *)
THEOREM CompletesShown == ViewSpec => []CompleteIsShown
<1>1. ViewSafe => CompleteIsShown
  BY ReplySound DEF CompleteIsShown, Viewing, Excused
<1> QED
  BY <1>1, ViewSafeAlways, PTL
=============================================================================

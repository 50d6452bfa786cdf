-------------------------- MODULE RegistrationProofs --------------------------
(* Proofs about Registration, for every value of its constants.             *)
EXTENDS Registration, TLAPS

-----------------------------------------------------------------------------
(* Type correctness.                                                        *)

LEMMA GotoType ==
    ASSUME TypeOK, NEW c \in Channels, NEW h \in Handler, NEW step \in Steps, Goto(c, h, step)
    PROVE  /\ handler' \in [Channels -> Handler \cup {None}]
           /\ handler'[c].pc = step /\ handler'[c].login = h.login
           /\ handler'[c].id = h.id /\ handler'[c].phone = h.phone
           /\ handler'[c] \in Handler
           /\ \A d \in Channels \ {c} : handler'[d] = handler[d]
<1>1. [h EXCEPT !.pc = step] \in Handler
  BY DEF Handler
<1>2. handler'[c] = [h EXCEPT !.pc = step] /\ \A d \in Channels \ {c} : handler'[d] = handler[d]
  BY DEF TypeOK, Goto
<1>3. handler' \in [Channels -> Handler \cup {None}]
  BY <1>1 DEF TypeOK, Goto
<1> QED
  BY <1>1, <1>2, <1>3 DEF Handler

LEMMA AnswerType ==
    ASSUME TypeOK, NEW c \in Channels, handler[c] # None, NEW text \in Texts, Answer(c, text)
    PROVE  /\ handler' \in [Channels -> Handler \cup {None}]
           /\ handler'[c].pc = "reply" /\ handler'[c].login = handler[c].login
           /\ handler'[c] \in Handler
           /\ \A d \in Channels \ {c} : handler'[d] = handler[d]
<1>1. handler[c] \in Handler
  BY DEF TypeOK
<1>2. [handler[c] EXCEPT !.pc = "reply", !.text = text] \in Handler
  BY <1>1 DEF Handler, Steps
<1>3. handler'[c] = [handler[c] EXCEPT !.pc = "reply", !.text = text]
      /\ \A d \in Channels \ {c} : handler'[d] = handler[d]
  BY DEF TypeOK, Answer
<1>4. handler' \in [Channels -> Handler \cup {None}]
  BY <1>2 DEF TypeOK, Answer
<1> QED
  BY <1>1, <1>2, <1>3, <1>4 DEF Handler

LEMMA FaultType ==
    ASSUME TypeOK, NoFault \/ Fault
    PROVE  faults' \in 0 .. MaxFaults /\ (faults' = 0 => faults = 0 /\ NoFault)
BY ConstantsAssumption DEF TypeOK, NoFault, Fault

LEMMA InitType == Init => TypeOK
BY ConstantsAssumption DEF Init, TypeOK

(* What a handler knows of the login it registers.                         *)
InStep(h) ==
    /\ h.pc \in {"exists", "insert", "lookup"} => h.phone = Unnamed
    /\ h.pc \in {"lookup", "account", "package", "rate"} => server_users[h.login] # None
    /\ h.pc \in {"account", "package", "rate"} =>
          h.phone = Unnamed \/ (h.phone = h.login /\ h.id = server_users[h.login])
HandlersInStep == \A c \in Channels : handler[c] # None => InStep(handler[c])

(* A login that has an id keeps it.                                        *)
IdsKept == \A l \in Logins : server_users[l] # None => server_users'[l] = server_users[l]

Typed == TypeOK /\ HandlersInStep

LEMMA HandlerFacts ==
    ASSUME Typed, NEW c \in Channels, handler[c] # None
    PROVE  handler[c] \in Handler /\ InStep(handler[c]) /\ handler[c].login \in Logins
BY DEF Typed, TypeOK, HandlersInStep, Handler

LEMMA Names ==
    /\ \A step \in {"insert", "lookup", "account", "package", "rate", "reply"} : step \in Steps
    /\ \A text \in {"wrong", "exists", "again", "success"} : text \in Texts
BY DEF Steps, Texts

(* The handlers of the other channels.                                     *)
LEMMA OthersInStep ==
    ASSUME Typed, IdsKept, NEW c \in Channels,
           \A d \in Channels \ {c} : handler'[d] = handler[d],
           handler'[c] # None => InStep(handler[c])'
    PROVE  HandlersInStep'
<1> SUFFICES ASSUME NEW d \in Channels, handler'[d] # None
             PROVE  InStep(handler[d])'
  BY DEF HandlersInStep
<1>1. CASE d = c
  BY <1>1
<1>2. CASE d # c
  <2>1. handler'[d] = handler[d] /\ InStep(handler[d]) /\ handler[d].login \in Logins
    BY <1>2 DEF Typed, TypeOK, HandlersInStep, Handler
  <2> QED
    BY <2>1 DEF InStep, IdsKept
<1> QED
  BY <1>1, <1>2

LEMMA RegisterTyped ==
    ASSUME Typed, NEW c \in Channels, RegisterRR(c)
    PROVE  /\ Typed' /\ IdsKept
           /\ handler'[c].pc = "exists"
           /\ \A d \in Channels \ {c} : handler'[d] = handler[d]
<1> USE ConstantsAssumption
<1>1. PICK l \in Logins : handler' = [handler EXCEPT ![c] =
            [pc |-> "exists", login |-> l, id |-> 0, phone |-> Unnamed, text |-> "none"]]
  BY DEF RegisterRR
<1> DEFINE h == [pc |-> "exists", login |-> l, id |-> 0, phone |-> Unnamed, text |-> "none"]
<1>2. h \in Handler
  BY DEF Handler, Steps, Texts, Phones
<1>3. /\ handler' \in [Channels -> Handler \cup {None}] /\ handler'[c] = h
      /\ \A d \in Channels \ {c} : handler'[d] = handler[d]
  BY <1>1, <1>2 DEF Typed, TypeOK
<1>4. requests' \in 0 .. MaxRequests
  BY DEF RegisterRR, Typed, TypeOK
<1>5. TypeOK' /\ IdsKept
  BY <1>3, <1>4 DEF RegisterRR, Typed, TypeOK, accounts, IdsKept
<1>6. InStep(handler[c])'
  BY <1>3 DEF InStep
<1> QED
  BY <1>3, <1>5, <1>6, OthersInStep DEF Typed

LEMMA ExistsTyped ==
    ASSUME Typed, NEW c \in Channels, IsUserExist(c)
    PROVE  /\ Typed' /\ IdsKept
           /\ handler'[c].pc \in {"insert", "reply"}
           /\ \A d \in Channels \ {c} : handler'[d] = handler[d]
<1>1. handler[c] # None /\ handler[c] \in Handler /\ InStep(handler[c])
      /\ handler[c].pc = "exists"
  BY HandlerFacts DEF IsUserExist, At
<1>2. /\ handler' \in [Channels -> Handler \cup {None}]
      /\ handler'[c].pc \in {"insert", "reply"}
      /\ handler'[c].pc = "insert" => handler'[c].phone = handler[c].phone
      /\ \A d \in Channels \ {c} : handler'[d] = handler[d]
  BY <1>1, Names, GotoType, AnswerType DEF IsUserExist, Typed
<1>3. TypeOK' /\ IdsKept
  BY <1>2, FaultType DEF IsUserExist, Typed, TypeOK, accounts, IdsKept
<1>4. InStep(handler[c])'
  BY <1>1, <1>2 DEF InStep
<1> QED
  BY <1>2, <1>3, <1>4, OthersInStep DEF Typed

LEMMA InsertTyped ==
    ASSUME Typed, NEW c \in Channels, InsertServerUser(c)
    PROVE  /\ Typed' /\ IdsKept
           /\ \/ /\ handler'[c].pc = "lookup" /\ handler'[c].login = handler[c].login
                 /\ server_users[handler[c].login] = None /\ NoFault
              \/ handler'[c].pc = "reply"
           /\ \A d \in Channels \ {c} : handler'[d] = handler[d]
<1> DEFINE l == handler[c].login
<1>1. handler[c] # None /\ handler[c] \in Handler /\ InStep(handler[c])
      /\ handler[c].pc = "insert" /\ l \in Logins
  BY HandlerFacts DEF InsertServerUser, At
<1>2. /\ handler' \in [Channels -> Handler \cup {None}]
      /\ \/ /\ handler'[c].pc = "lookup" /\ handler'[c].login = l
            /\ handler'[c].phone = handler[c].phone
            /\ server_users[l] = None /\ NoFault
            /\ server_users' = [server_users EXCEPT ![l] = next_id]
         \/ handler'[c].pc = "reply"
      /\ \A d \in Channels \ {c} : handler'[d] = handler[d]
  BY <1>1, Names, GotoType, AnswerType DEF InsertServerUser, Typed
<1>3. next_id' \in Nat /\ next_id # None /\ server_users' \in [Logins -> Nat \cup {None}] /\ IdsKept
  BY <1>1, ConstantsAssumption DEF InsertServerUser, Typed, TypeOK, IdsKept
<1>4. faults' \in 0 .. MaxFaults
  BY FaultType DEF InsertServerUser, Typed
<1>5. TypeOK'
  BY <1>2, <1>3, <1>4 DEF InsertServerUser, Typed, TypeOK, accounts
<1>6. InStep(handler[c])'
  BY <1>1, <1>2, <1>3 DEF InStep, Typed, TypeOK
<1> QED
  BY <1>2, <1>3, <1>5, <1>6, OthersInStep DEF Typed

LEMMA LookupTyped ==
    ASSUME Typed, NEW c \in Channels, GetUserByLogin(c)
    PROVE  /\ Typed' /\ IdsKept
           /\ handler'[c].pc = "account" /\ handler'[c].login = handler[c].login
           /\ NoFault => handler'[c].phone = handler[c].login
           /\ \A d \in Channels \ {c} : handler'[d] = handler[d]
<1> DEFINE h == handler[c]
<1>1. h # None /\ h \in Handler /\ InStep(h) /\ h.pc = "lookup" /\ h.login \in Logins
  BY HandlerFacts DEF GetUserByLogin, At
<1>2. server_users[h.login] \in Nat
  BY <1>1 DEF InStep, Typed, TypeOK
<1>3. \E g \in Handler :
         /\ Goto(c, g, "account") /\ g.login = h.login
         /\ \/ NoFault /\ g.phone = h.login /\ g.id = server_users[h.login]
            \/ Fault /\ g.phone = Unnamed
  <2>1. CASE NoFault /\ Goto(c, [h EXCEPT !.id = server_users[h.login], !.phone = h.login], "account")
    <3> DEFINE g == [h EXCEPT !.id = server_users[h.login], !.phone = h.login]
    <3>1. g \in Handler /\ g.login = h.login /\ g.phone = h.login /\ g.id = server_users[h.login]
      BY <1>1, <1>2 DEF Handler, Phones
    <3> QED
      BY <2>1, <3>1
  <2>2. CASE Fault /\ \E id \in StrayIds : Goto(c, [h EXCEPT !.id = id], "account")
    <3>1. PICK id \in StrayIds : Goto(c, [h EXCEPT !.id = id], "account")
      BY <2>2
    <3> DEFINE g == [h EXCEPT !.id = id]
    <3>2. id \in Nat
      BY ConstantsAssumption
    <3>3. g \in Handler /\ g.login = h.login /\ g.phone = Unnamed
      BY <1>1, <3>2 DEF Handler, InStep
    <3> QED
      BY <2>2, <3>1, <3>3
  <2> QED
    BY <2>1, <2>2 DEF GetUserByLogin
<1>4. PICK g \in Handler :
         /\ Goto(c, g, "account") /\ g.login = h.login
         /\ \/ NoFault /\ g.phone = h.login /\ g.id = server_users[h.login]
            \/ Fault /\ g.phone = Unnamed
  BY <1>3
<1>5. /\ handler' \in [Channels -> Handler \cup {None}]
      /\ handler'[c].pc = "account" /\ handler'[c].login = h.login
      /\ handler'[c].phone = g.phone /\ handler'[c].id = g.id
      /\ \A d \in Channels \ {c} : handler'[d] = handler[d]
  BY <1>1, <1>4, Names, GotoType DEF Typed
<1>6. faults' \in 0 .. MaxFaults /\ (NoFault => ~Fault)
  BY FaultType DEF GetUserByLogin, Typed, TypeOK, NoFault, Fault
<1>7. TypeOK' /\ IdsKept
  BY <1>5, <1>6 DEF GetUserByLogin, Typed, TypeOK, accounts, IdsKept
<1>8. InStep(handler[c])'
  <2>1. server_users' = server_users
    BY DEF GetUserByLogin
  <2> QED
    BY <1>1, <1>2, <1>4, <1>5, <2>1 DEF InStep
<1> QED
  BY <1>4, <1>5, <1>6, <1>7, <1>8, OthersInStep DEF Typed

LEMMA CreateUserTyped ==
    ASSUME Typed, NEW c \in Channels, CreateUser(c)
    PROVE  /\ Typed' /\ IdsKept
           /\ handler'[c].pc = "package" /\ handler'[c].login = handler[c].login
           /\ \A d \in Channels \ {c} : handler'[d] = handler[d]
<1> DEFINE h == handler[c]
<1>1. h # None /\ h \in Handler /\ InStep(h) /\ h.pc = "account"
  BY HandlerFacts DEF CreateUser, At
<1>2. Goto(c, h, "package") /\ (NoFault \/ Fault)
      /\ (users' = [users EXCEPT ![h.id] = h.phone] \/ users' = users)
      /\ UNCHANGED <<server_users, next_id, package_state, connected, requests>>
  BY DEF CreateUser, Try
<1>3. /\ handler' \in [Channels -> Handler \cup {None}]
      /\ handler'[c].pc = "package" /\ handler'[c].login = h.login
      /\ handler'[c].phone = h.phone /\ handler'[c].id = h.id
      /\ \A d \in Channels \ {c} : handler'[d] = handler[d]
  BY <1>1, <1>2, Names, GotoType DEF Typed
<1>4. faults' \in 0 .. MaxFaults
  BY <1>2, FaultType DEF Typed
<1>5. TypeOK' /\ IdsKept
  BY <1>1, <1>2, <1>3, <1>4 DEF Typed, TypeOK, IdsKept, Handler
<1>6. InStep(handler[c])'
  BY <1>1, <1>2, <1>3 DEF InStep
<1> QED
  BY <1>3, <1>5, <1>6, OthersInStep DEF Typed

LEMMA PackageTyped ==
    ASSUME Typed, NEW c \in Channels, CreateEmptyPackage(c)
    PROVE  /\ Typed' /\ IdsKept
           /\ handler'[c].pc = "rate" /\ handler'[c].login = handler[c].login
           /\ \A d \in Channels \ {c} : handler'[d] = handler[d]
<1> DEFINE h == handler[c]
<1> DEFINE id == h.id % Word
<1>1. h # None /\ h \in Handler /\ InStep(h) /\ h.pc = "package"
  BY HandlerFacts DEF CreateEmptyPackage, At
<1>2. Goto(c, h, "rate") /\ (NoFault \/ Fault)
      /\ (\/ HasAccount(id) /\ package_state' = package_state \cup {id}
          \/ package_state' = package_state)
      /\ UNCHANGED <<server_users, next_id, users, connected, requests>>
  BY DEF CreateEmptyPackage, Try
<1>3. /\ handler' \in [Channels -> Handler \cup {None}]
      /\ handler'[c].pc = "rate" /\ handler'[c].login = h.login
      /\ handler'[c].phone = h.phone /\ handler'[c].id = h.id
      /\ \A d \in Channels \ {c} : handler'[d] = handler[d]
  BY <1>1, <1>2, Names, GotoType DEF Typed
<1>4. faults' \in 0 .. MaxFaults
  BY <1>2, FaultType DEF Typed
<1>5. TypeOK' /\ IdsKept
  BY <1>1, <1>2, <1>3, <1>4 DEF Typed, TypeOK, IdsKept, HasAccount
<1>6. InStep(handler[c])'
  BY <1>1, <1>2, <1>3 DEF InStep
<1> QED
  BY <1>3, <1>5, <1>6, OthersInStep DEF Typed

LEMMA RateTyped ==
    ASSUME Typed, NEW c \in Channels, CreateUserRate(c)
    PROVE  /\ Typed' /\ IdsKept
           /\ handler'[c].pc = "reply"
           /\ \A d \in Channels \ {c} : handler'[d] = handler[d]
<1> DEFINE h == handler[c]
<1>1. h # None
  BY DEF CreateUserRate, At
<1>2. Answer(c, "success") /\ (NoFault \/ Fault)
      /\ (\/ HasAccount(h.id) /\ connected' = connected \cup {h.id}
          \/ connected' = connected)
      /\ UNCHANGED <<server_users, next_id, users, package_state, requests>>
  BY DEF CreateUserRate, Try
<1>3. /\ handler' \in [Channels -> Handler \cup {None}]
      /\ handler'[c].pc = "reply"
      /\ \A d \in Channels \ {c} : handler'[d] = handler[d]
  BY <1>1, <1>2, Names, AnswerType DEF Typed
<1>4. faults' \in 0 .. MaxFaults
  BY <1>2, FaultType DEF Typed
<1>5. TypeOK' /\ IdsKept
  BY <1>2, <1>3, <1>4 DEF Typed, TypeOK, IdsKept, HasAccount
<1>6. InStep(handler[c])'
  BY <1>3 DEF InStep
<1> QED
  BY <1>3, <1>5, <1>6, OthersInStep DEF Typed

LEMMA ReplyTyped ==
    ASSUME Typed, NEW c \in Channels, Reply(c)
    PROVE  /\ Typed' /\ IdsKept
           /\ handler'[c] = None
           /\ \A d \in Channels \ {c} : handler'[d] = handler[d]
<1>1. handler' \in [Channels -> Handler \cup {None}] /\ handler'[c] = None
      /\ \A d \in Channels \ {c} : handler'[d] = handler[d]
  BY DEF Reply, Typed, TypeOK
<1>2. TypeOK' /\ IdsKept
  BY <1>1 DEF Reply, Typed, TypeOK, accounts, IdsKept
<1> QED
  BY <1>1, <1>2, OthersInStep DEF Typed

LEMMA CrashTyped ==
    ASSUME Typed, Crash
    PROVE  Typed' /\ IdsKept /\ \A c \in Channels : handler'[c] = None
<1>1. handler' \in [Channels -> Handler \cup {None}] /\ \A c \in Channels : handler'[c] = None
  BY DEF Crash
<1>2. faults' \in 0 .. MaxFaults
  BY FaultType DEF Crash, Typed
<1>3. TypeOK' /\ IdsKept
  BY <1>1, <1>2 DEF Crash, Typed, TypeOK, accounts, IdsKept
<1>4. HandlersInStep'
  BY <1>1 DEF HandlersInStep
<1> QED
  BY <1>1, <1>3, <1>4 DEF Typed

LEMMA InitTyped == Init => Typed
<1> SUFFICES ASSUME Init PROVE Typed
  OBVIOUS
<1>1. HandlersInStep
  BY DEF Init, HandlersInStep
<1> QED
  BY <1>1, InitType DEF Typed

LEMMA StutterTyped ==
    ASSUME Typed, UNCHANGED vars
    PROVE  Typed' /\ IdsKept
<1>1. TypeOK' /\ IdsKept
  BY DEF Typed, TypeOK, vars, accounts, IdsKept
<1>2. HandlersInStep'
  BY DEF Typed, HandlersInStep, InStep, vars, accounts
<1> QED
  BY <1>1, <1>2 DEF Typed

LEMMA NextTyped ==
    ASSUME Typed, [Next]_vars
    PROVE  Typed' /\ IdsKept
<1>1. CASE UNCHANGED vars
  BY <1>1, StutterTyped
<1>2. CASE Crash
  BY <1>2, CrashTyped
<1>3. ASSUME NEW c \in Channels, RegisterRR(c)
      PROVE  Typed' /\ IdsKept
  BY <1>3, RegisterTyped
<1>4. ASSUME NEW c \in Channels, Call(c)
      PROVE  Typed' /\ IdsKept
  BY <1>4, ExistsTyped, InsertTyped, LookupTyped, CreateUserTyped, PackageTyped, RateTyped,
     ReplyTyped DEF Call
<1> QED
  BY <1>1, <1>2, <1>3, <1>4 DEF Next

LEMMA AlwaysTyped == Spec => []Typed
<1>1. Typed /\ [Next]_vars => Typed'
  BY NextTyped
<1> QED
  BY <1>1, InitTyped, PTL DEF Spec

(* The tables and the handlers keep their types, whatever fails: no id that *)
(* does not fit users.id gets a row, and no handler is ever in a step that  *)
(* createUser does not have.                                                *)
THEOREM TypeCorrect == Spec => []TypeOK
<1>1. Typed => TypeOK
  BY DEF Typed
<1> QED
  BY <1>1, AlwaysTyped, PTL

-----------------------------------------------------------------------------
(* One registration at a time writes an account.                            *)

(* The step of channel c makes no second writer: who becomes one has just   *)
(* inserted a login that was not stored.                                    *)
LEMMA WriterStep ==
    ASSUME Typed, OneWriterPerLogin, NEW c \in Channels,
           \A d \in Channels \ {c} : handler'[d] = handler[d],
           Writing(c)' => /\ handler'[c].login = handler[c].login
                          /\ Writing(c) \/ server_users[handler[c].login] = None
    PROVE  OneWriterPerLogin'
<1>1. \A d \in Channels : Writing(d) => server_users[handler[d].login] # None
  BY DEF Typed, HandlersInStep, InStep, Writing
<1>2. \A d \in Channels \ {c} : Writing(d)' <=> Writing(d)
  BY DEF Writing
<1>3. ASSUME NEW d \in Channels \ {c}, Writing(c)', Writing(d)',
             handler'[c].login = handler'[d].login
      PROVE  FALSE
  BY <1>1, <1>2, <1>3 DEF OneWriterPerLogin
<1> QED
  BY <1>2, <1>3 DEF OneWriterPerLogin

LEMMA NextOneWriter ==
    ASSUME Typed, OneWriterPerLogin, [Next]_vars
    PROVE  OneWriterPerLogin'
<1>1. CASE UNCHANGED vars
  BY <1>1 DEF OneWriterPerLogin, Writing, vars
<1>2. CASE Crash
  BY <1>2, CrashTyped DEF OneWriterPerLogin, Writing
<1>3. ASSUME NEW c \in Channels, RegisterRR(c)
      PROVE  OneWriterPerLogin'
  BY <1>3, RegisterTyped, WriterStep DEF Writing
<1>4. ASSUME NEW c \in Channels, Call(c)
      PROVE  OneWriterPerLogin'
  <2>1. CASE IsUserExist(c)
    BY <2>1, ExistsTyped, WriterStep DEF Writing
  <2>2. CASE InsertServerUser(c)
    BY <2>2, InsertTyped, WriterStep DEF Writing
  <2>3. CASE GetUserByLogin(c)
    BY <2>3, LookupTyped, WriterStep DEF Writing, GetUserByLogin, At
  <2>4. CASE CreateUser(c)
    BY <2>4, CreateUserTyped, WriterStep DEF Writing, CreateUser, At
  <2>5. CASE CreateEmptyPackage(c)
    BY <2>5, PackageTyped, WriterStep DEF Writing, CreateEmptyPackage, At
  <2>6. CASE CreateUserRate(c)
    BY <2>6, RateTyped, WriterStep DEF Writing
  <2>7. CASE Reply(c)
    BY <2>7, ReplyTyped, WriterStep DEF Writing
  <2> QED
    BY <1>4, <2>1, <2>2, <2>3, <2>4, <2>5, <2>6, <2>7 DEF Call
<1> QED
  BY <1>1, <1>2, <1>3, <1>4 DEF Next

(* Of all registrations of a login only one gets past the insert into       *)
(* server_users, whose key it is: no two ever write the same account.       *)
THEOREM OneWriter == Spec => []OneWriterPerLogin
<1>1. Init => OneWriterPerLogin
  BY DEF Init, OneWriterPerLogin, Writing
<1>2. Typed /\ OneWriterPerLogin /\ [Next]_vars => OneWriterPerLogin'
  BY NextOneWriter
<1> QED
  BY <1>1, <1>2, AlwaysTyped, PTL DEF Spec

-----------------------------------------------------------------------------
(* Accounts belong to their owners.                                         *)

(* Ids come from the sequence, each once.                                   *)
Serial == \A l \in Logins : server_users[l] # None => server_users[l] < next_id

Owned == AccountIsOwners /\ Serial

(* A step that stores no login and no account.                              *)
LEMMA QuietStep ==
    ASSUME Typed, Owned, server_users' = server_users, users' = users,
           next_id' = next_id \/ next_id' = next_id + 1
    PROVE  Owned'
BY DEF Typed, TypeOK, Owned, AccountIsOwners, Serial

LEMMA InsertOwned ==
    ASSUME Typed, Owned, NEW c \in Channels, InsertServerUser(c)
    PROVE  Owned'
<1> DEFINE l == handler[c].login
<1>1. l \in Logins /\ users' = users
  BY HandlerFacts DEF InsertServerUser, At, accounts
<1>2. CASE /\ server_users[l] = None /\ next_id' = next_id + 1
           /\ server_users' = [server_users EXCEPT ![l] = next_id]
  <2>1. server_users'[l] = next_id /\ next_id \in Nat
        /\ \A k \in Logins \ {l} : server_users'[k] = server_users[k]
    BY <1>1, <1>2 DEF Typed, TypeOK
  <2>2. \A k \in Logins : server_users[k] # None =>
           server_users[k] \in Nat /\ server_users[k] < next_id
    BY DEF Owned, Serial, Typed, TypeOK
  <2>3. Serial'
    BY <1>2, <2>1, <2>2 DEF Serial
  <2>4. \A i \in Ids : users'[i] \in Logins => server_users'[users'[i]] = i
    <3> SUFFICES ASSUME NEW i \in Ids, users[i] \in Logins
                 PROVE  server_users'[users[i]] = i
      BY <1>1
    <3>1. server_users[users[i]] = i /\ i # None
      BY ConstantsAssumption DEF Owned, AccountIsOwners, Ids
    <3> QED
      BY <1>2, <2>1, <3>1
  <2>5. ASSUME NEW j \in Logins, NEW k \in Logins,
               server_users'[j] = server_users'[k], server_users'[j] # None
        PROVE  j = k
    BY <2>1, <2>2, <2>5 DEF Owned, AccountIsOwners
  <2> QED
    BY <2>3, <2>4, <2>5 DEF Owned, AccountIsOwners
<1>3. CASE server_users' = server_users /\ (next_id' = next_id \/ next_id' = next_id + 1)
  BY <1>1, <1>3, QuietStep
<1> QED
  BY <1>2, <1>3 DEF InsertServerUser

LEMMA CreateUserOwned ==
    ASSUME Typed, Owned, NEW c \in Channels, CreateUser(c)
    PROVE  Owned'
<1> DEFINE h == handler[c]
<1>1. h # None /\ h \in Handler /\ InStep(h) /\ h.pc = "account"
  BY HandlerFacts DEF CreateUser, At
<1>2. \/ h.id \in Ids /\ users' = [users EXCEPT ![h.id] = h.phone]
      \/ users' = users
  BY DEF CreateUser, Try
<1>3. server_users' = server_users /\ next_id' = next_id
  BY DEF CreateUser
<1>4. h.phone \in Logins => server_users[h.phone] = h.id
  BY <1>1, ConstantsAssumption DEF InStep
<1> QED
  BY <1>2, <1>3, <1>4 DEF Owned, AccountIsOwners, Serial, Typed, TypeOK

LEMMA AlwaysOwned == Spec => []Owned
<1>1. Init => Owned
  BY ConstantsAssumption DEF Init, Owned, AccountIsOwners, Serial, Ids, Phones
<1>2. ASSUME Typed, Owned, [Next]_vars
      PROVE  Owned'
  <2>1. CASE UNCHANGED vars
    BY <1>2, <2>1, QuietStep DEF vars, accounts
  <2>2. CASE Crash
    BY <1>2, <2>2, QuietStep DEF Crash, accounts
  <2>3. ASSUME NEW c \in Channels, RegisterRR(c)
        PROVE  Owned'
    BY <1>2, <2>3, QuietStep DEF RegisterRR, accounts
  <2>4. ASSUME NEW c \in Channels, Call(c)
        PROVE  Owned'
    <3>1. CASE IsUserExist(c) \/ GetUserByLogin(c) \/ Reply(c)
      BY <1>2, <3>1, QuietStep DEF IsUserExist, GetUserByLogin, Reply, accounts
    <3>2. CASE CreateEmptyPackage(c) \/ CreateUserRate(c)
      BY <1>2, <3>2, QuietStep DEF CreateEmptyPackage, CreateUserRate
    <3> QED
      BY <1>2, <2>4, <3>1, <3>2, InsertOwned, CreateUserOwned DEF Call
  <2> QED
    BY <1>2, <2>1, <2>2, <2>3, <2>4 DEF Next
<1> QED
  BY <1>1, <1>2, AlwaysTyped, PTL DEF Spec

(* An account that bears a login is that login's, and no two logins share   *)
(* an id: although createUser goes on with an uninitialised id when         *)
(* getUserByLogin failed, what it then writes bears no login.               *)
THEOREM AccountsAreOwners == Spec => []AccountIsOwners
<1>1. Owned => AccountIsOwners
  BY DEF Owned
<1> QED
  BY <1>1, AlwaysOwned, PTL

-----------------------------------------------------------------------------
(* Undisturbed registrations are complete.                                  *)

(* What stands of an account at each step of its handler.                   *)
Clean(h) ==
    LET id == server_users[h.login] IN
    /\ h.pc \in {"account", "package", "rate"} => h.phone = h.login /\ h.id = id
    /\ id \in Ids /\ h.login \notin LongLogins =>
          /\ h.pc \in {"lookup", "account"} => users[id] = None
          /\ h.pc \in {"package", "rate"} => users[id] = h.login
          /\ h.pc = "rate" => id \in package_state

(* While nothing has failed, the ids to come are free and every handler     *)
(* has done what its step says.                                             *)
Orderly ==
    /\ faults = 0 => \A i \in Ids : i >= next_id => users[i] = None
    /\ faults = 0 => \A c \in Channels : handler[c] # None => Clean(handler[c])
    /\ CompleteUnlessDisturbed

Good == Typed /\ OneWriterPerLogin /\ Owned /\ Orderly

(* No row is taken away, and only the account of the login that channel c   *)
(* registers may get one.                                                   *)
Grows(c) ==
    /\ package_state \subseteq package_state' /\ connected \subseteq connected'
    /\ \A i \in Ids : users'[i] # users[i] =>
          users[i] = None /\ Writing(c) /\ server_users[handler[c].login] = i

LEMMA OthersClean ==
    ASSUME Good, faults = 0, NEW c \in Channels, IdsKept, Grows(c),
           NEW d \in Channels \ {c}, handler[d] # None, handler'[d] = handler[d]
    PROVE  Clean(handler[d])'
<1> DEFINE l == handler[d].login
<1>1. handler[d] \in Handler /\ InStep(handler[d]) /\ l \in Logins /\ Clean(handler[d])
  BY HandlerFacts DEF Good, Orderly
<1>2. CASE ~ Writing(d)
  BY <1>2 DEF Writing, Clean
<1>3. CASE Writing(d)
  <2>1. server_users[l] # None /\ server_users'[l] = server_users[l]
    BY <1>1, <1>3 DEF Writing, InStep, IdsKept
  <2>2. \A i \in Ids : server_users[l] = i => users'[i] = users[i]
    <3> SUFFICES ASSUME server_users[l] \in Ids, users'[server_users[l]] # users[server_users[l]]
                 PROVE  FALSE
      OBVIOUS
    <3>1. Writing(c) /\ server_users[handler[c].login] = server_users[l]
      BY DEF Grows
    <3>2. handler[c].login \in Logins
      BY <3>1, HandlerFacts DEF Good, Writing
    <3>3. handler[c].login = l
      BY <1>1, <2>1, <3>1, <3>2 DEF Good, Owned, AccountIsOwners
    <3> QED
      BY <1>3, <3>1, <3>3 DEF Good, OneWriterPerLogin
  <2> QED
    BY <1>1, <2>1, <2>2 DEF Clean, Grows
<1> QED
  BY <1>2, <1>3

LEMMA StillComplete ==
    ASSUME Typed, NEW c \in Channels, Grows(c), NEW l \in Logins, Complete(l),
           server_users'[l] = server_users[l]
    PROVE  Complete(l)'
<1>1. server_users[l] \in Ids /\ users[server_users[l]] = l /\ l # None
  BY ConstantsAssumption DEF Complete, Phones
<1>2. users'[server_users[l]] = l
  BY <1>1 DEF Grows
<1> QED
  BY <1>1, <1>2 DEF Complete, Grows

(* A step of channel c without a fault.                                     *)
LEMMA OrderlyStep ==
    ASSUME Good, faults = 0, NEW c \in Channels, IdsKept, Grows(c),
           \A d \in Channels \ {c} : handler'[d] = handler[d],
           handler'[c] # None => Clean(handler[c])',
           \A i \in Ids : i >= next_id' => users'[i] = None,
           \A l \in Logins : server_users'[l] # server_users[l] =>
               Writing(c)' /\ handler'[c].login = l,
           Writing(c) => \/ Writing(c)' /\ handler'[c].login = handler[c].login
                         \/ \A l \in Logins \ LongLogins :
                               l = handler[c].login /\ server_users[l] \in Ids => Complete(l)'
    PROVE  Orderly'
<1>1. \A d \in Channels : handler'[d] # None => Clean(handler[d])'
  BY OthersClean
<1>2. ASSUME NEW l \in Logins \ LongLogins, server_users'[l] \in Ids,
             \A d \in Channels : Writing(d)' => handler'[d].login # l
      PROVE  Complete(l)'
  <2>1. server_users'[l] = server_users[l]
    BY <1>2
  <2>2. CASE Writing(c) /\ handler[c].login = l
    BY <1>2, <2>1, <2>2
  <2>3. CASE ~ (Writing(c) /\ handler[c].login = l)
    <3>1. \A d \in Channels : Writing(d) => handler[d].login # l
      BY <1>2, <2>3 DEF Writing
    <3>2. Complete(l)
      BY <1>2, <2>1, <3>1 DEF Good, Orderly, CompleteUnlessDisturbed
    <3> QED
      BY <2>1, <3>2, StillComplete DEF Good
  <2> QED
    BY <2>2, <2>3
<1> QED
  BY <1>1, <1>2 DEF Orderly, CompleteUnlessDisturbed

LEMMA QuietOrderly ==
    ASSUME Good, faults = 0, NEW c \in Channels, IdsKept,
           UNCHANGED <<server_users, users, package_state, connected>>,
           next_id' = next_id \/ next_id' = next_id + 1,
           \A d \in Channels \ {c} : handler'[d] = handler[d],
           handler'[c] # None => Clean(handler[c])',
           Writing(c) => Writing(c)' /\ handler'[c].login = handler[c].login
    PROVE  Orderly'
<1>1. Grows(c)
  BY DEF Grows
<1>2. \A i \in Ids : i >= next_id' => users'[i] = None
  BY DEF Good, Orderly, Typed, TypeOK, Ids
<1> QED
  BY <1>1, <1>2, OrderlyStep

LEMMA InsertOrderly ==
    ASSUME Good, faults = 0, faults' = 0, NEW c \in Channels, InsertServerUser(c)
    PROVE  Orderly'
<1> DEFINE l == handler[c].login
<1>1. /\ IdsKept /\ \A d \in Channels \ {c} : handler'[d] = handler[d]
      /\ l \in Logins /\ ~ Writing(c) /\ handler[c] # None /\ handler[c] \in Handler
      /\ UNCHANGED <<users, package_state, connected>>
  BY InsertTyped, HandlerFacts DEF Good, InsertServerUser, At, Writing, accounts
<1>2. CASE server_users' = server_users /\ Answer(c, "again")
           /\ (next_id' = next_id \/ next_id' = next_id + 1)
  <2>1. handler'[c].pc = "reply"
    BY <1>1, <1>2, AnswerType, Names DEF Good, Typed
  <2> QED
    BY <1>1, <1>2, <2>1, QuietOrderly DEF Clean
<1>3. CASE /\ server_users[l] = None /\ next_id' = next_id + 1
           /\ server_users' = [server_users EXCEPT ![l] = next_id]
           /\ Goto(c, handler[c], "lookup")
  <2>1. handler'[c].pc = "lookup" /\ handler'[c].login = l /\ handler'[c] # None
    BY <1>1, <1>3, GotoType, Names, ConstantsAssumption DEF Good, Typed
  <2>2. server_users'[l] = next_id /\ next_id \in Nat
        /\ \A k \in Logins \ {l} : server_users'[k] = server_users[k]
    BY <1>1, <1>3 DEF Good, Typed, TypeOK
  <2>3. Writing(c)' /\ Grows(c)
    BY <1>1, <2>1 DEF Writing, Grows
  <2>4. \A i \in Ids : i >= next_id => users[i] = None
    BY DEF Good, Orderly
  <2>5. \A i \in Ids : i >= next_id' => users'[i] = None
    BY <1>1, <1>3, <2>2, <2>4 DEF Ids
  <2>6. Clean(handler[c])'
    BY <1>1, <2>1, <2>2, <2>4 DEF Clean, Ids
  <2> QED
    BY <1>1, <2>1, <2>2, <2>3, <2>5, <2>6, OrderlyStep
<1> QED
  BY <1>2, <1>3 DEF InsertServerUser, Fault, NoFault, Good, Typed, TypeOK

LEMMA LookupOrderly ==
    ASSUME Good, faults = 0, faults' = 0, NEW c \in Channels, GetUserByLogin(c)
    PROVE  Orderly'
<1> DEFINE h == handler[c]
<1>1. /\ IdsKept /\ \A d \in Channels \ {c} : handler'[d] = handler[d]
      /\ handler'[c].pc = "account" /\ handler'[c].login = h.login
      /\ h.login \in Logins /\ h \in Handler /\ h # None /\ h.pc = "lookup" /\ Clean(h)
      /\ server_users[h.login] \in Nat
  <2>1. h # None /\ h.pc = "lookup"
    BY DEF GetUserByLogin, At
  <2>2. h \in Handler /\ InStep(h) /\ h.login \in Logins /\ Clean(h)
    BY <2>1, HandlerFacts DEF Good, Orderly
  <2>3. server_users[h.login] \in Nat
    BY <2>1, <2>2 DEF InStep, Good, Typed, TypeOK
  <2> QED
    BY <2>1, <2>2, <2>3, LookupTyped DEF Good
<1>2. Goto(c, [h EXCEPT !.id = server_users[h.login], !.phone = h.login], "account")
  BY DEF GetUserByLogin, Fault
<1>3. handler'[c].phone = h.login /\ handler'[c].id = server_users[h.login] /\ handler'[c] # None
  <2> DEFINE g == [h EXCEPT !.id = server_users[h.login], !.phone = h.login]
  <2>1. g \in Handler /\ g.phone = h.login /\ g.id = server_users[h.login]
    BY <1>1 DEF Handler, Phones
  <2> QED
    BY <1>2, <2>1, GotoType, Names, ConstantsAssumption DEF Good, Typed
<1>4. UNCHANGED <<server_users, next_id, users, package_state, connected>>
  BY DEF GetUserByLogin, accounts
<1>5. Clean(handler[c])'
  BY <1>1, <1>3, <1>4 DEF Clean
<1>6. Writing(c)'
  BY <1>1, <1>3 DEF Writing
<1> QED
  BY <1>1, <1>4, <1>5, <1>6, QuietOrderly

LEMMA CreateUserOrderly ==
    ASSUME Good, faults = 0, faults' = 0, NEW c \in Channels, CreateUser(c)
    PROVE  Orderly'
<1> DEFINE h == handler[c]
<1>1. /\ IdsKept /\ \A d \in Channels \ {c} : handler'[d] = handler[d]
      /\ h.login \in Logins /\ h \in Handler /\ h # None /\ h.pc = "account" /\ Clean(h)
  BY CreateUserTyped, HandlerFacts DEF Good, Orderly, CreateUser, At
<1>2. Goto(c, h, "package")
      /\ UNCHANGED <<server_users, next_id, package_state, connected, requests>>
  BY DEF CreateUser
<1>3. /\ handler'[c].pc = "package" /\ handler'[c].login = h.login /\ handler'[c] # None
      /\ handler'[c].phone = h.phone /\ handler'[c].id = h.id
  BY <1>1, <1>2, GotoType, Names, ConstantsAssumption DEF Good, Typed
<1>4. h.phone = h.login /\ h.id = server_users[h.login]
  BY <1>1 DEF Clean
<1>5. /\ h.id \in Ids /\ users[h.id] = None /\ h.phone \notin LongLogins
         => users' = [users EXCEPT ![h.id] = h.phone]
      /\ ~ (h.id \in Ids /\ users[h.id] = None /\ h.phone \notin LongLogins)
         => users' = users
  BY DEF CreateUser, Try, Fault
<1>6. Writing(c) /\ Writing(c)'
  BY <1>1, <1>3 DEF Writing
<1>7. Grows(c)
  BY <1>2, <1>4, <1>5, <1>6 DEF Grows, Good, Typed, TypeOK
<1>8. Clean(handler[c])'
  BY <1>1, <1>2, <1>3, <1>4, <1>5 DEF Clean, Good, Typed, TypeOK
<1>9. \A i \in Ids : i >= next_id' => users'[i] = None
  <2>1. h.id \in Ids => h.id < next_id
    BY <1>1, <1>4, ConstantsAssumption DEF Good, Owned, Serial, Ids
  <2> SUFFICES ASSUME NEW i \in Ids, i >= next_id
               PROVE  users'[i] = None
    BY <1>2
  <2>2. users[i] = None /\ i # h.id
    BY <2>1 DEF Good, Orderly, Typed, TypeOK, Ids
  <2> QED
    BY <1>5, <2>2 DEF Good, Typed, TypeOK
<1> QED
  BY <1>1, <1>2, <1>3, <1>6, <1>7, <1>8, <1>9, OrderlyStep

(* The remainder of an id that fits is the id.                              *)
LEMMA Fitting ==
    ASSUME NEW id \in Ids
    PROVE  id % Word = id
BY ConstantsAssumption DEF Ids

LEMMA PackageOrderly ==
    ASSUME Good, faults = 0, faults' = 0, NEW c \in Channels, CreateEmptyPackage(c)
    PROVE  Orderly'
<1> DEFINE h == handler[c]
<1> DEFINE id == h.id % Word
<1>1. /\ IdsKept /\ \A d \in Channels \ {c} : handler'[d] = handler[d]
      /\ h.login \in Logins /\ h \in Handler /\ h # None /\ h.pc = "package" /\ Clean(h)
  BY PackageTyped, HandlerFacts DEF Good, Orderly, CreateEmptyPackage, At
<1>2. Goto(c, h, "rate")
      /\ UNCHANGED <<server_users, next_id, users, connected, requests>>
  BY DEF CreateEmptyPackage
<1>3. /\ handler'[c].pc = "rate" /\ handler'[c].login = h.login /\ handler'[c] # None
      /\ handler'[c].phone = h.phone /\ handler'[c].id = h.id
  BY <1>1, <1>2, GotoType, Names, ConstantsAssumption DEF Good, Typed
<1>4. /\ HasAccount(id) /\ id \notin package_state => package_state' = package_state \cup {id}
      /\ ~ (HasAccount(id) /\ id \notin package_state) => package_state' = package_state
  BY DEF CreateEmptyPackage, Try, Fault
<1>5. HasAccount(id) => id \in package_state'
  BY <1>4
<1>6. Writing(c) /\ Writing(c)' /\ Grows(c)
  BY <1>1, <1>2, <1>3, <1>4 DEF Writing, Grows
<1>7. Clean(handler[c])'
  <2>1. CASE server_users[h.login] \in Ids /\ h.login \notin LongLogins
    <3>1. h.id = server_users[h.login] /\ users[h.id] = h.login /\ h.login # None
      BY <1>1, <2>1, ConstantsAssumption DEF Clean, Phones
    <3>2. id = h.id
      BY <2>1, <3>1, Fitting
    <3>3. h.id \in package_state'
      BY <1>5, <2>1, <3>1, <3>2 DEF HasAccount
    <3> QED
      BY <1>1, <1>2, <1>3, <3>1, <3>3 DEF Clean
  <2>2. CASE ~ (server_users[h.login] \in Ids /\ h.login \notin LongLogins)
    BY <1>1, <1>2, <1>3, <2>2 DEF Clean
  <2> QED
    BY <2>1, <2>2
<1>8. \A i \in Ids : i >= next_id' => users'[i] = None
  BY <1>2 DEF Good, Orderly
<1> QED
  BY <1>1, <1>2, <1>3, <1>6, <1>7, <1>8, OrderlyStep

LEMMA RateOrderly ==
    ASSUME Good, faults = 0, faults' = 0, NEW c \in Channels, CreateUserRate(c)
    PROVE  Orderly'
<1> DEFINE h == handler[c]
<1>1. /\ IdsKept /\ \A d \in Channels \ {c} : handler'[d] = handler[d]
      /\ handler'[c].pc = "reply"
      /\ h.login \in Logins /\ h \in Handler /\ h # None /\ h.pc = "rate" /\ Clean(h)
  BY RateTyped, HandlerFacts DEF Good, Orderly, CreateUserRate, At
<1>2. UNCHANGED <<server_users, next_id, users, package_state, requests>>
  BY DEF CreateUserRate
<1>3. /\ HasAccount(h.id) /\ RateListed => connected' = connected \cup {h.id}
      /\ ~ (HasAccount(h.id) /\ RateListed) => connected' = connected
  BY DEF CreateUserRate, Try, Fault
<1>4. Writing(c) /\ Grows(c)
  BY <1>1, <1>2, <1>3 DEF Writing, Grows
<1>5. Clean(handler[c])'
  BY <1>1 DEF Clean
<1>6. ASSUME NEW l \in Logins \ LongLogins, l = h.login, server_users[l] \in Ids
      PROVE  Complete(l)'
  <2>1. h.id = server_users[l] /\ users[h.id] = l /\ l # None /\ h.id \in package_state
    BY <1>1, <1>6, ConstantsAssumption DEF Clean, Phones
  <2>2. HasAccount(h.id)
    BY <1>6, <2>1 DEF HasAccount
  <2> QED
    BY <1>2, <1>3, <1>6, <2>1, <2>2 DEF Complete
<1>7. \A i \in Ids : i >= next_id' => users'[i] = None
  BY <1>2 DEF Good, Orderly
<1> QED
  BY <1>1, <1>2, <1>4, <1>5, <1>6, <1>7, OrderlyStep

LEMMA NextOrderly ==
    ASSUME Good, [Next]_vars
    PROVE  Orderly'
<1>1. CASE UNCHANGED vars
  <2>1. UNCHANGED <<server_users, next_id, users, package_state, connected, handler, faults>>
    BY <1>1 DEF vars, accounts
  <2> QED
    BY <2>1 DEF Good, Orderly, Clean, CompleteUnlessDisturbed, Complete, Writing
<1>2. CASE faults' # 0
  BY <1>2 DEF Orderly, CompleteUnlessDisturbed
<1>3. CASE Crash
  BY <1>2, <1>3 DEF Crash, Fault, Good, Typed, TypeOK
<1>4. ASSUME faults' = 0, NEW c \in Channels, RegisterRR(c)
      PROVE  Orderly'
  <2>1. faults = 0 /\ ~ Writing(c)
        /\ UNCHANGED <<server_users, next_id, users, package_state, connected>>
    BY <1>4 DEF RegisterRR, Writing, accounts
  <2>2. Clean(handler[c])'
    BY <1>4, RegisterTyped DEF Good, Clean
  <2> QED
    BY <1>4, <2>1, <2>2, RegisterTyped, QuietOrderly DEF Good
<1>5. ASSUME faults' = 0, NEW c \in Channels, Call(c)
      PROVE  Orderly'
  <2>1. faults = 0
    BY <1>5, FaultType DEF Good, Typed, TypeOK, Call, IsUserExist, InsertServerUser, GetUserByLogin,
       CreateUser, CreateEmptyPackage, CreateUserRate, Try, Reply, NoFault, Fault
  <2>2. CASE IsUserExist(c)
    <3>1. ~ Writing(c) /\ UNCHANGED <<server_users, next_id, users, package_state, connected>>
      BY <2>2 DEF IsUserExist, At, Writing, accounts
    <3>2. Clean(handler[c])'
      BY <2>2, ExistsTyped DEF Good, Clean
    <3> QED
      BY <2>1, <2>2, <3>1, <3>2, ExistsTyped, QuietOrderly DEF Good
  <2>3. CASE Reply(c)
    <3>1. ~ Writing(c) /\ UNCHANGED <<server_users, next_id, users, package_state, connected>>
      BY <2>3 DEF Reply, At, Writing, accounts
    <3> QED
      BY <2>1, <2>3, <3>1, ReplyTyped, QuietOrderly DEF Good
  <2> QED
    BY <1>5, <2>1, <2>2, <2>3, InsertOrderly, LookupOrderly, CreateUserOrderly, PackageOrderly,
       RateOrderly DEF Call
<1> QED
  BY <1>1, <1>2, <1>3, <1>4, <1>5 DEF Next

(* As long as no call failed and the server stayed up, a stored login on    *)
(* which nobody works has its account, package and rate, for any number of  *)
(* registrations that interleave, of the same and of other logins.          *)
THEOREM UndisturbedIsComplete == Spec => []CompleteUnlessDisturbed
<1>1. Init => Orderly
  <2> SUFFICES ASSUME Init PROVE Orderly
    OBVIOUS
  <2>1. \A l \in Logins : server_users[l] \notin Ids
    BY ConstantsAssumption DEF Init, Ids
  <2>2. /\ \A i \in Ids : users[i] = None
        /\ \A c \in Channels : handler[c] = None
    BY DEF Init
  <2> QED
    BY <2>1, <2>2 DEF Orderly, CompleteUnlessDisturbed
<1>2. Typed /\ OneWriterPerLogin /\ Owned /\ Orderly /\ [Next]_vars => Orderly'
  BY NextOrderly DEF Good
<1>3. Orderly => CompleteUnlessDisturbed
  BY DEF Orderly
<1> QED
  BY <1>1, <1>2, <1>3, AlwaysTyped, OneWriter, AlwaysOwned, PTL DEF Spec

-----------------------------------------------------------------------------
(* An undisturbed "Success" is true.                                        *)

Successful(c) == handler[c] # None /\ handler[c].text = "success"

(* Who answers "Success" has stored the login, and nobody writes it again.  *)
Settled ==
    /\ \A c \in Channels : Successful(c) =>
          /\ handler[c].pc = "reply"
          /\ server_users[handler[c].login] # None
          /\ \A d \in Channels : Writing(d) => handler[d].login # handler[c].login

(* A step of channel c that begins no work on a stored login, and answers   *)
(* "Success" only at the end of its own work.                               *)
LEMMA SettledStep ==
    ASSUME Typed, OneWriterPerLogin, Settled, IdsKept, NEW c \in Channels,
           \A d \in Channels \ {c} : handler'[d] = handler[d],
           Writing(c)' => /\ handler'[c].login = handler[c].login
                          /\ Writing(c) \/ server_users[handler[c].login] = None,
           Successful(c)' => /\ handler'[c].pc = "reply"
                             /\ Writing(c) /\ handler'[c].login = handler[c].login
    PROVE  Settled'
<1> SUFFICES ASSUME NEW e \in Channels, Successful(e)'
             PROVE  /\ handler'[e].pc = "reply"
                    /\ server_users'[handler'[e].login] # None
                    /\ \A d \in Channels : Writing(d)' => handler'[d].login # handler'[e].login
  BY DEF Settled
<1>1. \A d \in Channels \ {c} : (Writing(d)' <=> Writing(d))
                              /\ (Successful(d)' <=> Successful(d))
  BY DEF Writing, Successful
<1>2. CASE e = c
  <2>1. handler[c] # None /\ handler[c].login \in Logins
        /\ server_users[handler[c].login] # None /\ ~ Writing(c)'
    BY <1>2, HandlerFacts DEF Writing, InStep
  <2>2. \A d \in Channels \ {c} : Writing(d)' => handler'[d].login # handler'[c].login
    BY <1>1, <1>2 DEF OneWriterPerLogin
  <2> QED
    BY <1>2, <2>1, <2>2 DEF IdsKept
<1>3. CASE e # c
  <2>1. Successful(e) /\ handler'[e] = handler[e]
    BY <1>1, <1>3
  <2>2. handler[e].pc = "reply" /\ handler[e].login \in Logins
        /\ server_users[handler[e].login] # None
        /\ \A d \in Channels : Writing(d) => handler[d].login # handler[e].login
    BY <2>1, HandlerFacts DEF Settled, Successful
  <2>3. Writing(c)' => handler'[c].login # handler[e].login
    BY <2>2
  <2> QED
    BY <1>1, <2>1, <2>2, <2>3 DEF IdsKept
<1> QED
  BY <1>2, <1>3

(* What the calls before the last leave in a handler's text.                *)
LEMMA NotYetSuccessful ==
    ASSUME Typed, Settled, NEW c \in Channels,
           \/ RegisterRR(c) \/ IsUserExist(c) \/ InsertServerUser(c) \/ GetUserByLogin(c)
           \/ CreateUser(c) \/ CreateEmptyPackage(c)
    PROVE  ~ Successful(c)'
<1>1. CASE RegisterRR(c)
  BY <1>1 DEF RegisterRR, Typed, TypeOK, Successful
<1>2. CASE ~ RegisterRR(c)
  <2>1. handler[c] # None /\ handler[c] \in Handler /\ handler[c].text # "success"
    BY <1>2, HandlerFacts DEF Settled, Successful, IsUserExist, InsertServerUser, GetUserByLogin,
       CreateUser, CreateEmptyPackage, At
  <2>2. CASE \E text \in {"wrong", "exists", "again"} : Answer(c, text)
    BY <2>1, <2>2 DEF Answer, Typed, TypeOK, Handler, Successful
  <2>3. ASSUME NEW step \in Steps, NEW id, NEW phone,
               Goto(c, handler[c], step) \/ Goto(c, [handler[c] EXCEPT !.id = id], step)
               \/ Goto(c, [handler[c] EXCEPT !.id = id, !.phone = phone], step)
        PROVE  ~ Successful(c)'
    BY <2>1, <2>3 DEF Goto, Typed, TypeOK, Handler, Successful
  <2>4. CASE IsUserExist(c) \/ InsertServerUser(c)
    BY <2>2, <2>3, <2>4, Names DEF IsUserExist, InsertServerUser
  <2>5. CASE GetUserByLogin(c)
    BY <2>3, <2>5, Names DEF GetUserByLogin
  <2>6. CASE CreateUser(c) \/ CreateEmptyPackage(c)
    BY <2>3, <2>6, Names DEF CreateUser, CreateEmptyPackage
  <2> QED
    BY <1>2, <2>4, <2>5, <2>6
<1> QED
  BY <1>1, <1>2

LEMMA NextSettled ==
    ASSUME Typed, OneWriterPerLogin, Settled, [Next]_vars
    PROVE  Settled'
<1>1. CASE UNCHANGED vars
  BY <1>1 DEF Settled, Successful, Writing, vars
<1>2. CASE Crash
  BY <1>2, CrashTyped DEF Settled, Successful
<1>3. ASSUME NEW c \in Channels, RegisterRR(c)
      PROVE  Settled'
  BY <1>3, RegisterTyped, NotYetSuccessful, SettledStep DEF Writing
<1>4. ASSUME NEW c \in Channels, Call(c)
      PROVE  Settled'
  <2>1. CASE IsUserExist(c)
    BY <2>1, ExistsTyped, NotYetSuccessful, SettledStep DEF Writing
  <2>2. CASE InsertServerUser(c)
    BY <2>2, InsertTyped, NotYetSuccessful, SettledStep DEF Writing
  <2>3. CASE GetUserByLogin(c)
    BY <2>3, LookupTyped, NotYetSuccessful, SettledStep DEF Writing, GetUserByLogin, At
  <2>4. CASE CreateUser(c)
    BY <2>4, CreateUserTyped, NotYetSuccessful, SettledStep DEF Writing, CreateUser, At
  <2>5. CASE CreateEmptyPackage(c)
    BY <2>5, PackageTyped, NotYetSuccessful, SettledStep DEF Writing, CreateEmptyPackage, At
  <2>6. CASE CreateUserRate(c)
    <3>1. Writing(c) /\ handler'[c].login = handler[c].login
      BY <2>6, AnswerType, Names DEF Typed, CreateUserRate, At, Writing
    <3> QED
      BY <2>6, <3>1, RateTyped, SettledStep DEF Writing
  <2>7. CASE Reply(c)
    BY <2>7, ReplyTyped, SettledStep DEF Writing, Successful
  <2> QED
    BY <1>4, <2>1, <2>2, <2>3, <2>4, <2>5, <2>6, <2>7 DEF Call
<1> QED
  BY <1>1, <1>2, <1>3, <1>4 DEF Next

LEMMA AlwaysSettled == Spec => []Settled
<1>1. Init => Settled
  BY DEF Init, Settled, Successful
<1>2. Typed /\ OneWriterPerLogin /\ Settled /\ [Next]_vars => Settled'
  BY NextSettled
<1> QED
  BY <1>1, <1>2, AlwaysTyped, OneWriter, PTL DEF Spec

(* "Success" is the truth as long as no call failed and the server stayed   *)
(* up, for an id and a login that fit users: the four results createUser    *)
(* ignores matter after a failure only.                                     *)
THEOREM UndisturbedSuccessIsTrue == Spec => []SuccessUnlessDisturbed
<1>1. Typed /\ Settled /\ CompleteUnlessDisturbed => SuccessUnlessDisturbed
  <2> SUFFICES ASSUME Typed, Settled, CompleteUnlessDisturbed, NEW c \in Channels, faults = 0,
                      At(c, "reply"), handler[c].text = "success",
                      server_users[handler[c].login] \in Ids, handler[c].login \notin LongLogins
               PROVE  Complete(handler[c].login)
    BY DEF SuccessUnlessDisturbed
  <2>1. handler[c].login \in Logins /\ Successful(c)
    BY HandlerFacts DEF At, Successful
  <2> QED
    BY <2>1 DEF Settled, CompleteUnlessDisturbed
<1> QED
  BY <1>1, AlwaysTyped, AlwaysSettled, UndisturbedIsComplete, PTL

-----------------------------------------------------------------------------
(* The registrations implement the directory.                               *)

(* A statement either does nothing, or was allowed.                         *)
LEMMA InsertEnrolls ==
    ASSUME Typed, Owned, NEW c \in Channels, InsertServerUser(c)
    PROVE  Directory!Enroll(handler[c].login) \/ UNCHANGED Directory!vars
<1> DEFINE l == handler[c].login
<1>1. l \in Logins /\ UNCHANGED <<users, package_state, connected>>
  BY HandlerFacts DEF InsertServerUser, At, accounts
<1>2. CASE server_users' = server_users
  BY <1>1, <1>2 DEF Directory!vars
<1>3. CASE /\ server_users[l] = None
           /\ server_users' = [server_users EXCEPT ![l] = next_id]
  <2>1. server_users'[l] = next_id /\ next_id \in Nat
    BY <1>1, <1>3 DEF Typed, TypeOK
  <2>2. \A k \in Logins \ {l} : server_users[k] # next_id
    BY <2>1, ConstantsAssumption DEF Owned, Serial
  <2> QED
    BY <1>1, <1>3, <2>1, <2>2 DEF Directory!Enroll
<1> QED
  BY <1>2, <1>3 DEF InsertServerUser

LEMMA CreateUserOpens ==
    ASSUME Typed, NEW c \in Channels, CreateUser(c)
    PROVE  (\E i \in Ids : Directory!Open(i)) \/ UNCHANGED Directory!vars
<1> DEFINE h == handler[c]
<1>1. h # None /\ h \in Handler /\ InStep(h) /\ h.pc = "account"
      /\ UNCHANGED <<server_users, package_state, connected>>
  BY HandlerFacts DEF CreateUser, At
<1>2. CASE users' = users
  BY <1>1, <1>2 DEF Directory!vars
<1>3. CASE /\ h.id \in Ids /\ users[h.id] = None /\ h.phone \notin LongLogins
           /\ users' = [users EXCEPT ![h.id] = h.phone]
  <2>1. CASE h.phone = Unnamed
    BY <1>1, <1>3, <2>1 DEF Directory!Open
  <2>2. CASE h.phone = h.login /\ h.id = server_users[h.login]
    <3>1. h.login \in Logins \ LongLogins
      BY <1>1, <1>3, <2>2 DEF Handler
    <3> QED
      BY <1>1, <1>3, <2>2, <3>1 DEF Directory!Open
  <2> QED
    BY <1>1, <2>1, <2>2 DEF InStep
<1> QED
  BY <1>2, <1>3 DEF CreateUser, Try

LEMMA PackageFurnishes ==
    ASSUME NEW c \in Channels, CreateEmptyPackage(c)
    PROVE  (\E i \in Ids : Directory!Furnish(i)) \/ UNCHANGED Directory!vars
<1> DEFINE id == handler[c].id % Word
<1>1. UNCHANGED <<server_users, users, connected>>
  BY DEF CreateEmptyPackage
<1>2. \/ package_state' = package_state
      \/ HasAccount(id) /\ id \notin package_state /\ package_state' = package_state \cup {id}
  BY DEF CreateEmptyPackage, Try
<1> QED
  BY <1>1, <1>2 DEF HasAccount, Directory!Furnish, Directory!vars

LEMMA RateSubscribes ==
    ASSUME NEW c \in Channels, CreateUserRate(c)
    PROVE  (\E i \in Ids : Directory!Subscribe(i)) \/ UNCHANGED Directory!vars
<1> DEFINE id == handler[c].id
<1>1. UNCHANGED <<server_users, users, package_state>>
  BY DEF CreateUserRate
<1>2. \/ connected' = connected
      \/ HasAccount(id) /\ connected' = connected \cup {id}
  BY DEF CreateUserRate, Try
<1>3. connected' = connected \/ (HasAccount(id) /\ id \notin connected
                                   /\ connected' = connected \cup {id})
  BY <1>2
<1> QED
  BY <1>1, <1>3 DEF HasAccount, Directory!Subscribe, Directory!vars

LEMMA DirectoryStep ==
    ASSUME Typed, Owned, [Next]_vars
    PROVE  Directory!Next \/ UNCHANGED Directory!vars
<1>1. CASE UNCHANGED vars
  BY <1>1 DEF vars, accounts, Directory!vars
<1>2. CASE Crash
  BY <1>2 DEF Crash, accounts, Directory!vars
<1>3. ASSUME NEW c \in Channels, RegisterRR(c)
      PROVE  UNCHANGED Directory!vars
  BY <1>3 DEF RegisterRR, accounts, Directory!vars
<1>4. ASSUME NEW c \in Channels, Call(c)
      PROVE  Directory!Next \/ UNCHANGED Directory!vars
  <2>1. CASE IsUserExist(c) \/ GetUserByLogin(c) \/ Reply(c)
    BY <2>1 DEF IsUserExist, GetUserByLogin, Reply, accounts, Directory!vars
  <2>2. CASE InsertServerUser(c)
    <3>1. handler[c].login \in Logins
      BY <2>2, HandlerFacts DEF InsertServerUser, At
    <3> QED
      BY <2>2, <3>1, InsertEnrolls DEF Directory!Next
  <2>3. CASE CreateUser(c)
    BY <2>3, CreateUserOpens DEF Directory!Next
  <2>4. CASE CreateEmptyPackage(c)
    BY <2>4, PackageFurnishes DEF Directory!Next
  <2>5. CASE CreateUserRate(c)
    BY <2>5, RateSubscribes DEF Directory!Next
  <2> QED
    BY <1>4, <2>1, <2>2, <2>3, <2>4, <2>5 DEF Call
<1> QED
  BY <1>1, <1>2, <1>3, <1>4 DEF Next

(* Whatever fails, is retried or dies with the server, the handlers only    *)
(* add to the tables, and in the directory's order: an id once and for good *)
(* to a login, an account to its owner or to nobody, packages and rates to  *)
(* accounts that exist.                                                     *)
THEOREM RegistrationImplementsDirectory == Spec => ImplementsDirectory
<1>1. Init => Directory!Init
  BY DEF Init, Directory!Init
<1>2. Typed /\ Owned /\ [Next]_vars => [Directory!Next]_(Directory!vars)
  BY DirectoryStep
<1> QED
  BY <1>1, <1>2, AlwaysTyped, AlwaysOwned, PTL DEF Spec, ImplementsDirectory, Directory!Spec
=============================================================================

---------------------------- MODULE SessionsProofs ----------------------------
(* Proofs about Sessions, for every value of its constants.                 *)
EXTENDS Sessions, TLAPS

-----------------------------------------------------------------------------
(* Type correctness.                                                        *)

LEMMA GotoType ==
    ASSUME TypeOK, NEW c \in Channels, NEW h \in Handler,
           NEW step \in Steps \ {"end", "create"}, Goto(c, h, step)
    PROVE  handler' \in [Channels -> Handler \cup {None}]
<1>1. [h EXCEPT !.pc = step] \in Handler
  BY DEF Handler, Locals
<1> QED
  BY <1>1 DEF TypeOK, Goto

(* From checkSession to the handler of the request.                         *)
LEMMA DispatchType ==
    ASSUME TypeOK, NEW c \in Channels, NEW h \in Handler, Goto(c, h, Dispatch(h.kind))
    PROVE  handler' \in [Channels -> Handler \cup {None}]
<1>1. Dispatch(h.kind) \in Steps /\ Dispatch(h.kind) # "create"
      /\ (Dispatch(h.kind) = "end" => h.kind = "logout")
  BY DEF Handler, Locals, Kinds, Dispatch, Steps
<1>2. [h EXCEPT !.pc = Dispatch(h.kind)] \in Handler
  BY <1>1 DEF Handler, Locals
<1> QED
  BY <1>2 DEF TypeOK, Goto

LEMMA AnswerType ==
    ASSUME TypeOK, NEW c \in Channels, handler[c] # None, NEW text \in Texts, Answer(c, text)
    PROVE  handler' \in [Channels -> Handler \cup {None}]
<1>1. handler[c] \in Handler
  BY DEF TypeOK
<1>2. [handler[c] EXCEPT !.pc = "reply", !.text = text] \in Handler
  BY <1>1 DEF Handler, Locals, Steps
<1> QED
  BY <1>2 DEF TypeOK, Answer

LEMMA FaultType ==
    ASSUME TypeOK, NoFault \/ Fault
    PROVE  faults' \in 0 .. MaxFaults
BY ConstantsAssumption DEF TypeOK, NoFault, Fault

LEMMA EndDateType ==
    ASSUME TypeOK, NEW sid, NEW time \in Nat
    PROVE  WithEndDate(sid, time) \subseteq ServerSession
BY DEF TypeOK, WithEndDate, ServerSession

LEMMA InitType == Init => TypeOK
BY ConstantsAssumption DEF Init, TypeOK, Token

LEMMA ReceiveType ==
    ASSUME TypeOK, NEW c \in Channels, Receive(c)
    PROVE  TypeOK'
<1> USE ConstantsAssumption
<1>1. PICK kind \in Kinds, sid \in {held[Owner[c]], None}, user \in Users :
        handler' = [handler EXCEPT ![c] =
              [kind |-> kind, pc |-> "check", sid |-> sid, user |-> user, vouched |-> FALSE,
               new |-> None, text |-> "none"]]
  BY DEF Receive
<1>2. sid \in Token \cup {None}
  BY <1>1, ConstantsAssumption DEF TypeOK
<1>3. [kind |-> kind, pc |-> "check", sid |-> sid, user |-> user, vouched |-> FALSE,
       new |-> None, text |-> "none"] \in Handler
  BY <1>1, <1>2 DEF Handler, Locals, Steps, Texts
<1>4. handler' \in [Channels -> Handler \cup {None}]
  BY <1>1, <1>3 DEF TypeOK
<1>5. requests' \in 0 .. MaxRequests
  BY DEF TypeOK, Receive
<1> QED
  BY <1>4, <1>5 DEF TypeOK, Receive, generator

LEMMA CheckType ==
    ASSUME TypeOK, NEW c \in Channels, Check(c)
    PROVE  TypeOK'
<1>1. handler[c] \in Handler
  BY DEF Check, At, TypeOK
<1>2. "touch" \in Steps \ {"end", "create"} /\ "wrong" \in Texts
  BY DEF Steps, Texts
<1>3. handler' \in [Channels -> Handler \cup {None}]
  BY <1>1, <1>2, GotoType, DispatchType, AnswerType DEF Check, At
<1>4. faults' \in 0 .. MaxFaults
  BY FaultType DEF Check
<1> QED
  BY <1>3, <1>4 DEF Check, TypeOK, generator

LEMMA TouchType ==
    ASSUME TypeOK, NEW c \in Channels, Touch(c)
    PROVE  TypeOK'
<1>1. handler[c] \in Handler
  BY DEF Touch, At, TypeOK
<1>2. handler' \in [Channels -> Handler \cup {None}]
  <2>1. "whose" \in Steps \ {"end", "create"} /\ "wrong" \in Texts
    BY DEF Steps, Texts
  <2> QED
    BY <1>1, <2>1, GotoType, AnswerType DEF Touch, At
<1>3. faults' \in 0 .. MaxFaults
  BY FaultType DEF Touch
<1>4. now + TTL \in Nat
  BY ConstantsAssumption DEF TypeOK
<1>5. server_session' \subseteq ServerSession
  BY <1>4, EndDateType DEF Touch, TypeOK
<1> QED
  BY <1>2, <1>3, <1>5 DEF Touch, TypeOK, generator

LEMMA WhoseType ==
    ASSUME TypeOK, NEW c \in Channels, Whose(c)
    PROVE  TypeOK'
<1>1. handler[c] \in Handler
  BY DEF Whose, At, TypeOK
<1>2. handler' \in [Channels -> Handler \cup {None}]
  <2>1. CASE \E r \in Rows(handler[c].sid) :
               Goto(c, [handler[c] EXCEPT !.user = r.user_id, !.vouched = TRUE], Dispatch(handler[c].kind))
    <3>1. PICK r \in Rows(handler[c].sid) :
               Goto(c, [handler[c] EXCEPT !.user = r.user_id, !.vouched = TRUE], Dispatch(handler[c].kind))
      BY <2>1
    <3>2. r.user_id \in Users
      BY DEF Rows, TypeOK, ServerSession
    <3> DEFINE h == [handler[c] EXCEPT !.user = r.user_id, !.vouched = TRUE]
    <3>3. h \in Handler /\ h.kind = handler[c].kind
      BY <1>1, <3>2 DEF Handler, Locals
    <3>4. Goto(c, h, Dispatch(h.kind))
      BY <3>1, <3>3
    <3> QED
      BY <3>3, <3>4, DispatchType
  <2>2. CASE Answer(c, "wrong")
    BY <2>2, AnswerType DEF Texts, Whose, At
  <2> QED
    BY <2>1, <2>2 DEF Whose
<1>3. faults' \in 0 .. MaxFaults
  BY FaultType DEF Whose
<1> QED
  BY <1>2, <1>3 DEF Whose, TypeOK, generator

LEMMA VerifyType ==
    ASSUME TypeOK, NEW c \in Channels, Verify(c)
    PROVE  TypeOK'
<1>1. handler[c] \in Handler
  BY DEF Verify, At, TypeOK
<1>2. "seed" \in Steps \ {"end", "create"} /\ "refused" \in Texts /\ "wrong" \in Texts
  BY DEF Steps, Texts
<1>3. handler' \in [Channels -> Handler \cup {None}]
  BY <1>1, <1>2, GotoType, AnswerType DEF Verify, At
<1>4. faults' \in 0 .. MaxFaults
  BY FaultType DEF Verify
<1> QED
  BY <1>3, <1>4 DEF Verify, TypeOK, generator

LEMMA SeedType ==
    ASSUME TypeOK, NEW c \in Channels, Seed(c)
    PROVE  TypeOK'
<1>1. handler[c] \in Handler /\ "draw" \in Steps \ {"end", "create"}
  BY DEF Seed, At, TypeOK, Steps
<1>2. handler' \in [Channels -> Handler \cup {None}]
  BY <1>1, GotoType DEF Seed
<1>3. rng' \in Token /\ seeds' \subseteq 0 .. now' /\ crowded' \subseteq seeds'
  BY ConstantsAssumption DEF Seed, TypeOK, Token
<1> QED
  BY <1>2, <1>3 DEF Seed, TypeOK, bounds

LEMMA DrawType ==
    ASSUME TypeOK, NEW c \in Channels, Draw(c)
    PROVE  TypeOK'
<1> DEFINE h == [handler[c] EXCEPT !.new = rng]
<1>1. handler[c] \in Handler
  BY DEF Draw, At, TypeOK
<1>2. rng \in Token /\ rng # None
  BY ConstantsAssumption DEF TypeOK
<1>3. /\ [h EXCEPT !.pc = "create"] \in Handler
      /\ [[h EXCEPT !.text = "done"] EXCEPT !.pc = "reply"] \in Handler
  BY <1>1, <1>2 DEF Handler, Locals, Steps, Texts
<1>4. handler' \in [Channels -> Handler \cup {None}]
  BY <1>3 DEF Draw, Goto, TypeOK
<1>5. rng' \in Token
  BY DEF Draw, TypeOK, Token, SessionLength, SaltLength
<1> QED
  BY <1>4, <1>5 DEF Draw, TypeOK, bounds

LEMMA CreateType ==
    ASSUME TypeOK, NEW c \in Channels, Create(c)
    PROVE  TypeOK'
<1>0. handler[c].new \in Token
  BY DEF Create, At, TypeOK, Handler, Locals
<1>1. handler' \in [Channels -> Handler \cup {None}]
  BY AnswerType DEF Create, At, Texts
<1>2. faults' \in 0 .. MaxFaults
  BY FaultType DEF Create
<1>3. NewRow(handler[c].new, Owner[c]) \in ServerSession
  BY <1>0, ConstantsAssumption DEF NewRow, ServerSession, TypeOK
<1>4. server_session' \subseteq ServerSession
  BY <1>3 DEF Create, TypeOK
<1> QED
  BY <1>1, <1>2, <1>4 DEF Create, TypeOK, generator

LEMMA EndType ==
    ASSUME TypeOK, NEW c \in Channels, End(c)
    PROVE  TypeOK'
<1>0. handler[c].sid \in Token \cup {None}
  BY DEF End, At, TypeOK, Handler, Locals
<1>1. handler' \in [Channels -> Handler \cup {None}]
  BY AnswerType DEF End, At, Texts
<1>2. faults' \in 0 .. MaxFaults
  BY FaultType DEF End
<1>3. now \in Nat
  BY ConstantsAssumption DEF TypeOK
<1>4. server_session' \subseteq ServerSession /\ closed' \subseteq Token
  BY <1>0, <1>3, EndDateType DEF End, TypeOK
<1> QED
  BY <1>1, <1>2, <1>4 DEF End, TypeOK, generator

LEMMA UseType ==
    ASSUME TypeOK, NEW c \in Channels, Use(c)
    PROVE  TypeOK'
<1>1. handler' \in [Channels -> Handler \cup {None}]
  BY AnswerType DEF Use, At, Texts
<1> QED
  BY <1>1 DEF Use, TypeOK, generator, bounds

LEMMA ReplyType ==
    ASSUME TypeOK, NEW c \in Channels, Reply(c)
    PROVE  TypeOK'
<1>1. handler[c] \in Handler
  BY DEF Reply, At, TypeOK
<1>2. held' \in [Users -> Token \cup {None}]
  BY <1>1, ConstantsAssumption DEF Reply, TypeOK, Handler, Locals
<1>3. handler' \in [Channels -> Handler \cup {None}]
  BY DEF Reply, TypeOK
<1> QED
  BY <1>2, <1>3 DEF Reply, TypeOK, generator, bounds

LEMMA TickType == TypeOK /\ Tick => TypeOK'
BY ConstantsAssumption DEF Tick, TypeOK, generator, bounds

LEMMA CrashType == TypeOK /\ Crash => TypeOK'
BY DEF Crash, TypeOK, bounds, Token


LEMMA NextType == TypeOK /\ [Next]_vars => TypeOK'
<1> SUFFICES ASSUME TypeOK, [Next]_vars PROVE TypeOK'
  OBVIOUS
<1>1. ASSUME NEW c \in Channels, Receive(c) \/ Call(c) PROVE TypeOK'
  BY <1>1, ReceiveType, CheckType, TouchType, WhoseType, VerifyType, SeedType, DrawType,
     CreateType, EndType, UseType, ReplyType DEF Call
<1>2. CASE UNCHANGED vars
  BY <1>2 DEF vars, TypeOK
<1> QED
  BY <1>1, <1>2, TickType, CrashType DEF Next

(* Type correctness of the table, the apps' sessions and every handler's   *)
(* locals, in all behaviours.                                              *)
THEOREM TypeCorrect == Spec => []TypeOK
BY InitType, NextType, PTL DEF Spec

-----------------------------------------------------------------------------
(* Users are kept apart: the invariants of a step that draws no id.        *)

Apart == TypeOK /\ SessionsApart /\ GeneratorAhead

(* No user gets to know an id he did not know.                             *)
NoNewIds == \A u \in Users : \A t \in TokensOf(u)' \ {None} : t \in TokensOf(u)

NoNewDraw == \A c \in Channels : At(c, "draw")' => At(c, "draw")

LEMMA QuietStep ==
    ASSUME Apart, TypeOK', NoNewIds, NoNewDraw, UNCHANGED generator
    PROVE  Apart'
<1>1. SessionsApart'
  BY DEF Apart, SessionsApart, NoNewIds, generator
<1>2. (\A u \in Users : \A t \in TokensOf(u) \ {None} : t.sec \in seeds)'
  BY DEF Apart, GeneratorAhead, NoNewIds, generator
<1>3. ASSUME NEW c \in Channels, At(c, "draw")'
      PROVE  /\ (rng.sec \in seeds)'
             /\ (\/ rng.sec \in crowded
                 \/ \A u \in Users : \A t \in TokensOf(u) \ {None} :
                        t.sec = rng.sec => t.offset < rng.offset)'
  BY <1>3 DEF Apart, GeneratorAhead, NoNewIds, NoNewDraw, generator
<1>4. GeneratorAhead'
  BY <1>2, <1>3 DEF GeneratorAhead
<1> QED
  BY <1>1, <1>4 DEF Apart

(* How an id comes to be known, before and after a step.                   *)
LEMMA Known ==
    ASSUME NEW u, NEW t
    PROVE  t \in TokensOf(u) <=>
             \/ \E r \in server_session : r.session = t /\ r.user_id = u
             \/ held[u] = t
             \/ \E c \in Channels :
                   /\ Owner[c] = u /\ handler[c] # None
                   /\ t \in {handler[c].sid, handler[c].new}
BY DEF TokensOf

LEMMA KnownNext ==
    ASSUME NEW u, NEW t
    PROVE  t \in TokensOf(u)' <=>
             \/ \E r \in server_session' : r.session = t /\ r.user_id = u
             \/ held'[u] = t
             \/ \E c \in Channels :
                   /\ Owner[c] = u /\ handler'[c] # None
                   /\ t \in {handler'[c].sid, handler'[c].new}
BY DEF TokensOf

(* The ids of a user do not grow when his rows, his app and his handlers   *)
(* only keep what they have or take what he knows.                         *)
LEMMA NothingNew ==
    ASSUME \A r \in server_session' : \E q \in server_session :
               q.session = r.session /\ q.user_id = r.user_id,
           \A u \in Users : held'[u] # held[u] => held'[u] \in TokensOf(u),
           \A c \in Channels : handler'[c] # None =>
               \A t \in {handler'[c].sid, handler'[c].new} \ {None} : t \in TokensOf(Owner[c])
    PROVE  NoNewIds
<1> SUFFICES ASSUME NEW u \in Users, NEW t \in TokensOf(u)', t # None
             PROVE  t \in TokensOf(u)
  BY DEF NoNewIds
<1>1. CASE \E r \in server_session' : r.session = t /\ r.user_id = u
  BY <1>1, Known
<1>2. CASE held'[u] = t
  BY <1>2, Known
<1>3. CASE \E c \in Channels :
             /\ Owner[c] = u /\ handler'[c] # None
             /\ t \in {handler'[c].sid, handler'[c].new}
  BY <1>3
<1> QED
  BY <1>1, <1>2, <1>3, KnownNext

(* A handler that moves on or answers keeps its ids.                       *)
SameIds(c) ==
    /\ handler[c] # None
    /\ handler'[c].sid = handler[c].sid /\ handler'[c].new = handler[c].new
    /\ handler'[c].pc # "draw"
    /\ \A d \in Channels \ {c} : handler'[d] = handler[d]

LEMMA KeptIds ==
    ASSUME NEW c \in Channels, handler[c] # None,
           handler'[c].sid = handler[c].sid, handler'[c].new = handler[c].new,
           \A d \in Channels \ {c} : handler'[d] = handler[d]
    PROVE  \A d \in Channels : handler'[d] # None =>
              \A t \in {handler'[d].sid, handler'[d].new} \ {None} : t \in TokensOf(Owner[d])
<1> SUFFICES ASSUME NEW d \in Channels, handler'[d] # None,
                    NEW t \in {handler'[d].sid, handler'[d].new}
             PROVE  t \in TokensOf(Owner[d])
  OBVIOUS
<1>1. handler[d] # None /\ t \in {handler[d].sid, handler[d].new}
  OBVIOUS
<1> QED
  BY <1>1, Known

LEMMA GotoIds ==
    ASSUME TypeOK, NEW c \in Channels, NEW h \in Handler, handler[c] # None,
           h.sid = handler[c].sid, h.new = handler[c].new,
           NEW step, step # "draw", Goto(c, h, step)
    PROVE  SameIds(c) /\ handler'[c].user = h.user /\ handler'[c].vouched = h.vouched
<1>1. handler' = [handler EXCEPT ![c] = [h EXCEPT !.pc = step]]
  BY DEF Goto
<1>2. handler'[c] = [h EXCEPT !.pc = step] /\ \A d \in Channels \ {c} : handler'[d] = handler[d]
  BY <1>1 DEF TypeOK
<1>3. handler'[c].sid = h.sid /\ handler'[c].new = h.new /\ handler'[c].user = h.user
      /\ handler'[c].vouched = h.vouched /\ handler'[c].pc = step
  BY <1>2 DEF Handler, Locals
<1> QED
  BY <1>2, <1>3 DEF SameIds

LEMMA AnswerIds ==
    ASSUME TypeOK, NEW c \in Channels, handler[c] # None, NEW text, Answer(c, text)
    PROVE  SameIds(c) /\ handler'[c].user = handler[c].user
           /\ handler'[c].vouched = handler[c].vouched
<1>1. handler[c] \in Handler
  BY DEF TypeOK
<1>2. handler'[c] = [handler[c] EXCEPT !.pc = "reply", !.text = text]
      /\ \A d \in Channels \ {c} : handler'[d] = handler[d]
  BY DEF Answer, TypeOK
<1>3. /\ handler'[c].sid = handler[c].sid /\ handler'[c].new = handler[c].new
      /\ handler'[c].user = handler[c].user /\ handler'[c].vouched = handler[c].vouched
      /\ handler'[c].pc = "reply"
  BY <1>1, <1>2 DEF Handler, Locals
<1> QED
  BY <1>2, <1>3 DEF SameIds

LEMMA SameIdsQuiet ==
    ASSUME TypeOK, NEW c \in Channels, SameIds(c), UNCHANGED held,
           \A r \in server_session' : \E q \in server_session :
               q.session = r.session /\ q.user_id = r.user_id
    PROVE  NoNewIds /\ NoNewDraw
<1>1. \A d \in Channels : handler'[d] # None =>
         \A t \in {handler'[d].sid, handler'[d].new} \ {None} : t \in TokensOf(Owner[d])
  BY KeptIds DEF SameIds
<1>2. NoNewIds
  BY <1>1, NothingNew
<1>3. NoNewDraw
  BY DEF NoNewDraw, SameIds, At
<1> QED
  BY <1>2, <1>3

LEMMA EndDateIds ==
    ASSUME TypeOK, NEW sid, NEW time, server_session' = WithEndDate(sid, time)
    PROVE  \A r \in server_session' : \E q \in server_session :
               q.session = r.session /\ q.user_id = r.user_id
<1> SUFFICES ASSUME NEW r \in server_session'
             PROVE  \E q \in server_session : q.session = r.session /\ q.user_id = r.user_id
  OBVIOUS
<1>1. PICK q \in server_session :
        r = IF q.session = sid THEN [q EXCEPT !.end_date = time] ELSE q
  BY DEF WithEndDate
<1>2. r.session = q.session /\ r.user_id = q.user_id
  BY <1>1 DEF TypeOK, ServerSession
<1> QED
  BY <1>2

LEMMA Moves ==
    ASSUME TypeOK, NEW c \in Channels,
           Check(c) \/ Touch(c) \/ Whose(c) \/ Verify(c) \/ End(c) \/ Use(c)
    PROVE  /\ SameIds(c)
           /\ (handler'[c].user = handler[c].user /\ handler'[c].vouched = handler[c].vouched)
              \/ \E r \in Rows(handler[c].sid) : handler'[c].user = r.user_id
<1>1. handler[c] # None /\ handler[c] \in Handler /\ handler[c].kind \in Kinds
  BY DEF Check, Touch, Whose, Verify, End, Use, At, TypeOK, Handler, Locals
<1>2. Dispatch(handler[c].kind) # "draw"
  BY <1>1 DEF Dispatch, Kinds
<1>3. CASE \E step \in {"touch", "whose", "seed", Dispatch(handler[c].kind)} :
             Goto(c, handler[c], step)
  BY <1>1, <1>2, <1>3, GotoIds
<1>4. CASE \E text \in Texts : Answer(c, text)
  BY <1>1, <1>4, AnswerIds
<1>5. CASE \E r \in Rows(handler[c].sid) :
             Goto(c, [handler[c] EXCEPT !.user = r.user_id, !.vouched = TRUE], Dispatch(handler[c].kind))
  <2>1. PICK r \in Rows(handler[c].sid) :
             Goto(c, [handler[c] EXCEPT !.user = r.user_id, !.vouched = TRUE], Dispatch(handler[c].kind))
    BY <1>5
  <2> DEFINE h == [handler[c] EXCEPT !.user = r.user_id, !.vouched = TRUE]
  <2>2. r.user_id \in Users
    BY DEF Rows, TypeOK, ServerSession
  <2>3. h \in Handler /\ h.sid = handler[c].sid /\ h.new = handler[c].new /\ h.user = r.user_id
    BY <1>1, <2>2 DEF Handler, Locals
  <2>4. SameIds(c) /\ handler'[c].user = h.user
    BY <1>1, <1>2, <2>1, <2>3, GotoIds
  <2> QED
    BY <2>3, <2>4
<1>6. \A text \in {"wrong", "refused", "done"} : text \in Texts
  BY DEF Texts
<1> QED
  BY <1>3, <1>4, <1>5, <1>6 DEF Check, Touch, Whose, Verify, End, Use

LEMMA MoveApart ==
    ASSUME Apart, TypeOK', NEW c \in Channels,
           Check(c) \/ Touch(c) \/ Whose(c) \/ Verify(c) \/ End(c) \/ Use(c)
    PROVE  Apart'
<1>1. SameIds(c)
  BY Moves DEF Apart
<1>2. UNCHANGED held /\ UNCHANGED generator
  BY DEF Check, Touch, Whose, Verify, End, Use
<1>3. \A r \in server_session' : \E q \in server_session :
          q.session = r.session /\ q.user_id = r.user_id
  BY EndDateIds DEF Check, Touch, Whose, Verify, End, Use, Apart
<1> QED
  BY <1>1, <1>2, <1>3, SameIdsQuiet, QuietStep DEF Apart

LEMMA ReceiveApart ==
    ASSUME Apart, TypeOK', NEW c \in Channels, Receive(c)
    PROVE  Apart' /\ ~ handler'[c].vouched /\ \A d \in Channels \ {c} : handler'[d] = handler[d]
<1>1. PICK kind \in Kinds, sid \in {held[Owner[c]], None}, user \in Users :
        handler' = [handler EXCEPT ![c] =
              [kind |-> kind, pc |-> "check", sid |-> sid, user |-> user, vouched |-> FALSE,
               new |-> None, text |-> "none"]]
  BY DEF Receive
<1>2. /\ handler'[c] = [kind |-> kind, pc |-> "check", sid |-> sid, user |-> user,
                        vouched |-> FALSE, new |-> None, text |-> "none"]
      /\ \A d \in Channels \ {c} : handler'[d] = handler[d]
  BY <1>1 DEF Apart, TypeOK
<1>3. NoNewIds
  <2>1. \A d \in Channels : handler'[d] # None =>
           \A t \in {handler'[d].sid, handler'[d].new} \ {None} : t \in TokensOf(Owner[d])
    BY <1>2, Known
  <2> QED
    BY <2>1, NothingNew DEF Receive
<1>4. NoNewDraw
  BY <1>2 DEF NoNewDraw, At
<1> QED
  BY <1>2, <1>3, <1>4, QuietStep DEF Receive

LEMMA ReplyApart ==
    ASSUME Apart, TypeOK', NEW c \in Channels, Reply(c)
    PROVE  Apart' /\ handler'[c] = None /\ \A d \in Channels \ {c} : handler'[d] = handler[d]
<1>1. handler'[c] = None /\ \A d \in Channels \ {c} : handler'[d] = handler[d]
  BY DEF Reply, Apart, TypeOK
<1>2. \A u \in Users : held'[u] # held[u] => held'[u] \in TokensOf(u)
  <2>1. SUFFICES ASSUME NEW u \in Users, held'[u] # held[u] PROVE held'[u] \in TokensOf(u)
    OBVIOUS
  <2>2. held' = [held EXCEPT ![Owner[c]] = handler[c].new]
    BY <2>1 DEF Reply
  <2>3. u = Owner[c] /\ held'[u] = handler[c].new
    BY <2>1, <2>2 DEF Apart, TypeOK
  <2> QED
    BY <2>3, Known DEF Reply, At
<1>3. NoNewIds
  <2>1. \A d \in Channels : handler'[d] # None =>
           \A t \in {handler'[d].sid, handler'[d].new} \ {None} : t \in TokensOf(Owner[d])
    BY <1>1, Known
  <2> QED
    BY <1>2, <2>1, NothingNew DEF Reply
<1>4. NoNewDraw
  BY <1>1 DEF NoNewDraw, At
<1> QED
  BY <1>1, <1>3, <1>4, QuietStep DEF Reply

LEMMA CreateApart ==
    ASSUME Apart, TypeOK', NEW c \in Channels, Create(c)
    PROVE  Apart' /\ SameIds(c) /\ handler'[c].user = handler[c].user
           /\ handler'[c].vouched = handler[c].vouched
<1>1. SameIds(c) /\ handler'[c].user = handler[c].user /\ handler'[c].vouched = handler[c].vouched
  BY AnswerIds DEF Create, At, Apart
<1>2. NoNewIds
  <2> SUFFICES ASSUME NEW u \in Users, NEW t \in TokensOf(u)', t # None
               PROVE  t \in TokensOf(u)
    BY DEF NoNewIds
  <2>1. CASE \E r \in server_session' : r.session = t /\ r.user_id = u
    <3>1. PICK r \in server_session' : r.session = t /\ r.user_id = u
      BY <2>1
    <3>2. CASE r \in server_session
      BY <3>1, <3>2, Known
    <3>3. CASE r = NewRow(handler[c].new, Owner[c])
      <4>1. t = handler[c].new /\ u = Owner[c]
        BY <3>1, <3>3 DEF NewRow
      <4> QED
        BY <4>1, Known DEF Create, At
    <3> QED
      BY <3>2, <3>3 DEF Create
  <2>2. CASE held'[u] = t
    BY <2>2, Known DEF Create
  <2>3. CASE \E d \in Channels :
               /\ Owner[d] = u /\ handler'[d] # None
               /\ t \in {handler'[d].sid, handler'[d].new}
    BY <1>1, <2>3, Known DEF SameIds
  <2> QED
    BY <2>1, <2>2, <2>3, KnownNext
<1>3. NoNewDraw
  BY <1>1 DEF NoNewDraw, SameIds, At
<1> QED
  BY <1>1, <1>2, <1>3, QuietStep DEF Create

LEMMA TickApart == Apart /\ TypeOK' /\ Tick => Apart'
BY DEF Tick, Apart, SessionsApart, GeneratorAhead, TokensOf, At, generator

LEMMA CrashApart ==
    ASSUME Apart, TypeOK', Crash
    PROVE  Apart' /\ \A c \in Channels : handler'[c] = None
<1>1. \A c \in Channels : handler'[c] = None
  BY DEF Crash
<1>2. NoNewIds
  BY <1>1, NothingNew DEF Crash
<1>3. SessionsApart'
  BY <1>2 DEF Apart, SessionsApart, NoNewIds, Crash
<1>4. GeneratorAhead'
  BY <1>1, <1>2 DEF Apart, GeneratorAhead, NoNewIds, Crash, At
<1> QED
  BY <1>1, <1>3, <1>4 DEF Apart

-----------------------------------------------------------------------------
(* Seeding and drawing.                                                     *)

(* A first seeding in this second: no id of this second is known yet.      *)
LEMMA SeedApart ==
    ASSUME Apart, TypeOK', NEW c \in Channels, Seed(c)
    PROVE  Apart' /\ handler'[c].user = handler[c].user /\ handler'[c].sid = handler[c].sid
           /\ handler'[c].vouched = handler[c].vouched
           /\ \A d \in Channels \ {c} : handler'[d] = handler[d]
<1>1. handler[c] \in Handler /\ handler[c] # None
  BY DEF Seed, At, Apart, TypeOK
<1>2. handler'[c] = [handler[c] EXCEPT !.pc = "draw"]
      /\ \A d \in Channels \ {c} : handler'[d] = handler[d]
  BY DEF Seed, Goto, Apart, TypeOK
<1>3. /\ handler'[c].user = handler[c].user /\ handler'[c].vouched = handler[c].vouched
      /\ handler'[c].sid = handler[c].sid /\ handler'[c].new = handler[c].new
  BY <1>1, <1>2 DEF Handler, Locals
<1>4. NoNewIds
  <2>1. \A d \in Channels : handler'[d] # None =>
           \A t \in {handler'[d].sid, handler'[d].new} \ {None} : t \in TokensOf(Owner[d])
    <3>1. \A d \in Channels \ {c} : handler'[d] = handler[d]
      BY <1>2
    <3> QED
      BY <1>1, <1>3, <3>1, KeptIds
  <2> QED
    BY <2>1, NothingNew DEF Seed
<1>5. /\ seeds' = seeds \cup {now} /\ crowded' = crowded \cup (seeds \cap {now})
      /\ rng' = [sec |-> now, offset |-> 0]
  BY DEF Seed
<1>6. SessionsApart'
  BY <1>4, <1>5 DEF Apart, SessionsApart, NoNewIds
<1>7. \A u \in Users : \A t \in TokensOf(u)' \ {None} : t.sec \in seeds
  BY <1>4 DEF Apart, GeneratorAhead, NoNewIds
<1>8. GeneratorAhead'
  <2>1. CASE now \in seeds
    BY <1>5, <1>7, <2>1 DEF GeneratorAhead
  <2>2. CASE now \notin seeds
    BY <1>5, <1>7, <2>2 DEF GeneratorAhead
  <2> QED
    BY <2>1, <2>2
<1> QED
  BY <1>2, <1>3, <1>6, <1>8 DEF Apart

(* The id that is drawn is new to everybody, or its second is crowded.     *)
LEMMA DrawApart ==
    ASSUME Apart, TypeOK', NEW c \in Channels, Draw(c)
    PROVE  Apart' /\ handler'[c].user = handler[c].user /\ handler'[c].sid = handler[c].sid
           /\ handler'[c].vouched = handler[c].vouched
           /\ \A d \in Channels \ {c} : handler'[d] = handler[d]
<1> USE DEF SessionLength, SaltLength
<1>1. handler[c] \in Handler /\ handler[c] # None /\ At(c, "draw")
  BY DEF Draw, At, Apart, TypeOK
<1>2. \A d \in Channels \ {c} : handler'[d] = handler[d]
  BY DEF Draw, Goto, Apart, TypeOK
<1>3. /\ handler'[c].user = handler[c].user /\ handler'[c].sid = handler[c].sid
      /\ handler'[c].vouched = handler[c].vouched /\ handler'[c].new = rng /\ handler'[c].pc # "draw"
  <2> DEFINE h == [handler[c] EXCEPT !.new = rng]
  <2>1. handler'[c] = [h EXCEPT !.pc = "create"]
        \/ handler'[c] = [[h EXCEPT !.text = "done"] EXCEPT !.pc = "reply"]
    BY DEF Draw, Goto, Apart, TypeOK
  <2> QED
    BY <1>1, <2>1 DEF Handler, Locals
<1>4. /\ rng \in Token /\ rng'.sec = rng.sec /\ rng'.offset > rng.offset
      /\ UNCHANGED <<server_session, held, seeds, crowded>>
  BY DEF Draw, Apart, TypeOK, Token
<1>5. rng.sec \in seeds
      /\ (rng.sec \in crowded \/ \A u \in Users : \A t \in TokensOf(u) \ {None} :
             t.sec = rng.sec => t.offset < rng.offset)
  BY <1>1 DEF Apart, GeneratorAhead
<1>6. ASSUME NEW u \in Users, NEW t \in TokensOf(u)', t # None
      PROVE  t \in TokensOf(u) \/ (u = Owner[c] /\ t = rng)
  <2>1. CASE \E r \in server_session' : r.session = t /\ r.user_id = u
    BY <1>4, <2>1, Known
  <2>2. CASE held'[u] = t
    BY <1>4, <2>2, Known
  <2>3. CASE \E d \in Channels :
               /\ Owner[d] = u /\ handler'[d] # None
               /\ t \in {handler'[d].sid, handler'[d].new}
    BY <1>1, <1>2, <1>3, <2>3, Known
  <2> QED
    BY <2>1, <2>2, <2>3, KnownNext
<1>7. rng.sec \in crowded \/ \A u \in Users : rng \notin TokensOf(u)
  <2> SUFFICES ASSUME rng.sec \notin crowded, NEW u \in Users, rng \in TokensOf(u)
               PROVE  FALSE
    OBVIOUS
  <2>1. rng # None
    BY <1>4, ConstantsAssumption
  <2>2. rng.offset < rng.offset
    BY <1>5, <2>1
  <2> QED
    BY <1>4, <2>2 DEF Token
<1>8. SessionsApart'
  <2> SUFFICES ASSUME NEW u \in Users, NEW v \in Users,
                      NEW t \in TokensOf(u)' \cap TokensOf(v)', t # None
               PROVE  u = v \/ t.sec \in crowded
    BY <1>4 DEF SessionsApart
  <2>1. CASE t = rng
    BY <1>6, <1>7, <2>1
  <2>2. CASE t # rng
    BY <1>6, <2>2 DEF Apart, SessionsApart
  <2> QED
    BY <2>1, <2>2
<1>9. GeneratorAhead'
  <2>1. (\A u \in Users : \A t \in TokensOf(u) \ {None} : t.sec \in seeds)'
    BY <1>4, <1>5, <1>6 DEF Apart, GeneratorAhead
  <2>2. ASSUME rng.sec \notin crowded, NEW u \in Users, NEW t \in TokensOf(u)', t # None,
               t.sec = rng.sec
        PROVE  t.offset < rng'.offset
    <3>1. CASE t = rng
      BY <1>4, <3>1
    <3>2. CASE t \in TokensOf(u)
      <4>1. t.offset < rng.offset
        BY <1>5, <2>2, <3>2
      <4>2. t \in Token
        <5>1. CASE \E r \in server_session : r.session = t /\ r.user_id = u
          BY <5>1 DEF Apart, TypeOK, ServerSession
        <5>2. CASE held[u] = t
          BY <2>2, <5>2 DEF Apart, TypeOK
        <5>3. CASE \E d \in Channels :
                     /\ Owner[d] = u /\ handler[d] # None
                     /\ t \in {handler[d].sid, handler[d].new}
          BY <2>2, <5>3 DEF Apart, TypeOK, Handler, Locals
        <5> QED
          BY <3>2, <5>1, <5>2, <5>3, Known
      <4> QED
        BY <1>4, <4>1, <4>2 DEF Apart, TypeOK, Token
    <3> QED
      BY <1>6, <2>2, <3>1, <3>2
  <2> QED
    BY <1>4, <1>5, <2>1, <2>2 DEF GeneratorAhead
<1> QED
  BY <1>2, <1>3, <1>8, <1>9 DEF Apart

-----------------------------------------------------------------------------
(* The invariant.                                                           *)

IInv == Apart /\ MixedUpOnlyIfCrowded

LEMMA InitIInv == Init => IInv
<1> SUFFICES ASSUME Init PROVE IInv
  OBVIOUS
<1>1. \A u \in Users : TokensOf(u) \ {None} = {}
  BY Known DEF Init
<1> QED
  BY <1>1, InitType DEF Init, IInv, Apart, SessionsApart, GeneratorAhead,
     MixedUpOnlyIfCrowded, MixedUp, At

(* Only getUserBySession changes whom a request stands for, and the row it *)
(* finds and the request that names it know the same id.                   *)
LEMMA WhoseIsOwner ==
    ASSUME IInv, NEW c \in Channels, handler[c] # None, NEW r \in Rows(handler[c].sid)
    PROVE  r.user_id = Owner[c] \/ handler[c].sid.sec \in crowded
<1>1. r \in server_session /\ r.session = handler[c].sid
  BY DEF Rows
<1>2. r.session \in Token /\ r.user_id \in Users /\ Owner[c] \in Users /\ r.session # None
  BY <1>1, ConstantsAssumption DEF IInv, Apart, TypeOK, ServerSession
<1>3. handler[c].sid \in TokensOf(r.user_id) /\ handler[c].sid \in TokensOf(Owner[c])
  BY <1>1, Known
<1> QED
  BY <1>1, <1>2, <1>3 DEF IInv, Apart, SessionsApart

LEMMA StepIInv ==
    ASSUME IInv, TypeOK', NEW c \in Channels, Receive(c) \/ Call(c)
    PROVE  IInv'
<1> USE DEF IInv
<1>1. \A d \in Channels : handler[d] # None /\ handler[d].vouched /\ handler[d].user # Owner[d] =>
          handler[d].sid.sec \in crowded
  BY DEF MixedUpOnlyIfCrowded, MixedUp
<1>2. CASE Check(c) \/ Touch(c) \/ Whose(c) \/ Verify(c) \/ End(c) \/ Use(c)
  <2>1. Apart' /\ SameIds(c) /\ UNCHANGED crowded
    BY <1>2, MoveApart, Moves
       DEF Apart, Check, Touch, Whose, Verify, End, Use, generator
  <2>2. handler'[c].vouched /\ handler'[c].user # Owner[c] => handler'[c].sid.sec \in crowded
    BY <1>1, <1>2, <2>1, Moves, WhoseIsOwner DEF Apart, SameIds
  <2> QED
    BY <1>1, <2>1, <2>2 DEF SameIds, MixedUpOnlyIfCrowded, MixedUp
<1>3. CASE Create(c)
  <2>1. /\ Apart' /\ SameIds(c) /\ UNCHANGED crowded
        /\ handler'[c].user = handler[c].user /\ handler'[c].vouched = handler[c].vouched
    BY <1>3, CreateApart DEF Create, generator
  <2> QED
    BY <1>1, <2>1 DEF SameIds, MixedUpOnlyIfCrowded, MixedUp
<1>4. CASE Seed(c) \/ Draw(c)
  <2>1. /\ Apart' /\ handler'[c].user = handler[c].user /\ handler'[c].sid = handler[c].sid
        /\ handler'[c].vouched = handler[c].vouched
        /\ \A d \in Channels \ {c} : handler'[d] = handler[d]
    BY <1>4, SeedApart, DrawApart
  <2>2. crowded \subseteq crowded' /\ handler[c] # None
    BY <1>4 DEF Seed, Draw, At
  <2> QED
    BY <1>1, <2>1, <2>2 DEF MixedUpOnlyIfCrowded, MixedUp
<1>5. CASE Receive(c)
  <2>1. /\ Apart' /\ ~ handler'[c].vouched /\ UNCHANGED crowded
        /\ \A d \in Channels \ {c} : handler'[d] = handler[d]
    BY <1>5, ReceiveApart DEF Receive, generator
  <2> QED
    BY <1>1, <2>1 DEF MixedUpOnlyIfCrowded, MixedUp
<1>6. CASE Reply(c)
  <2>1. /\ Apart' /\ handler'[c] = None /\ UNCHANGED crowded
        /\ \A d \in Channels \ {c} : handler'[d] = handler[d]
    BY <1>6, ReplyApart DEF Reply, generator
  <2> QED
    BY <1>1, <2>1 DEF MixedUpOnlyIfCrowded, MixedUp
<1> QED
  BY <1>2, <1>3, <1>4, <1>5, <1>6 DEF Call

LEMMA NextIInv == IInv /\ [Next]_vars => IInv'
<1> SUFFICES ASSUME IInv, [Next]_vars PROVE IInv'
  OBVIOUS
<1>1. TypeOK'
  BY NextType DEF IInv, Apart
<1>2. ASSUME NEW c \in Channels, Receive(c) \/ Call(c) PROVE IInv'
  BY <1>1, <1>2, StepIInv
<1>3. CASE Tick
  BY <1>1, <1>3, TickApart DEF IInv, MixedUpOnlyIfCrowded, MixedUp, Tick, generator
<1>4. CASE Crash
  BY <1>1, <1>4, CrashApart DEF IInv, MixedUpOnlyIfCrowded, MixedUp
<1>5. CASE UNCHANGED vars
  BY <1>1, <1>5 DEF vars, IInv, Apart, SessionsApart, GeneratorAhead, TokensOf, At,
     MixedUpOnlyIfCrowded, MixedUp
<1> QED
  BY <1>2, <1>3, <1>4, <1>5 DEF Next

(* No id of an uncrowded second is known to two users: not in the table,   *)
(* not in their apps, not in the handlers.                                 *)
THEOREM SessionsKeptApart == Spec => []SessionsApart
<1>1. IInv => SessionsApart
  BY DEF IInv, Apart
<1> QED
  BY <1>1, InitIInv, NextIInv, PTL DEF Spec

(* A request whose session is running is served for its sender, whomever   *)
(* it names, unless the id is one of a second in which the generator was   *)
(* seeded more than once.                                                  *)
THEOREM UsersNotMixedUp == Spec => []MixedUpOnlyIfCrowded
<1>1. IInv => MixedUpOnlyIfCrowded
  BY DEF IInv
<1> QED
  BY <1>1, InitIInv, NextIInv, PTL DEF Spec

(* An id that is about to be drawn is new, or its second is crowded.       *)
THEOREM GeneratorStaysAhead == Spec => []GeneratorAhead
<1>1. IInv => GeneratorAhead
  BY DEF IInv, Apart
<1> QED
  BY <1>1, InitIInv, NextIInv, PTL DEF Spec

-----------------------------------------------------------------------------
(* Logout.                                                                  *)

(* An id that is not stored yet is known to one handler only.              *)
Unshared ==
    \A d \in Channels : At(d, "create") =>
        \/ handler[d].new.sec \in crowded
        \/ /\ handler[d].new \notin closed
           /\ \A u \in Users : held[u] # handler[d].new
           /\ \A c \in Channels : handler[c] # None =>
                 /\ handler[c].sid # handler[d].new
                 /\ c # d => handler[c].new # handler[d].new

(* What is about to be drawn lies beyond the ids that were ended, too.     *)
ClosedBehind ==
    \A t \in closed :
        /\ t.sec \in seeds
        /\ (\E c \in Channels : At(c, "draw")) =>
              rng.sec \in crowded \/ (t.sec = rng.sec => t.offset < rng.offset)

(* An ended session is over, and no handler is going to prolong it.        *)
ClosedOver ==
    \A t \in closed :
        \/ t.sec \in crowded
        \/ /\ \A r \in Rows(t) : r.end_date <= now
           /\ \A d \in Channels : At(d, "touch") => handler[d].sid # t

Ended == Unshared /\ ClosedBehind /\ ClosedOver

LEMMA GotoPlace ==
    ASSUME TypeOK, NEW c \in Channels, NEW h \in Handler, NEW step, Goto(c, h, step)
    PROVE  handler'[c].pc = step
<1>1. handler'[c] = [h EXCEPT !.pc = step]
  BY DEF Goto, TypeOK
<1> QED
  BY <1>1 DEF Handler, Locals

LEMMA AnswerPlace ==
    ASSUME TypeOK, NEW c \in Channels, handler[c] # None, NEW text, Answer(c, text)
    PROVE  handler'[c].pc = "reply"
<1>1. handler[c] \in Handler
  BY DEF TypeOK
<1>2. handler'[c] = [handler[c] EXCEPT !.pc = "reply", !.text = text]
  BY DEF Answer, TypeOK
<1> QED
  BY <1>1, <1>2 DEF Handler, Locals

(* Only a check that found the session running leads to updateSession.     *)
LEMMA MovePlaces ==
    ASSUME TypeOK, NEW c \in Channels,
           \/ Check(c) \/ Touch(c) \/ Whose(c) \/ Verify(c) \/ End(c) \/ Use(c)
           \/ Create(c)
    PROVE  /\ handler'[c].pc # "create"
           /\ handler'[c].pc = "touch" => Good(handler[c].sid) /\ UNCHANGED server_session
<1>1. handler[c] # None /\ handler[c] \in Handler /\ handler[c].kind \in Kinds
  BY DEF Check, Touch, Whose, Verify, End, Use, Create, At, TypeOK, Handler, Locals
<1>2. Dispatch(handler[c].kind) \notin {"create", "touch"}
  BY <1>1 DEF Dispatch, Kinds
<1>3. CASE Goto(c, handler[c], "touch") /\ Good(handler[c].sid) /\ UNCHANGED server_session
  BY <1>1, <1>3, GotoPlace
<1>4. CASE \E step \in {"whose", "seed", Dispatch(handler[c].kind)} : Goto(c, handler[c], step)
  BY <1>1, <1>2, <1>4, GotoPlace
<1>5. CASE \E text \in Texts : Answer(c, text)
  BY <1>1, <1>5, AnswerPlace
<1>6. CASE \E r \in Rows(handler[c].sid) :
             Goto(c, [handler[c] EXCEPT !.user = r.user_id, !.vouched = TRUE], Dispatch(handler[c].kind))
  <2>1. PICK r \in Rows(handler[c].sid) :
             Goto(c, [handler[c] EXCEPT !.user = r.user_id, !.vouched = TRUE], Dispatch(handler[c].kind))
    BY <1>6
  <2>2. r.user_id \in Users
    BY DEF Rows, TypeOK, ServerSession
  <2>3. [handler[c] EXCEPT !.user = r.user_id, !.vouched = TRUE] \in Handler
    BY <1>1, <2>2 DEF Handler, Locals
  <2> QED
    BY <1>2, <2>1, <2>3, GotoPlace
<1>7. \A text \in {"wrong", "refused", "done", "welcome"} : text \in Texts
  BY DEF Texts
<1> QED
  BY <1>3, <1>4, <1>5, <1>6, <1>7 DEF Check, Touch, Whose, Verify, End, Use, Create

LEMMA RowsEnded ==
    ASSUME TypeOK, NEW sid, NEW time, server_session' = WithEndDate(sid, time), NEW t
    PROVE  /\ t # sid => Rows(t)' = Rows(t)
           /\ \A r \in Rows(sid)' : r.end_date = time
<1>1. \A r \in server_session : [r EXCEPT !.end_date = time].session = r.session
  BY DEF TypeOK, ServerSession
<1>2. \A r \in server_session : [r EXCEPT !.end_date = time].end_date = time
  BY DEF TypeOK, ServerSession
<1>3. \A r \in server_session' :
         \/ r \in server_session /\ r.session # sid
         \/ r.session = sid /\ r.end_date = time
  BY <1>1, <1>2 DEF WithEndDate
<1>4. \A r \in server_session : r.session # sid => r \in server_session'
  BY DEF WithEndDate
<1> QED
  BY <1>3, <1>4 DEF Rows

(* A step that draws nothing and ends nothing keeps what is known of ids.  *)
LEMMA MoveEnded ==
    ASSUME IInv, Ended, NEW c \in Channels,
           \/ Check(c) \/ Touch(c) \/ Whose(c) \/ Verify(c) \/ End(c) \/ Use(c)
           \/ Create(c)
    PROVE  Ended'
<1> DEFINE h == handler[c]
<1>0. TypeOK /\ GeneratorAhead
  BY DEF IInv, Apart
<1>1. SameIds(c)
  <2>1. CASE Create(c)
    BY <1>0, <2>1, AnswerIds DEF Create, At
  <2> QED
    BY <1>0, <2>1, Moves
<1>2. UNCHANGED <<held, generator, now>>
  BY DEF Check, Touch, Whose, Verify, End, Use, Create
<1>3. /\ \A d \in Channels : At(d, "create")' => At(d, "create") /\ handler'[d] = handler[d]
      /\ \A d \in Channels : At(d, "draw")' => At(d, "draw")
  BY <1>0, <1>1, MovePlaces DEF SameIds, At
<1>4. closed' = closed \/ (End(c) /\ closed' = closed \cup {h.sid} /\ ~ Racing(h.sid)
                           /\ h.sid \in Token)
  <2>1. CASE End(c)
    <3>1. h.sid \in Token \cup {None}
      BY <1>0, <2>1 DEF End, At, TypeOK, Handler, Locals
    <3>2. CASE h.sid = None
      BY <2>1, <3>2 DEF End
    <3>3. CASE h.sid \in Token
      <4>1. h.sid # None
        BY <3>3, ConstantsAssumption
      <4> QED
        BY <2>1, <3>3, <4>1 DEF End
    <3> QED
      BY <3>1, <3>2, <3>3
  <2> QED
    BY <2>1 DEF Check, Touch, Whose, Verify, Use, Create
<1>5. Unshared'
  <2> SUFFICES ASSUME NEW d \in Channels, At(d, "create")', handler'[d].new.sec \notin crowded'
               PROVE  /\ handler'[d].new \notin closed'
                      /\ \A u \in Users : held'[u] # handler'[d].new
                      /\ \A e \in Channels : handler'[e] # None =>
                            /\ handler'[e].sid # handler'[d].new
                            /\ e # d => handler'[e].new # handler'[d].new
    BY DEF Unshared
  <2>1. /\ handler'[d] = handler[d] /\ handler[d].new \notin closed
        /\ \A u \in Users : held[u] # handler[d].new
        /\ \A e \in Channels : handler[e] # None =>
              /\ handler[e].sid # handler[d].new
              /\ e # d => handler[e].new # handler[d].new
    BY <1>2, <1>3 DEF Ended, Unshared, generator
  <2>2. h # None /\ h.sid # handler[d].new
    BY <1>1, <2>1 DEF SameIds
  <2> QED
    BY <1>1, <1>2, <1>4, <2>1, <2>2 DEF SameIds
<1>6. ClosedBehind'
  <2>1. ASSUME h.sid \in Token
        PROVE  /\ h.sid.sec \in seeds
               /\ (\E d \in Channels : At(d, "draw")) =>
                     rng.sec \in crowded \/ (h.sid.sec = rng.sec => h.sid.offset < rng.offset)
    <3>1. h.sid \in TokensOf(Owner[c]) /\ Owner[c] \in Users /\ h.sid # None
      BY <1>1, <2>1, Known, ConstantsAssumption DEF SameIds
    <3> QED
      BY <1>0, <3>1 DEF GeneratorAhead
  <2> QED
    BY <1>2, <1>3, <1>4, <2>1 DEF Ended, ClosedBehind, generator
<1>7. ClosedOver'
  <2> SUFFICES ASSUME NEW t \in closed', t.sec \notin crowded
               PROVE  /\ \A r \in Rows(t)' : r.end_date <= now
                      /\ \A d \in Channels : At(d, "touch")' => handler'[d].sid # t
    BY <1>2 DEF ClosedOver, generator
  <2>1. CASE t \in closed
    <3>1. /\ \A r \in Rows(t) : r.end_date <= now
          /\ \A d \in Channels : At(d, "touch") => handler[d].sid # t
      BY <2>1 DEF Ended, ClosedOver
    <3>2. h.sid = t => ~ Good(h.sid)
      <4>1. \A r \in Rows(t) : r.end_date \in Nat
        BY <1>0 DEF TypeOK, Rows, ServerSession
      <4> QED
        BY <1>0, <3>1, <4>1 DEF Good, TypeOK
    <3>3. \A d \in Channels : At(d, "touch")' => handler'[d].sid # t
      BY <1>0, <1>1, <3>1, <3>2, MovePlaces DEF SameIds, At
    <3>4. \A r \in Rows(t)' : r.end_date <= now
      <4>1. CASE UNCHANGED server_session
        BY <3>1, <4>1 DEF Rows
      <4>2. CASE Touch(c) /\ server_session' = WithEndDate(h.sid, now + TTL)
        <5>1. h.sid # t
          BY <3>1, <4>2 DEF Touch
        <5> QED
          BY <1>0, <3>1, <4>2, <5>1, RowsEnded
      <4>3. CASE End(c) /\ server_session' = WithEndDate(h.sid, now)
        <5>1. now <= now
          BY <1>0 DEF TypeOK
        <5> QED
          BY <1>0, <3>1, <4>3, <5>1, RowsEnded
      <4>4. CASE Create(c) /\ server_session' = server_session \cup {NewRow(h.new, Owner[c])}
        <5>1. h.new # t
          BY <2>1, <4>4 DEF Create, Ended, Unshared
        <5>2. NewRow(h.new, Owner[c]).session = h.new
          BY DEF NewRow
        <5>3. Rows(t)' = Rows(t)
          BY <4>4, <5>1, <5>2 DEF Rows
        <5> QED
          BY <3>1, <5>3
      <4> QED
        BY <4>1, <4>2, <4>3, <4>4 DEF Check, Touch, Whose, Verify, End, Use, Create
    <3> QED
      BY <3>3, <3>4
  <2>2. CASE t \notin closed
    <3>1. End(c) /\ t = h.sid /\ ~ Racing(t)
      BY <1>4, <2>2
    <3>2. server_session' = WithEndDate(t, now)
      BY <2>2, <3>1 DEF End
    <3>3. \A r \in Rows(t)' : r.end_date = now
      BY <1>0, <3>2, RowsEnded
    <3>4. handler'[c].pc = "reply"
      BY <1>0, <3>1, AnswerPlace DEF End, At
    <3>5. \A d \in Channels : At(d, "touch")' => handler'[d].sid # t
      BY <1>1, <3>1, <3>4 DEF SameIds, Racing, At
    <3> QED
      BY <1>0, <3>3, <3>5 DEF TypeOK
  <2> QED
    BY <2>1, <2>2
<1> QED
  BY <1>5, <1>6, <1>7 DEF Ended

LEMMA ReceiveEnded ==
    ASSUME IInv, Ended, NEW c \in Channels, Receive(c)
    PROVE  Ended'
<1>1. PICK kind \in Kinds, sid \in {held[Owner[c]], None}, user \in Users :
        handler' = [handler EXCEPT ![c] =
              [kind |-> kind, pc |-> "check", sid |-> sid, user |-> user, vouched |-> FALSE,
               new |-> None, text |-> "none"]]
  BY DEF Receive
<1>2. /\ handler'[c].pc = "check" /\ handler'[c].sid = sid /\ handler'[c].new = None
      /\ \A d \in Channels \ {c} : handler'[d] = handler[d]
  BY <1>1 DEF IInv, Apart, TypeOK
<1>3. UNCHANGED <<now, generator, server_session, held, closed>> /\ handler[c] = None
  BY DEF Receive
<1>4. Owner[c] \in Users
  BY ConstantsAssumption
<1>5. \A d \in Channels : At(d, "create") => handler[d].new # None
  BY ConstantsAssumption DEF IInv, Apart, TypeOK, At, Handler
<1>6. Unshared'
  BY <1>2, <1>3, <1>4, <1>5 DEF Ended, Unshared, At, generator
<1>7. ClosedBehind' /\ ClosedOver'
  BY <1>2, <1>3 DEF Ended, ClosedBehind, ClosedOver, Rows, At, generator
<1> QED
  BY <1>6, <1>7 DEF Ended

LEMMA ReplyEnded ==
    ASSUME IInv, Ended, NEW c \in Channels, Reply(c)
    PROVE  Ended'
<1>1. /\ handler'[c] = None /\ \A d \in Channels \ {c} : handler'[d] = handler[d]
      /\ handler[c] # None /\ handler[c].pc = "reply"
  BY DEF Reply, At, IInv, Apart, TypeOK
<1>2. UNCHANGED <<now, generator, server_session, closed>>
  BY DEF Reply
<1>3. \A u \in Users : held'[u] = held[u] \/ held'[u] = handler[c].new
  BY DEF Reply, IInv, Apart, TypeOK
<1>4. Unshared'
  BY <1>1, <1>2, <1>3 DEF Ended, Unshared, At, generator
<1>5. ClosedBehind' /\ ClosedOver'
  BY <1>1, <1>2 DEF Ended, ClosedBehind, ClosedOver, Rows, At, generator
<1> QED
  BY <1>4, <1>5 DEF Ended

LEMMA SeedEnded ==
    ASSUME IInv, TypeOK', Ended, NEW c \in Channels, Seed(c)
    PROVE  Ended'
<1>1. /\ handler'[c].sid = handler[c].sid /\ handler'[c].new = handler[c].new
      /\ handler'[c].pc = "draw" /\ handler[c] # None
      /\ \A d \in Channels \ {c} : handler'[d] = handler[d]
  <2>1. handler[c] \in Handler /\ handler[c] # None
    BY DEF Seed, At, IInv, Apart, TypeOK
  <2>2. handler'[c] = [handler[c] EXCEPT !.pc = "draw"]
        /\ \A d \in Channels \ {c} : handler'[d] = handler[d]
    BY DEF Seed, Goto, IInv, Apart, TypeOK
  <2> QED
    BY <2>1, <2>2 DEF Handler, Locals
<1>2. /\ rng' = [sec |-> now, offset |-> 0] /\ seeds' = seeds \cup {now}
      /\ crowded' = crowded \cup (seeds \cap {now})
      /\ UNCHANGED <<now, server_session, held, closed>>
  BY DEF Seed
<1>3. Unshared'
  BY <1>1, <1>2 DEF Ended, Unshared, At
<1>4. ClosedBehind'
  <2>1. CASE now \in seeds
    BY <1>2, <2>1 DEF Ended, ClosedBehind
  <2>2. CASE now \notin seeds
    BY <1>2, <2>2 DEF Ended, ClosedBehind
  <2> QED
    BY <2>1, <2>2
<1>5. ClosedOver'
  BY <1>1, <1>2 DEF Ended, ClosedOver, Rows, At
<1> QED
  BY <1>3, <1>4, <1>5 DEF Ended

(* The id drawn is nobody's, and was never ended.                          *)
LEMMA DrawEnded ==
    ASSUME IInv, TypeOK', Ended, NEW c \in Channels, Draw(c)
    PROVE  Ended'
<1> USE DEF SessionLength, SaltLength
<1>0. TypeOK /\ GeneratorAhead
  BY DEF IInv, Apart
<1>1. handler[c] \in Handler /\ handler[c] # None /\ At(c, "draw")
  BY <1>0 DEF Draw, At, TypeOK
<1>2. \A d \in Channels \ {c} : handler'[d] = handler[d]
  BY <1>0 DEF Draw, Goto, TypeOK
<1>3. /\ handler'[c].sid = handler[c].sid /\ handler'[c].new = rng
      /\ handler'[c].pc \in {"create", "reply"}
  <2> DEFINE h == [handler[c] EXCEPT !.new = rng]
  <2>1. handler'[c] = [h EXCEPT !.pc = "create"]
        \/ handler'[c] = [[h EXCEPT !.text = "done"] EXCEPT !.pc = "reply"]
    BY <1>0 DEF Draw, Goto, TypeOK
  <2> QED
    BY <1>1, <2>1 DEF Handler, Locals
<1>4. /\ rng \in Token /\ rng # None /\ rng'.sec = rng.sec /\ rng'.offset > rng.offset
      /\ rng.offset \in Nat /\ rng'.offset \in Nat
      /\ UNCHANGED <<now, server_session, held, seeds, crowded, closed>>
  BY <1>0, ConstantsAssumption DEF Draw, TypeOK, Token
<1>5. rng.sec \in crowded \/ \A u \in Users : rng \notin TokensOf(u)
  <2> SUFFICES ASSUME rng.sec \notin crowded, NEW u \in Users, rng \in TokensOf(u)
               PROVE  FALSE
    OBVIOUS
  <2>1. rng.offset < rng.offset
    BY <1>0, <1>1, <1>4 DEF GeneratorAhead
  <2> QED
    BY <1>4, <2>1
<1>6. \A t \in closed : rng.sec \in crowded \/ (t.sec = rng.sec => t.offset < rng.offset)
  BY <1>1 DEF Ended, ClosedBehind
<1>7. rng.sec \in crowded \/ rng \notin closed
  BY <1>4, <1>6
<1>8. ASSUME rng.sec \notin crowded
      PROVE  /\ \A u \in Users : held[u] # rng
             /\ \A d \in Channels : handler[d] # None =>
                   handler[d].sid # rng /\ handler[d].new # rng
  <2>1. \A d \in Channels : Owner[d] \in Users
    BY ConstantsAssumption
  <2> QED
    BY <1>5, <1>8, <2>1, Known
<1>9. Unshared'
  <2> SUFFICES ASSUME NEW d \in Channels, At(d, "create")', handler'[d].new.sec \notin crowded
               PROVE  /\ handler'[d].new \notin closed
                      /\ \A u \in Users : held[u] # handler'[d].new
                      /\ \A e \in Channels : handler'[e] # None =>
                            /\ handler'[e].sid # handler'[d].new
                            /\ e # d => handler'[e].new # handler'[d].new
    BY <1>4 DEF Unshared
  <2>1. CASE d = c
    BY <1>1, <1>2, <1>3, <1>7, <1>8, <2>1
  <2>2. CASE d # c
    <3>1. At(d, "create") /\ handler'[d] = handler[d] /\ handler[d] # None
      BY <1>2, <2>2 DEF At
    <3>2. /\ handler[d].new \notin closed
          /\ \A u \in Users : held[u] # handler[d].new
          /\ \A e \in Channels : handler[e] # None =>
                /\ handler[e].sid # handler[d].new
                /\ e # d => handler[e].new # handler[d].new
      BY <3>1 DEF Ended, Unshared
    <3>3. rng # handler[d].new
      BY <1>8, <3>1
    <3> QED
      BY <1>1, <1>2, <1>3, <3>1, <3>2, <3>3
  <2> QED
    BY <2>1, <2>2
<1>10. ClosedBehind'
  <2>1. \A t \in closed : t.offset \in Nat
    BY <1>0 DEF TypeOK, Token
  <2> QED
    BY <1>4, <1>6, <2>1 DEF Ended, ClosedBehind
<1>11. ClosedOver'
  BY <1>2, <1>3, <1>4 DEF Ended, ClosedOver, Rows, At
<1> QED
  BY <1>9, <1>10, <1>11 DEF Ended

LEMMA NextEnded == IInv /\ Ended /\ [Next]_vars => Ended'
<1> SUFFICES ASSUME IInv, Ended, [Next]_vars PROVE Ended'
  OBVIOUS
<1>0. TypeOK /\ TypeOK'
  BY NextType DEF IInv, Apart
<1>1. ASSUME NEW c \in Channels, Receive(c) \/ Call(c) PROVE Ended'
  BY <1>0, <1>1, MoveEnded, ReceiveEnded, ReplyEnded, SeedEnded, DrawEnded DEF Call
<1>2. CASE Tick
  <2>1. \A r \in server_session : r.end_date \in Nat
    BY <1>0 DEF TypeOK, ServerSession
  <2>2. ClosedOver'
    BY <1>0, <1>2, <2>1 DEF Tick, Ended, ClosedOver, Rows, At, TypeOK, generator
  <2> QED
    BY <1>2, <2>2 DEF Tick, Ended, Unshared, ClosedBehind, At, generator
<1>3. CASE Crash
  <2>1. \A d \in Channels : handler'[d] = None
    BY <1>3 DEF Crash
  <2> QED
    BY <1>3, <2>1 DEF Crash, Ended, Unshared, ClosedBehind, ClosedOver, Rows, At
<1>4. CASE UNCHANGED vars
  BY <1>4 DEF vars, Ended, Unshared, ClosedBehind, ClosedOver, Rows, At
<1> QED
  BY <1>1, <1>2, <1>3, <1>4 DEF Next

(* A session that a logout ended, while no request was about to prolong    *)
(* it, never runs again, unless its id is one of a crowded second.         *)
THEOREM LogoutsAreFinal == Spec => []LogoutIsFinal
<1>1. Init => Ended
  BY DEF Init, Ended, Unshared, ClosedBehind, ClosedOver, At
<1>2. IInv /\ Ended => LogoutIsFinal
  <2> SUFFICES ASSUME IInv, Ended, NEW t \in closed, t.sec \notin crowded
               PROVE  ~ Good(t)
    BY DEF LogoutIsFinal
  <2>1. \A r \in Rows(t) : r.end_date \in Nat /\ now \in Nat /\ r.end_date <= now
    BY DEF IInv, Apart, TypeOK, Rows, ServerSession, Ended, ClosedOver
  <2> QED
    BY <2>1 DEF Good
<1> QED
  BY <1>1, <1>2, InitIInv, NextIInv, NextEnded, PTL DEF Spec

-----------------------------------------------------------------------------
(* Who is told "Welcome!" has a session.                                    *)

Told(c) == handler[c] # None /\ handler[c].text = "welcome"

HasRow(t, u) == \E r \in Rows(t) : r.user_id = u

Welcomed ==
    \A c \in Channels : Told(c) =>
        /\ handler[c].pc = "reply"
        /\ HasRow(handler[c].new, Owner[c]) \/ faults # 0 \/ handler[c].new.sec \in crowded

(* Rows, faults and crowded seconds stay.                                   *)
Stays ==
    /\ \A t, u : HasRow(t, u) => HasRow(t, u)'
    /\ faults # 0 => faults' # 0
    /\ crowded \subseteq crowded'

LEMMA FaultsStay ==
    ASSUME TypeOK, NoFault \/ Fault
    PROVE  faults # 0 => faults' # 0
BY DEF TypeOK, NoFault, Fault

LEMMA RowsStay ==
    ASSUME TypeOK,
           \/ server_session' = server_session
           \/ \E sid, time : server_session' = WithEndDate(sid, time)
           \/ \E r : server_session' = server_session \cup {r}
    PROVE  \A t, u : HasRow(t, u) => HasRow(t, u)'
<1> SUFFICES ASSUME NEW t, NEW u, NEW q \in server_session, q.session = t, q.user_id = u
             PROVE  \E r \in server_session' : r.session = t /\ r.user_id = u
  BY DEF HasRow, Rows
<1>1. CASE \E sid, time : server_session' = WithEndDate(sid, time)
  <2>1. PICK sid, time : server_session' = WithEndDate(sid, time)
    BY <1>1
  <2> DEFINE r == IF q.session = sid THEN [q EXCEPT !.end_date = time] ELSE q
  <2>2. r \in server_session'
    BY <2>1 DEF WithEndDate
  <2>3. r.session = q.session /\ r.user_id = q.user_id
    BY DEF TypeOK, ServerSession
  <2> QED
    BY <2>2, <2>3
<1>2. CASE server_session \subseteq server_session'
  BY <1>2
<1> QED
  BY <1>1, <1>2

LEMMA WelcomedStep ==
    ASSUME Welcomed, Stays, NEW c \in Channels,
           \A d \in Channels \ {c} : handler'[d] = handler[d],
           Told(c)' => /\ handler'[c].pc = "reply"
                       /\ \/ HasRow(handler[c].new, Owner[c])' \/ faults' # 0
                          \/ handler'[c].new.sec \in crowded'
    PROVE  Welcomed'
<1> SUFFICES ASSUME NEW d \in Channels \ {c}, Told(d)'
             PROVE  /\ handler'[d].pc = "reply"
                    /\ \/ HasRow(handler[d].new, Owner[d])' \/ faults' # 0
                       \/ handler'[d].new.sec \in crowded'
  BY DEF Welcomed
<1>1. Told(d) /\ handler'[d] = handler[d]
  BY DEF Told
<1> QED
  BY <1>1 DEF Welcomed, Stays

(* No other call says "Welcome!".                                           *)
LEMMA NotTold ==
    ASSUME TypeOK, Welcomed, NEW c \in Channels,
           \/ Check(c) \/ Touch(c) \/ Whose(c) \/ Verify(c) \/ Seed(c) \/ Draw(c)
           \/ End(c) \/ Use(c)
    PROVE  ~ Told(c)' /\ \A d \in Channels \ {c} : handler'[d] = handler[d]
<1>1. handler[c] # None /\ handler[c] \in Handler /\ handler[c].text # "welcome"
  BY DEF Welcomed, Told, TypeOK, Check, Touch, Whose, Verify, Seed, Draw, End, Use, At
<1>2. ASSUME NEW text \in {"wrong", "refused", "done"}, Answer(c, text)
      PROVE  ~ Told(c)' /\ \A d \in Channels \ {c} : handler'[d] = handler[d]
  BY <1>1, <1>2 DEF Answer, Told, TypeOK, Handler, Locals
<1>3. ASSUME NEW h \in Locals, h.text # "welcome", NEW step, Goto(c, h, step)
      PROVE  ~ Told(c)' /\ \A d \in Channels \ {c} : handler'[d] = handler[d]
  <2>1. handler'[c] = [h EXCEPT !.pc = step] /\ \A d \in Channels \ {c} : handler'[d] = handler[d]
    BY <1>3 DEF Goto, TypeOK
  <2> QED
    BY <1>3, <2>1 DEF Told, Locals
<1>4. handler[c] \in Locals
  BY <1>1 DEF Handler
<1>5. CASE Whose(c)
  <2>1. \A r \in Rows(handler[c].sid) :
           /\ [handler[c] EXCEPT !.user = r.user_id, !.vouched = TRUE] \in Locals
           /\ [handler[c] EXCEPT !.user = r.user_id, !.vouched = TRUE].text # "welcome"
    BY <1>1, <1>4 DEF Locals, Rows, TypeOK, ServerSession
  <2> QED
    BY <1>2, <1>3, <1>5, <2>1 DEF Whose
<1>6. CASE Draw(c)
  <2> DEFINE h == [handler[c] EXCEPT !.new = rng]
  <2>1. h \in Locals /\ h.text # "welcome"
    BY <1>1, <1>4 DEF Locals, TypeOK
  <2>2. [h EXCEPT !.text = "done"] \in Locals /\ [h EXCEPT !.text = "done"].text # "welcome"
    BY <2>1 DEF Locals, Texts
  <2> QED
    BY <1>3, <1>6, <2>1, <2>2 DEF Draw
<1>7. CASE Check(c)
  BY <1>1, <1>2, <1>3, <1>4, <1>7 DEF Check
<1>8. CASE Touch(c) \/ Verify(c) \/ Seed(c)
  BY <1>1, <1>2, <1>3, <1>4, <1>8 DEF Touch, Verify, Seed
<1>9. CASE End(c) \/ Use(c)
  BY <1>2, <1>9 DEF End, Use
<1> QED
  BY <1>5, <1>6, <1>7, <1>8, <1>9

(* The insert fails on an id that is stored: for the same user, or for one  *)
(* from whom SessionsApart keeps him apart.                                 *)
LEMMA CreateWelcomed ==
    ASSUME Apart, Welcomed, Stays, NEW c \in Channels, Create(c)
    PROVE  Welcomed'
<1>1. PICK t : t = handler[c].new
  OBVIOUS
<1>2. /\ TypeOK /\ handler[c] # None /\ handler[c] \in Handler /\ t # None /\ Owner[c] \in Users
      /\ t \in Token
  BY <1>1, ConstantsAssumption DEF Apart, TypeOK, Create, At, Handler, Locals
<1>3. /\ handler'[c].pc = "reply" /\ handler'[c].new = t
      /\ \A d \in Channels \ {c} : handler'[d] = handler[d]
  BY <1>1, <1>2, AnswerPlace, AnswerIds DEF Create, SameIds
<1>4. HasRow(t, Owner[c])' \/ faults' # 0 \/ t.sec \in crowded'
  <2>1. CASE server_session' = server_session \cup {NewRow(t, Owner[c])}
    <3>1. PICK r : r = NewRow(t, Owner[c])
      OBVIOUS
    <3>2. r \in server_session' /\ r.session = t /\ r.user_id = Owner[c]
      BY <2>1, <3>1 DEF NewRow
    <3> QED
      BY <3>2 DEF HasRow, Rows
  <2>2. CASE Fault
    <3>1. faults \in Nat /\ faults' = faults + 1
      BY <1>2, <2>2 DEF Fault, TypeOK
    <3> QED
      BY <3>1
  <2>3. CASE Rows(t) # {}
    <3>1. PICK r \in server_session : r.session = t
      BY <2>3 DEF Rows
    <3>2. r.user_id \in Users /\ t \in TokensOf(r.user_id) /\ t \in TokensOf(Owner[c])
      BY <1>1, <1>2, <3>1, Known DEF TypeOK, ServerSession
    <3>3. r.user_id = Owner[c] \/ t.sec \in crowded
      BY <1>2, <3>2 DEF Apart, SessionsApart
    <3>4. HasRow(t, Owner[c]) \/ t.sec \in crowded
      BY <3>1, <3>3 DEF HasRow, Rows
    <3>5. HasRow(t, Owner[c]) => HasRow(t, Owner[c])'
      BY DEF Stays
    <3> QED
      BY <3>4, <3>5 DEF Stays
  <2> QED
    BY <1>1, <2>1, <2>2, <2>3 DEF Create
<1>5. HasRow(handler[c].new, Owner[c])' <=> HasRow(t, Owner[c])'
  BY <1>3 DEF HasRow, Rows
<1> QED
  BY <1>3, <1>4, <1>5, WelcomedStep

LEMMA StaysAlways ==
    ASSUME TypeOK, [Next]_vars
    PROVE  Stays
<1>1. faults # 0 => faults' # 0
  <2>1. CASE NoFault \/ Fault
    BY <2>1, FaultsStay
  <2> QED
    BY <2>1 DEF Next, Receive, Call, Check, Touch, Whose, Verify, Seed, Draw, Create, End, Use,
       Reply, Tick, Crash, bounds, vars, NoFault
<1>2. crowded \subseteq crowded'
  BY DEF Next, Receive, Call, Check, Touch, Whose, Verify, Seed, Draw, Create, End, Use, Reply,
     Tick, Crash, generator, vars
<1>3. \A t, u : HasRow(t, u) => HasRow(t, u)'
  <2>1. \/ server_session' = server_session
        \/ \E sid, time : server_session' = WithEndDate(sid, time)
        \/ \E r : server_session' = server_session \cup {r}
    BY DEF Next, Receive, Call, Check, Touch, Whose, Verify, Seed, Draw, Create, End, Use, Reply,
       Tick, Crash, vars
  <2> QED
    BY <2>1, RowsStay
<1> QED
  BY <1>1, <1>2, <1>3 DEF Stays

LEMMA NextWelcomed == Apart /\ Welcomed /\ [Next]_vars => Welcomed'
<1> SUFFICES ASSUME Apart, Welcomed, [Next]_vars PROVE Welcomed'
  OBVIOUS
<1>1. TypeOK /\ Stays
  BY StaysAlways DEF Apart
<1>2. CASE UNCHANGED vars
  BY <1>2 DEF Welcomed, Told, HasRow, Rows, vars
<1>3. CASE Tick
  BY <1>3 DEF Tick, Welcomed, Told, HasRow, Rows, bounds, generator
<1>4. CASE Crash
  BY <1>4 DEF Crash, Welcomed, Told
<1>5. ASSUME NEW c \in Channels, Receive(c) PROVE Welcomed'
  <2>1. ~ Told(c)' /\ \A d \in Channels \ {c} : handler'[d] = handler[d]
    BY <1>1, <1>5 DEF Receive, TypeOK, Told
  <2> QED
    BY <1>1, <2>1, WelcomedStep
<1>6. ASSUME NEW c \in Channels, Reply(c) PROVE Welcomed'
  <2>1. ~ Told(c)' /\ \A d \in Channels \ {c} : handler'[d] = handler[d]
    BY <1>1, <1>6 DEF Reply, TypeOK, Told
  <2> QED
    BY <1>1, <2>1, WelcomedStep
<1>7. ASSUME NEW c \in Channels, Call(c) PROVE Welcomed'
  <2>1. CASE Create(c)
    BY <1>1, <2>1, CreateWelcomed
  <2>2. CASE ~ Create(c) /\ ~ Reply(c)
    BY <1>1, <1>7, <2>2, NotTold, WelcomedStep DEF Call
  <2> QED
    BY <1>6, <2>1, <2>2
<1> QED
  BY <1>2, <1>3, <1>4, <1>5, <1>7 DEF Next

(* authUser says "Welcome!" whatever createSession returned; but as long as *)
(* no call failed, and unless the second of the id was crowded, the session *)
(* is there and is the sender's.                                            *)
THEOREM UndisturbedWelcomeIsTrue == Spec => []WelcomeUnlessDisturbed
<1>1. Init => Welcomed
  BY DEF Init, Welcomed, Told
<1>2. TypeOK /\ Welcomed => WelcomeUnlessDisturbed
  <2>1. TypeOK /\ faults # 0 => faults > 0
    BY DEF TypeOK
  <2> QED
    BY <2>1 DEF Welcomed, WelcomeUnlessDisturbed, Told, HasRow, At
<1>3. TypeOK /\ SessionsApart /\ GeneratorAhead /\ Welcomed /\ [Next]_vars => Welcomed'
  BY NextWelcomed DEF Apart
<1> QED
  BY <1>1, <1>2, <1>3, TypeCorrect, SessionsKeptApart, GeneratorStaysAhead, PTL DEF Spec
=============================================================================

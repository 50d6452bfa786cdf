--------------------------- MODULE TransportProofs ---------------------------
(* Proofs about Transport, for every value of its constants.                *)
EXTENDS Transport, SequenceTheorems, TLAPS

-----------------------------------------------------------------------------
(* Type correctness.                                                        *)

LEMMA RemoveAtType ==
    ASSUME NEW S, NEW s \in Seq(S), NEW i \in DOMAIN s
    PROVE  RemoveAt(s, i) \in Seq(S)
<1>1. i \in 1 .. Len(s) /\ Len(s) \in Nat
  BY LenProperties
<1>2. SubSeq(s, 1, i - 1) \in Seq(S)
  BY <1>1, SubSeqProperties, ElementOfSeq
<1>3. SubSeq(s, i + 1, Len(s)) \in Seq(S)
  BY <1>1, SubSeqProperties, ElementOfSeq
<1> QED
  BY <1>2, <1>3, ConcatProperties DEF RemoveAt

LEMMA GoType ==
    ASSUME TypeOK, NEW t \in Threads, NEW place \in Places, NEW c \in Channels \cup {None},
           NEW n \in Nat, Go(t, place, c, n)
    PROVE  thread' \in [Threads -> [at : Places, on : Channels \cup {None}, no : Nat]]
BY DEF TypeOK, Go

LEMMA IdleType ==
    ASSUME TypeOK, NEW t \in Threads, thread' = [thread EXCEPT ![t] = Idle]
    PROVE  thread' \in [Threads -> [at : Places, on : Channels \cup {None}, no : Nat]]
<1>1. Idle \in [at : Places, on : Channels \cup {None}, no : Nat]
  BY DEF Idle, Places
<1> QED
  BY <1>1 DEF TypeOK

LEMMA InitType == Init => TypeOK
<1> SUFFICES ASSUME Init PROVE TypeOK
  OBVIOUS
<1>1. Idle \in [at : Places, on : Channels \cup {None}, no : Nat]
  BY DEF Idle, Places
<1> QED
  BY <1>1 DEF Init, TypeOK, Stages

LEMMA AppType ==
    ASSUME TypeOK, NEW c \in Channels, App(c)
    PROVE  TypeOK'
<1>1. CASE Connect(c)
  BY <1>1 DEF Connect, TypeOK, server, Stages
<1>2. CASE SendRequest(c)
  <2>1. asked[c] + 1 \in Nat
    BY DEF TypeOK
  <2>2. [no |-> asked[c] + 1, size |-> 1] \in Frame
    BY <2>1 DEF Frame
  <2>3. inbox' \in [Channels -> Seq(Frame)]
    BY <1>2, <2>2, AppendProperties DEF SendRequest, TypeOK
  <2> QED
    BY <1>2, <2>1, <2>3 DEF SendRequest, TypeOK, server
<1>3. CASE SendEmpty(c)
  <2>1. [no |-> 0, size |-> 0] \in Frame
    BY DEF Frame
  <2>2. inbox' \in [Channels -> Seq(Frame)]
    BY <1>3, <2>1, AppendProperties DEF SendEmpty, TypeOK
  <2> QED
    BY <1>3, <2>2 DEF SendEmpty, TypeOK, server
<1>4. CASE Leave(c)
  BY <1>4 DEF Leave, TypeOK, server
<1> QED
  BY <1>1, <1>2, <1>3, <1>4 DEF App

LEMMA ThreadOn ==
    ASSUME TypeOK, NEW t \in Threads
    PROVE  thread[t] \in [at : Places, on : Channels \cup {None}, no : Nat]
BY DEF TypeOK

LEMMA AcceptType ==
    ASSUME TypeOK, NEW t \in Threads, NEW c \in Channels, Accept(t, c)
    PROVE  TypeOK'
<1>1. Go(t, "endpoint", c, 0) /\ "endpoint" \in Places
  BY DEF Accept, Places
<1> QED
  BY <1>1, GoType DEF Accept, TypeOK, Stages

LEMMA AcceptErrorType ==
    ASSUME TypeOK, NEW t \in Threads, AcceptError(t)
    PROVE  TypeOK'
<1>1. Go(t, "accept", None, 0) /\ "accept" \in Places
  BY DEF AcceptError, Places
<1> QED
  BY <1>1, GoType DEF AcceptError, TypeOK

(* A thread at one of these places works on a channel.                      *)
Busy == {"endpoint", "install", "serve", "ended"}
OnChannel == \A t \in Threads : thread[t].at \in Busy => thread[t].on \in Channels

LEMMA EndpointType ==
    ASSUME TypeOK, OnChannel, NEW t \in Threads, Endpoint(t)
    PROVE  TypeOK'
<1> DEFINE c == thread[t].on
<1>1. c \in Channels
  BY DEF OnChannel, Endpoint, At, Busy
<1>2. "ended" \in Places /\ "install" \in Places
  BY DEF Places
<1>3. Go(t, "ended", c, 0) \/ Go(t, "install", c, 0)
  BY DEF Endpoint, Throw
<1>4. thread' \in [Threads -> [at : Places, on : Channels \cup {None}, no : Nat]]
  BY <1>1, <1>2, <1>3, GoType
<1> QED
  BY <1>1, <1>4 DEF Endpoint, TypeOK

LEMMA InstallType ==
    ASSUME TypeOK, OnChannel, NEW t \in Threads, Install(t)
    PROVE  TypeOK'
<1>1. thread[t].on \in Channels
  BY DEF OnChannel, Install, At, Busy
<1>2. thread' \in [Threads -> [at : Places, on : Channels \cup {None}, no : Nat]]
  BY <1>1, GoType DEF Install, Places
<1> QED
  BY <1>1, <1>2 DEF Install, TypeOK

LEMMA AcceptAgainType ==
    ASSUME TypeOK, NEW t \in Threads, AcceptAgain(t)
    PROVE  TypeOK'
BY IdleType DEF AcceptAgain, TypeOK

LEMMA HandshakeType ==
    ASSUME TypeOK, NEW c \in Channels, Handshake(c)
    PROVE  TypeOK'
BY DEF Handshake, TypeOK, server, Stages

LEMMA HeadTail ==
    ASSUME TypeOK, NEW c \in Channels, inbox[c] # <<>>
    PROVE  /\ Head(inbox[c]) \in Frame
           /\ [inbox EXCEPT ![c] = Tail(@)] \in [Channels -> Seq(Frame)]
<1>1. inbox[c] \in Seq(Frame)
  BY DEF TypeOK
<1>2. Head(inbox[c]) \in Frame /\ Tail(inbox[c]) \in Seq(Frame)
  BY <1>1, HeadTailProperties
<1> QED
  BY <1>2 DEF TypeOK

LEMMA ReadSizeType ==
    ASSUME TypeOK, NEW c \in Channels, ReadSize(c)
    PROVE  TypeOK'
<1>1. inbox' \in [Channels -> Seq(Frame)] /\ Head(inbox[c]).size \in {0, 1}
  BY HeadTail DEF ReadSize, Arrived, TypeOK, Frame
<1> QED
  BY <1>1 DEF ReadSize, TypeOK, server

LEMMA ReadType ==
    ASSUME TypeOK, NEW t \in Threads, NEW c \in Channels, Read(t, c)
    PROVE  TypeOK'
<1>1. inbox' \in [Channels -> Seq(Frame)] /\ Head(inbox[c]).no \in Nat
  BY HeadTail DEF Read, Arrived, Frame
<1>2. thread' \in [Threads -> [at : Places, on : Channels \cup {None}, no : Nat]]
  BY <1>1, GoType DEF Read, Places
<1> QED
  BY <1>1, <1>2 DEF Read, TypeOK, server

LEMMA DropType ==
    ASSUME TypeOK, NEW c \in Channels, Drop(c)
    PROVE  TypeOK'
<1>1. inbox' \in [Channels -> Seq(Frame)]
  BY HeadTail DEF Drop, Arrived
<1> QED
  BY <1>1 DEF Drop, TypeOK, server

LEMMA RespondType ==
    ASSUME TypeOK, OnChannel, NEW t \in Threads, Respond(t)
    PROVE  TypeOK'
<1> DEFINE c == thread[t].on
<1>1. c \in Channels /\ thread[t].no \in Nat
  BY ThreadOn DEF OnChannel, Respond, At, Busy
<1>2. PICK s \in Sizes :
        writes' = [writes EXCEPT ![c] = Append(@, [no |-> thread[t].no, size |-> s, part |-> 1])]
  BY DEF Respond
<1>3. [no |-> thread[t].no, size |-> s, part |-> 1] \in InFlight
  BY <1>1, ConstantsAssumption DEF InFlight
<1>4. Append(writes[c], [no |-> thread[t].no, size |-> s, part |-> 1]) \in Seq(InFlight)
  BY <1>1, <1>3, AppendProperties DEF TypeOK
<1>5. writes' \in [Channels -> Seq(InFlight)]
  BY <1>1, <1>2, <1>4 DEF TypeOK
<1>6. op' \in [Channels -> {"none", "handshake", "read"}]
      /\ nextMsgSize_' \in [Channels -> {0, 1}]
  BY <1>1 DEF Respond, TypeOK
<1>7. thread' \in [Threads -> [at : Places, on : Channels \cup {None}, no : Nat]]
  BY IdleType DEF Respond
<1> QED
  BY <1>5, <1>6, <1>7 DEF Respond, TypeOK, server

LEMMA ReadErrorType ==
    ASSUME TypeOK, NEW t \in Threads, NEW c \in Channels, ReadError(t, c)
    PROVE  TypeOK'
<1>1. thread' \in [Threads -> [at : Places, on : Channels \cup {None}, no : Nat]]
  BY GoType DEF ReadError, Throw, Places, TypeOK
<1> QED
  BY <1>1 DEF ReadError, TypeOK, server

LEMMA WriteUnitType ==
    ASSUME TypeOK, NEW c \in Channels, NEW i \in DOMAIN writes[c], WriteUnit(c, i)
    PROVE  TypeOK'
<1> DEFINE w == writes[c][i]
<1> DEFINE next == [w EXCEPT !.part = @ + 1]
<1> DEFINE unit == [no |-> w.no, size |-> w.size, part |-> w.part, head |-> MakeBuffer(w.size)]
<1>1. writes[c] \in Seq(InFlight) /\ wire[c] \in Seq(Unit)
  BY DEF TypeOK
<1>2. i \in 1 .. Len(writes[c])
  BY <1>1, LenProperties
<1>3. w \in InFlight
  BY <1>1, <1>2, ElementOfSeq
<1>4. RemoveAt(writes[c], i) \in Seq(InFlight)
  BY <1>1, RemoveAtType
<1>5. next \in InFlight
  BY <1>3 DEF InFlight
<1>6. [writes[c] EXCEPT ![i] = next] \in Seq(InFlight)
  BY <1>1, <1>2, <1>5, ExceptSeq
<1>7. unit \in Unit
  BY <1>3, ConstantsAssumption DEF InFlight, Unit, MakeBuffer
<1>8. Append(wire[c], unit) \in Seq(Unit)
  BY <1>1, <1>7, AppendProperties
<1>9. CASE c \in gone
  BY <1>4, <1>9 DEF WriteUnit, TypeOK, server
<1>10. CASE c \notin gone
  <2>1. next = [w EXCEPT !.part = w.part + 1]
    OBVIOUS
  <2>2. writes' \in [Channels -> Seq(InFlight)]
    BY <1>4, <1>6, <1>10, <2>1 DEF WriteUnit, TypeOK
  <2>3. wire' \in [Channels -> Seq(Unit)]
    BY <1>8, <1>10 DEF WriteUnit, TypeOK
  <2> QED
    BY <2>2, <2>3 DEF WriteUnit, TypeOK, server
<1> QED
  BY <1>9, <1>10

LEMMA ReturnType ==
    ASSUME TypeOK, NEW t \in Threads, Return(t)
    PROVE  TypeOK'
<1>1. thread' \in [Threads -> [at : Places, on : Channels \cup {None}, no : Nat]]
  BY GoType DEF Return, Places
<1> QED
  BY <1>1 DEF Return, TypeOK, server

-----------------------------------------------------------------------------
(* Who works on a channel.                                                  *)

(* A channel that is kept, that a thread works on, or whose operation is    *)
(* pending has been accepted, in this order.                                *)
Kept ==
    /\ handlers \subseteq sessions_
    /\ \A c \in Channels : op[c] # "none" => c \in sessions_
    /\ \A c \in Channels : stage[c] \in {"new", "backlog"} =>
          c \notin sessions_ /\ \A t \in Threads : thread[t].on # c
    /\ \A t \in Threads :
          /\ At(t, "endpoint") => thread[t].on \notin sessions_
          /\ At(t, "install") => thread[t].on \in sessions_
          /\ At(t, "serve") => thread[t].on \in handlers

(* A thread that asks for the endpoint, serves or has ended is alone on its *)
(* channel, and nothing is pending there.                                   *)
Alone ==
    /\ \A t \in Threads : thread[t].at \in {"endpoint", "serve", "ended"} =>
          op[thread[t].on] = "none"
    /\ \A t, u \in Threads :
          /\ thread[t].at \in {"endpoint", "serve", "ended"}
          /\ thread[u].at \in {"endpoint", "serve", "ended"}
          /\ thread[t].on = thread[u].on
          => t = u

Ended == \A t \in Threads : At(t, "ended") => thread[t].on \in gone

IInv == TypeOK /\ OnChannel /\ Kept /\ Alone /\ Ended /\ OneAccept

LEMMA InitIInv == Init => IInv
<1> SUFFICES ASSUME Init PROVE IInv
  OBVIOUS
<1>1. \A t \in Threads : thread[t].at = "idle" /\ thread[t].on = None
  BY DEF Init, Idle
<1>2. \A c \in Channels : c # None
  BY ConstantsAssumption
<1>3. Acceptors = {} /\ accepting
  BY <1>1 DEF Init, Acceptors, InAccept, Thrown, At
<1>4. OnChannel /\ Ended /\ OneAccept
  BY <1>1, <1>3 DEF OnChannel, Busy, Ended, OneAccept, At
<1>5. Kept
  BY <1>1, <1>2 DEF Kept, At, Init
<1>6. Alone
  BY <1>1 DEF Alone
<1> QED
  BY <1>4, <1>5, <1>6, InitType DEF IInv

LEMMA TypeStep == TypeOK /\ OnChannel /\ [Next]_vars => TypeOK'
<1> SUFFICES ASSUME TypeOK, OnChannel, [Next]_vars PROVE TypeOK'
  OBVIOUS
<1>1. CASE UNCHANGED vars
  BY <1>1 DEF TypeOK, vars
<1>2. ASSUME NEW c \in Channels, App(c) \/ Handshake(c) \/ ReadSize(c) \/ Drop(c) \/ Write(c)
      PROVE  TypeOK'
  BY <1>2, AppType, HandshakeType, ReadSizeType, DropType, WriteUnitType DEF Write
<1>3. ASSUME NEW t \in Threads, Run(t)
      PROVE  TypeOK'
  BY <1>3, AcceptErrorType, EndpointType, InstallType, AcceptAgainType, RespondType, ReturnType
     DEF Run
<1>4. ASSUME NEW t \in Threads, NEW c \in Channels, Accept(t, c) \/ Read(t, c) \/ ReadError(t, c)
      PROVE  TypeOK'
  BY <1>4, AcceptType, ReadType, ReadErrorType
<1> QED
  BY <1>1, <1>2, <1>3, <1>4 DEF Next

(* A step in which no thread moves and no operation begins or ends, except  *)
(* that a channel's chain of operations may go on or break off.             *)
LEMMA QuietStep ==
    ASSUME IInv,
           UNCHANGED <<thread, accepting, sessions_, handlers>>, gone \subseteq gone',
           \A c \in Channels : op'[c] = op[c] \/ op[c] # "none",
           \A c \in Channels : stage'[c] \in {"new", "backlog"} => stage[c] \in {"new", "backlog"}
    PROVE  OnChannel' /\ Kept' /\ Alone' /\ Ended' /\ OneAccept'
<1>1. \A t \in Threads : thread'[t] = thread[t]
  OBVIOUS
<1>2. OnChannel'
  BY <1>1 DEF IInv, OnChannel
<1>3. Kept'
  BY <1>1 DEF IInv, Kept, At
<1>4. \A c \in Channels : op[c] = "none" => op'[c] = "none"
  OBVIOUS
<1>5. Alone'
  <2>1. \A t \in Threads : thread[t].at \in {"endpoint", "serve", "ended"} => thread[t].on \in Channels
    BY DEF IInv, OnChannel, Busy
  <2> QED
    BY <1>1, <1>4, <2>1 DEF IInv, Alone
<1>6. Ended'
  BY <1>1 DEF IInv, Ended, At
<1>7. Acceptors' = Acceptors
  BY <1>1 DEF Acceptors, InAccept, Thrown, At
<1>8. OneAccept'
  BY <1>7 DEF IInv, OneAccept
<1> QED
  BY <1>2, <1>3, <1>5, <1>6, <1>8

(* A step of one thread, back to idle.                                      *)
LEMMA MovedToIdle ==
    ASSUME TypeOK, NEW t \in Threads, thread' = [thread EXCEPT ![t] = Idle]
    PROVE  /\ thread'[t].at = "idle" /\ thread'[t].on = None
           /\ \A u \in Threads \ {t} : thread'[u] = thread[u]
BY DEF TypeOK, Idle

LEMMA AcceptInv ==
    ASSUME IInv, NEW t \in Threads, NEW c \in Channels, Accept(t, c)
    PROVE  OnChannel' /\ Kept' /\ Alone' /\ Ended' /\ OneAccept'
<1>1. TypeOK /\ c # None /\ c \notin sessions_ /\ op[c] = "none"
  BY ConstantsAssumption DEF IInv, Kept, Accept, TypeOK
<1>2. \A u \in Threads : thread[u].on # c
  BY DEF IInv, Kept, Accept
<1>3. /\ thread'[t].at = "endpoint" /\ thread'[t].on = c
      /\ \A u \in Threads \ {t} : thread'[u] = thread[u]
  BY <1>1 DEF Accept, Go, TypeOK
<1>4. UNCHANGED <<sessions_, handlers, op, gone>> /\ accepting /\ ~ accepting'
  BY DEF Accept
<1>5. OnChannel'
  BY <1>3 DEF IInv, OnChannel, Busy
<1>6. Kept'
  <2>1. \A d \in Channels : stage'[d] \in {"new", "backlog"} => stage[d] = stage'[d] /\ d # c
    BY DEF Accept, IInv, TypeOK
  <2> QED
    BY <1>1, <1>3, <1>4, <2>1 DEF IInv, Kept, At
<1>7. Alone'
  BY <1>1, <1>2, <1>3, <1>4 DEF IInv, Alone
<1>8. Ended'
  BY <1>3, <1>4 DEF IInv, Ended, At
<1>9. Acceptors = {}
  BY <1>4 DEF IInv, OneAccept
<1>10. Acceptors' = {t}
  <2>1. \A u \in Threads \ {t} : u \notin Acceptors'
    BY <1>3, <1>4, <1>9 DEF Acceptors, InAccept, Thrown, At
  <2>2. t \in Acceptors' /\ Acceptors' \subseteq Threads
    BY <1>3 DEF Acceptors, InAccept
  <2> QED
    BY <2>1, <2>2
<1>11. OneAccept'
  BY <1>4, <1>10 DEF OneAccept
<1> QED
  BY <1>5, <1>6, <1>7, <1>8, <1>11

LEMMA AcceptErrorInv ==
    ASSUME IInv, NEW t \in Threads, AcceptError(t)
    PROVE  OnChannel' /\ Kept' /\ Alone' /\ Ended' /\ OneAccept'
<1>1. TypeOK /\ \A c \in Channels : c # None
  BY ConstantsAssumption DEF IInv
<1>3. /\ thread'[t].at = "accept" /\ thread'[t].on = None
      /\ \A u \in Threads \ {t} : thread'[u] = thread[u]
  BY <1>1 DEF AcceptError, Go, TypeOK
<1>4. UNCHANGED <<stage, sessions_, handlers, op, gone>> /\ accepting /\ ~ accepting'
  BY DEF AcceptError
<1>5. OnChannel' /\ Ended'
  BY <1>3, <1>4 DEF IInv, OnChannel, Busy, Ended, At
<1>6. Kept'
  BY <1>1, <1>3, <1>4 DEF IInv, Kept, At
<1>7. Alone'
  BY <1>3, <1>4 DEF IInv, Alone
<1>9. Acceptors = {}
  BY <1>4 DEF IInv, OneAccept
<1>10. Acceptors' = {t}
  <2>1. \A u \in Threads \ {t} : u \notin Acceptors'
    BY <1>3, <1>4, <1>9 DEF Acceptors, InAccept, Thrown, At
  <2>2. t \in Acceptors' /\ Acceptors' \subseteq Threads
    BY <1>3 DEF Acceptors, InAccept
  <2> QED
    BY <2>1, <2>2
<1>11. OneAccept'
  BY <1>4, <1>10 DEF OneAccept
<1> QED
  BY <1>5, <1>6, <1>7, <1>11

(* A thread in handleAccept, or lost there, is the only one.                *)
LEMMA OnlyAcceptor ==
    ASSUME IInv, NEW t \in Threads, t \in Acceptors
    PROVE  Acceptors = {t} /\ ~ accepting
BY DEF IInv, OneAccept

LEMMA EndpointInv ==
    ASSUME IInv, NEW t \in Threads, Endpoint(t)
    PROVE  OnChannel' /\ Kept' /\ Alone' /\ Ended' /\ OneAccept'
<1> DEFINE c == thread[t].on
<1>1. TypeOK /\ c \in Channels /\ c \notin sessions_ /\ op[c] = "none" /\ At(t, "endpoint")
  BY DEF IInv, OnChannel, Busy, Kept, Alone, Endpoint, At
<1>2. \A u \in Threads \ {t} :
        thread[u].at \in {"endpoint", "serve", "ended"} => thread[u].on # c
  BY <1>1 DEF IInv, Alone, At
<1>3. stage[c] \notin {"new", "backlog"}
  BY <1>1 DEF IInv, Kept
<1>4. Acceptors = {t} /\ ~ accepting
  BY <1>1, OnlyAcceptor DEF Acceptors, InAccept, At
<1>5. UNCHANGED <<stage, gone, accepting, handlers>>
  BY DEF Endpoint
<1>6. CASE c \in gone /\ Throw(t, c) /\ UNCHANGED <<sessions_, op>>
  <2>1. /\ thread'[t].at = "ended" /\ thread'[t].on = c
        /\ \A u \in Threads \ {t} : thread'[u] = thread[u]
    BY <1>1, <1>6 DEF Throw, Go, TypeOK
  <2>2. OnChannel' /\ Ended'
    BY <1>1, <1>5, <1>6, <2>1 DEF IInv, OnChannel, Busy, Ended, At
  <2>3. Kept'
    BY <1>1, <1>3, <1>5, <1>6, <2>1 DEF IInv, Kept, At
  <2>4. Alone'
    BY <1>1, <1>2, <1>6, <2>1 DEF IInv, Alone
  <2>5. Acceptors' = {t}
    <3>1. \A u \in Threads \ {t} : u \notin Acceptors'
      BY <1>4, <1>6, <2>1 DEF Acceptors, InAccept, Thrown, At
    <3>2. t \in Acceptors' /\ Acceptors' \subseteq Threads
      BY <1>1, <1>6, <2>1 DEF Acceptors, Thrown, At
    <3> QED
      BY <3>1, <3>2
  <2>6. OneAccept'
    BY <1>4, <1>5, <2>5 DEF OneAccept
  <2> QED
    BY <2>2, <2>3, <2>4, <2>6
<1>7. CASE /\ sessions_' = sessions_ \cup {c}
           /\ op' = [op EXCEPT ![c] = "handshake"]
           /\ Go(t, "install", c, 0)
  <2>1. /\ thread'[t].at = "install" /\ thread'[t].on = c
        /\ \A u \in Threads \ {t} : thread'[u] = thread[u]
    BY <1>1, <1>7 DEF Go, TypeOK
  <2>2. \A d \in Channels \ {c} : op'[d] = op[d]
    BY <1>1, <1>7 DEF TypeOK
  <2>3. OnChannel' /\ Ended'
    BY <1>1, <1>5, <2>1 DEF IInv, OnChannel, Busy, Ended, At
  <2>4. Kept'
    <3>1. \A u \in Threads : thread'[u].at = "endpoint" => thread'[u].on \notin sessions_'
      BY <1>2, <1>7, <2>1 DEF IInv, Kept, At
    <3> QED
      BY <1>1, <1>3, <1>5, <1>7, <2>1, <2>2, <3>1 DEF IInv, Kept, At
  <2>5. Alone'
    <3>1. \A u \in Threads : thread'[u].at \in {"endpoint", "serve", "ended"} =>
             u # t /\ thread[u] = thread'[u] /\ thread[u].on \in Channels \ {c}
      BY <1>2, <2>1 DEF IInv, OnChannel, Busy
    <3> QED
      BY <2>2, <3>1 DEF IInv, Alone
  <2>6. Acceptors' = {t}
    <3>1. \A u \in Threads \ {t} : u \notin Acceptors'
      BY <1>4, <1>7, <2>1 DEF Acceptors, InAccept, Thrown, At
    <3>2. t \in Acceptors' /\ Acceptors' \subseteq Threads
      BY <2>1 DEF Acceptors, InAccept
    <3> QED
      BY <3>1, <3>2
  <2>7. OneAccept'
    BY <1>4, <1>5, <2>6 DEF OneAccept
  <2> QED
    BY <2>3, <2>4, <2>5, <2>7
<1> QED
  BY <1>6, <1>7 DEF Endpoint

LEMMA InstallInv ==
    ASSUME IInv, NEW t \in Threads, Install(t)
    PROVE  OnChannel' /\ Kept' /\ Alone' /\ Ended' /\ OneAccept'
<1> DEFINE c == thread[t].on
<1>1. TypeOK /\ c \in Channels /\ At(t, "install")
  BY DEF IInv, OnChannel, Busy, Install, At
<1>2. /\ thread'[t].at = "accept" /\ thread'[t].on = c
      /\ \A u \in Threads \ {t} : thread'[u] = thread[u]
  BY <1>1 DEF Install, Go, TypeOK
<1>3. UNCHANGED <<stage, gone, accepting, sessions_, op>> /\ handlers' = handlers \cup {c}
  BY DEF Install
<1>4. OnChannel' /\ Ended'
  BY <1>2, <1>3 DEF IInv, OnChannel, Busy, Ended, At
<1>5. Kept'
  <2>1. c \in sessions_
    BY <1>1 DEF IInv, Kept
  <2> QED
    BY <1>1, <1>2, <1>3, <2>1 DEF IInv, Kept, At
<1>6. Alone'
  BY <1>2, <1>3 DEF IInv, Alone
<1>7. Acceptors = {t} /\ ~ accepting
  BY <1>1, OnlyAcceptor DEF Acceptors, InAccept, At
<1>8. Acceptors' = {t}
  <2>1. \A u \in Threads \ {t} : u \notin Acceptors'
    BY <1>2, <1>3, <1>7 DEF Acceptors, InAccept, Thrown, At
  <2>2. t \in Acceptors' /\ Acceptors' \subseteq Threads
    BY <1>2 DEF Acceptors, InAccept
  <2> QED
    BY <2>1, <2>2
<1>9. OneAccept'
  BY <1>3, <1>7, <1>8 DEF OneAccept
<1> QED
  BY <1>4, <1>5, <1>6, <1>9

LEMMA AcceptAgainInv ==
    ASSUME IInv, NEW t \in Threads, AcceptAgain(t)
    PROVE  OnChannel' /\ Kept' /\ Alone' /\ Ended' /\ OneAccept'
<1>1. TypeOK /\ At(t, "accept") /\ \A c \in Channels : c # None
  BY ConstantsAssumption DEF IInv, AcceptAgain
<1>2. /\ thread'[t].at = "idle" /\ thread'[t].on = None
      /\ \A u \in Threads \ {t} : thread'[u] = thread[u]
  BY <1>1, MovedToIdle DEF AcceptAgain
<1>3. UNCHANGED <<stage, gone, sessions_, handlers, op>> /\ accepting'
  BY DEF AcceptAgain
<1>4. OnChannel' /\ Ended'
  BY <1>2, <1>3 DEF IInv, OnChannel, Busy, Ended, At
<1>5. Kept'
  BY <1>1, <1>2, <1>3 DEF IInv, Kept, At
<1>6. Alone'
  BY <1>2, <1>3 DEF IInv, Alone
<1>7. Acceptors = {t}
  BY <1>1, OnlyAcceptor DEF Acceptors, InAccept, At
<1>8. Acceptors' = {}
  BY <1>2, <1>3, <1>7 DEF Acceptors, InAccept, Thrown, At
<1>9. OneAccept'
  BY <1>3, <1>8 DEF OneAccept
<1> QED
  BY <1>4, <1>5, <1>6, <1>9

(* A step in which no thread enters or leaves handleAccept.                 *)
LEMMA SameAcceptors ==
    ASSUME IInv, NEW t \in Threads, UNCHANGED <<accepting, sessions_>>,
           ~ InAccept(t), ~ Thrown(t), ~ InAccept(t)', ~ Thrown(t)',
           \A u \in Threads \ {t} : thread'[u] = thread[u]
    PROVE  OneAccept'
<1>1. \A u \in Threads : InAccept(u)' = InAccept(u) /\ Thrown(u)' = Thrown(u)
  BY DEF InAccept, Thrown, At
<1>2. Acceptors' = Acceptors
  BY <1>1 DEF Acceptors
<1> QED
  BY <1>2 DEF IInv, OneAccept

LEMMA ReadInv ==
    ASSUME IInv, NEW t \in Threads, NEW c \in Channels, Read(t, c)
    PROVE  OnChannel' /\ Kept' /\ Alone' /\ Ended' /\ OneAccept'
<1>1. TypeOK /\ At(t, "idle") /\ op[c] = "read" /\ c \in handlers /\ c \in sessions_
  BY DEF IInv, Kept, Read, Arrived
<1>2. /\ thread'[t].at = "serve" /\ thread'[t].on = c
      /\ \A u \in Threads \ {t} : thread'[u] = thread[u]
  BY <1>1 DEF Read, Go, TypeOK
<1>3. /\ UNCHANGED <<stage, gone, sessions_, handlers, accepting>>
      /\ op' = [op EXCEPT ![c] = "none"]
  BY DEF Read, server
<1>4. \A u \in Threads : thread[u].at \in {"endpoint", "serve", "ended"} => thread[u].on # c
  BY <1>1 DEF IInv, Alone
<1>5. op'[c] = "none" /\ \A d \in Channels \ {c} : op'[d] = op[d]
  BY <1>1, <1>3 DEF TypeOK
<1>6. OnChannel' /\ Ended'
  BY <1>2, <1>3 DEF IInv, OnChannel, Busy, Ended, At
<1>7. Kept'
  <2>1. stage[c] \notin {"new", "backlog"}
    BY <1>1 DEF IInv, Kept
  <2> QED
    BY <1>1, <1>2, <1>3, <1>5, <2>1 DEF IInv, Kept, At
<1>8. Alone'
  <2>1. \A u \in Threads \ {t} : thread'[u].at \in {"endpoint", "serve", "ended"} =>
           thread[u] = thread'[u] /\ thread[u].on \in Channels \ {c}
    BY <1>2, <1>4 DEF IInv, OnChannel, Busy
  <2> QED
    BY <1>2, <1>5, <2>1 DEF IInv, Alone
<1>9. OneAccept'
  BY <1>1, <1>2, <1>3, SameAcceptors DEF InAccept, Thrown, At
<1> QED
  BY <1>6, <1>7, <1>8, <1>9

LEMMA RespondInv ==
    ASSUME IInv, NEW t \in Threads, Respond(t)
    PROVE  OnChannel' /\ Kept' /\ Alone' /\ Ended' /\ OneAccept'
<1> DEFINE c == thread[t].on
<1>1. TypeOK /\ At(t, "serve") /\ c \in Channels /\ c \in handlers /\ c \in sessions_
  BY DEF IInv, OnChannel, Busy, Kept, Respond, At
<1>2. /\ thread'[t].at = "idle" /\ thread'[t].on = None
      /\ \A u \in Threads \ {t} : thread'[u] = thread[u]
  BY <1>1, MovedToIdle DEF Respond
<1>3. /\ UNCHANGED <<stage, gone, sessions_, handlers, accepting>>
      /\ op' = [op EXCEPT ![c] = "read"]
  BY DEF Respond, server
<1>4. \A u \in Threads \ {t} :
        thread[u].at \in {"endpoint", "serve", "ended"} => thread[u].on # c
  BY <1>1 DEF IInv, Alone, At
<1>5. \A d \in Channels \ {c} : op'[d] = op[d]
  BY <1>1, <1>3 DEF TypeOK
<1>6. OnChannel' /\ Ended'
  BY <1>2, <1>3 DEF IInv, OnChannel, Busy, Ended, At
<1>7. Kept'
  <2>1. \A d \in Channels : d # None
    BY ConstantsAssumption
  <2> QED
    BY <1>1, <1>2, <1>3, <1>5, <2>1 DEF IInv, Kept, At
<1>8. Alone'
  <2>1. \A u \in Threads : thread'[u].at \in {"endpoint", "serve", "ended"} =>
           thread[u] = thread'[u] /\ thread[u].on \in Channels \ {c}
    BY <1>2, <1>4 DEF IInv, OnChannel, Busy
  <2> QED
    BY <1>5, <2>1 DEF IInv, Alone
<1>9. OneAccept'
  BY <1>1, <1>2, <1>3, SameAcceptors DEF InAccept, Thrown, At
<1> QED
  BY <1>6, <1>7, <1>8, <1>9

LEMMA ReadErrorInv ==
    ASSUME IInv, NEW t \in Threads, NEW c \in Channels, ReadError(t, c)
    PROVE  OnChannel' /\ Kept' /\ Alone' /\ Ended' /\ OneAccept'
<1>1. TypeOK /\ At(t, "idle") /\ op[c] = "read" /\ c \in sessions_ /\ c \in gone
  BY DEF IInv, Kept, ReadError
<1>2. /\ UNCHANGED <<stage, gone, sessions_, handlers, accepting>>
      /\ op' = [op EXCEPT ![c] = "none"]
  BY DEF ReadError, server
<1>3. op'[c] = "none" /\ \A d \in Channels \ {c} : op'[d] = op[d]
  BY <1>1, <1>2 DEF TypeOK
<1>4. CASE UNCHANGED thread
  <2>1. \A d \in Channels : op'[d] = op[d] \/ op[d] # "none"
    BY <1>1, <1>3
  <2> QED
    BY <1>2, <1>4, <2>1, QuietStep
<1>5. CASE Throw(t, c)
  <2>1. /\ thread'[t].at = "ended" /\ thread'[t].on = c
        /\ \A u \in Threads \ {t} : thread'[u] = thread[u]
    BY <1>1, <1>5 DEF Throw, Go, TypeOK
  <2>2. \A u \in Threads : thread[u].at \in {"endpoint", "serve", "ended"} => thread[u].on # c
    BY <1>1 DEF IInv, Alone
  <2>3. OnChannel' /\ Ended'
    BY <1>1, <1>2, <2>1 DEF IInv, OnChannel, Busy, Ended, At
  <2>4. Kept'
    <3>1. stage[c] \notin {"new", "backlog"}
      BY <1>1 DEF IInv, Kept
    <3> QED
      BY <1>1, <1>2, <1>3, <2>1, <3>1 DEF IInv, Kept, At
  <2>5. Alone'
    <3>1. \A u \in Threads \ {t} : thread'[u].at \in {"endpoint", "serve", "ended"} =>
             thread[u] = thread'[u] /\ thread[u].on \in Channels \ {c}
      BY <2>1, <2>2 DEF IInv, OnChannel, Busy
    <3> QED
      BY <1>3, <2>1, <3>1 DEF IInv, Alone
  <2>6. OneAccept'
    BY <1>1, <1>2, <2>1, SameAcceptors DEF InAccept, Thrown, At
  <2> QED
    BY <2>3, <2>4, <2>5, <2>6
<1> QED
  BY <1>4, <1>5 DEF ReadError

LEMMA ReturnInv ==
    ASSUME IInv, NEW t \in Threads, Return(t)
    PROVE  OnChannel' /\ Kept' /\ Alone' /\ Ended' /\ OneAccept'
<1>1. TypeOK /\ At(t, "idle") /\ \A c \in Channels : c # None
  BY ConstantsAssumption DEF IInv, Return
<1>2. /\ thread'[t].at = "returned" /\ thread'[t].on = None
      /\ \A u \in Threads \ {t} : thread'[u] = thread[u]
  BY <1>1 DEF Return, Go, TypeOK
<1>3. UNCHANGED <<stage, gone, sessions_, handlers, op, accepting>>
  BY DEF Return, server
<1>4. OnChannel' /\ Ended'
  BY <1>2, <1>3 DEF IInv, OnChannel, Busy, Ended, At
<1>5. Kept'
  BY <1>1, <1>2, <1>3 DEF IInv, Kept, At
<1>6. Alone'
  BY <1>2, <1>3 DEF IInv, Alone
<1>7. OneAccept'
  BY <1>1, <1>2, <1>3, SameAcceptors DEF InAccept, Thrown, At
<1> QED
  BY <1>4, <1>5, <1>6, <1>7

(* The steps of a channel and its app move no thread.                       *)
LEMMA ChannelInv ==
    ASSUME IInv, NEW c \in Channels,
           App(c) \/ Handshake(c) \/ ReadSize(c) \/ Drop(c) \/ Write(c)
    PROVE  OnChannel' /\ Kept' /\ Alone' /\ Ended' /\ OneAccept'
<1>1. UNCHANGED <<thread, accepting, sessions_, handlers>> /\ gone \subseteq gone'
  BY DEF App, Connect, SendRequest, SendEmpty, Leave, Handshake, ReadSize, Drop, Write,
         WriteUnit, server
<1>2. op' = op \/ (Handshake(c) /\ op[c] # "none" /\ \E o : op' = [op EXCEPT ![c] = o])
  BY DEF App, Connect, SendRequest, SendEmpty, Leave, Handshake, ReadSize, Drop, Write,
         WriteUnit
<1>3. \A d \in Channels : op'[d] = op[d] \/ op[d] # "none"
  BY <1>2 DEF IInv, TypeOK
<1>4. \/ stage' = stage
      \/ stage[c] = "new" /\ stage' = [stage EXCEPT ![c] = "backlog"]
      \/ stage' = [stage EXCEPT ![c] = "open"]
  BY DEF App, Connect, SendRequest, SendEmpty, Leave, Handshake, ReadSize, Drop, Write,
         WriteUnit
<1>5. \A d \in Channels :
        stage'[d] \in {"new", "backlog"} => stage[d] \in {"new", "backlog"}
  BY <1>4 DEF IInv, TypeOK
<1> QED
  BY <1>1, <1>3, <1>5, QuietStep

LEMMA NextIInv == IInv /\ [Next]_vars => IInv'
<1> SUFFICES ASSUME IInv, [Next]_vars PROVE IInv'
  OBVIOUS
<1>1. TypeOK'
  BY TypeStep DEF IInv
<1>2. OnChannel' /\ Kept' /\ Alone' /\ Ended' /\ OneAccept'
  <2>1. CASE UNCHANGED vars
    <3>1. UNCHANGED <<thread, accepting, sessions_, handlers, gone, op, stage>>
      BY <2>1 DEF vars
    <3> QED
      BY <3>1, QuietStep
  <2>2. ASSUME NEW c \in Channels,
               App(c) \/ Handshake(c) \/ ReadSize(c) \/ Drop(c) \/ Write(c)
        PROVE  OnChannel' /\ Kept' /\ Alone' /\ Ended' /\ OneAccept'
    BY <2>2, ChannelInv
  <2>3. ASSUME NEW t \in Threads, Run(t)
        PROVE  OnChannel' /\ Kept' /\ Alone' /\ Ended' /\ OneAccept'
    BY <2>3, AcceptErrorInv, EndpointInv, InstallInv, AcceptAgainInv, RespondInv, ReturnInv
       DEF Run
  <2>4. ASSUME NEW t \in Threads, NEW c \in Channels, Accept(t, c) \/ Read(t, c) \/ ReadError(t, c)
        PROVE  OnChannel' /\ Kept' /\ Alone' /\ Ended' /\ OneAccept'
    BY <2>4, AcceptInv, ReadInv, ReadErrorInv
  <2> QED
    BY <2>1, <2>2, <2>3, <2>4 DEF Next
<1> QED
  BY <1>1, <1>2 DEF IInv

(* Every behaviour keeps the inductive invariant.                           *)
LEMMA Invariant == Spec => []IInv
BY InitIInv, NextIInv, PTL DEF Spec

-----------------------------------------------------------------------------
(* Theorems                                                                 *)

(* The server's variables keep their types: a length is 16 bits, a pending  *)
(* operation one per channel, and a thread works on an accepted channel.    *)
THEOREM TypeCorrect == Spec => []TypeOK
<1>1. IInv => TypeOK
  BY DEF IInv
<1> QED
  BY <1>1, Invariant, PTL

(* A channel's requests are handled one at a time, however many threads     *)
(* and channels there are: Session begins the next read after onRead.       *)
THEOREM OneHandler == Spec => []OneHandlerPerChannel
<1>1. IInv => OneHandlerPerChannel
  BY DEF IInv, Alone, OneHandlerPerChannel, At
<1> QED
  BY <1>1, Invariant, PTL

(* There is one accept at a time, and it is lost only when remote_endpoint  *)
(* throws in Server::handleAccept.                                          *)
THEOREM AcceptsOnce == Spec => []OneAccept
<1>1. IInv => OneAccept
  BY DEF IInv
<1> QED
  BY <1>1, Invariant, PTL

(* A thread that remote_endpoint ended stays ended, and its channel is      *)
(* never kept: nobody is left to accept a channel.                          *)
LEMMA ThrownStays ==
    ASSUME IInv, [Next]_vars, NEW u \in Threads, Thrown(u)
    PROVE  Thrown(u)'
<1>1. /\ TypeOK /\ OneAccept /\ u \in Acceptors
      /\ \A t \in Threads : InAccept(t) => t \notin Acceptors \/ t = u
  BY DEF IInv, OneAccept, Acceptors
<1>2. \A t \in Threads : ~ InAccept(t)
  BY <1>1 DEF Acceptors, InAccept, Thrown, At
<1>3. ~ accepting
  BY <1>1 DEF OneAccept
<1>4. UNCHANGED sessions_
  BY <1>2, <1>3 DEF Next, App, Connect, SendRequest, SendEmpty, Leave, Handshake, ReadSize, Drop,
     Write, WriteUnit, Run, AcceptError, Endpoint, Install, AcceptAgain, Respond, Return, Accept,
     Read, ReadError, InAccept, At, server, vars
<1>5. \/ thread' = thread
      \/ \E t \in Threads : ~ At(t, "ended") /\ \E r : thread' = [thread EXCEPT ![t] = r]
  BY DEF Next, App, Connect, SendRequest, SendEmpty, Leave, Handshake, ReadSize, Drop,
     Write, WriteUnit, Run, AcceptError, Endpoint, Install, AcceptAgain, Respond, Return, Accept,
     Read, ReadError, At, Go, Throw, vars
<1>6. thread'[u] = thread[u]
  BY <1>1, <1>5 DEF TypeOK, Thrown, At, Go
<1> QED
  BY <1>4, <1>6 DEF Thrown, At

(* run() returns only after remote_endpoint has thrown: until then an       *)
(* accept is pending, or the thread that handles one is not idle.           *)
THEOREM RunsOnUntilThrown == Spec => []RunsUntilThrown
<1>1. Init => RunsUntilThrown
  BY DEF Init, RunsUntilThrown, At, Idle
<1>2. IInv /\ RunsUntilThrown /\ [Next]_vars => RunsUntilThrown'
  <2> SUFFICES ASSUME IInv, RunsUntilThrown, [Next]_vars,
                      NEW t \in Threads, At(t, "returned")'
               PROVE  \E u \in Threads : Thrown(u)'
    BY DEF RunsUntilThrown
  <2>1. CASE At(t, "returned")
    <3>1. PICK u \in Threads : Thrown(u)
      BY <2>1 DEF RunsUntilThrown
    <3> QED
      BY <3>1, ThrownStays
  <2>2. CASE ~ At(t, "returned")
    <3>1. \E u \in Threads : Return(u)
      <4> SUFFICES ASSUME \A u \in Threads : ~ Return(u)
                   PROVE  FALSE
        OBVIOUS
      <4>1. thread \in [Threads -> [at : Places, on : Channels \cup {None}, no : Nat]]
        BY DEF IInv, TypeOK
      <4>2. thread' # thread
        BY <2>2 DEF At
      <4>3. ASSUME NEW v \in Threads, NEW a \in Places \ {"returned"}, NEW c, NEW n, Go(v, a, c, n)
            PROVE  FALSE
        BY <2>2, <4>1, <4>3 DEF Go, At
      <4>4. ASSUME NEW v \in Threads, thread' = [thread EXCEPT ![v] = Idle]
            PROVE  FALSE
        BY <2>2, <4>1, <4>4 DEF At, Idle
      <4>5. ASSUME NEW v \in Threads, Run(v) PROVE FALSE
        BY <4>3, <4>4, <4>5 DEF Run, AcceptError, Endpoint, Install, AcceptAgain, Respond, Throw, Places
      <4>6. ASSUME NEW v \in Threads, NEW c \in Channels, Accept(v, c) \/ Read(v, c) \/ ReadError(v, c)
            PROVE FALSE
        BY <4>2, <4>3, <4>6 DEF Accept, Read, ReadError, Throw, Places
      <4> QED
        BY <4>2, <4>5, <4>6 DEF Next, App, Connect, SendRequest, SendEmpty, Leave, Handshake,
           ReadSize, Drop, Write, WriteUnit, vars
    <3>2. PICK v \in Threads : Return(v)
      BY <3>1
    <3>3. \E u \in Threads : InAccept(u) \/ Thrown(u)
      BY <3>2 DEF IInv, OneAccept, Acceptors, Return
    <3>4. \A u \in Threads : ~ InAccept(u)
      BY <3>2 DEF Return, InAccept
    <3>5. PICK u \in Threads : Thrown(u)
      BY <3>3, <3>4
    <3> QED
      BY <3>5, ThrownStays
  <2> QED
    BY <2>1, <2>2
<1> QED
  BY <1>1, <1>2, Invariant, PTL DEF Spec

(* Each worker thread that ends is the one loss to an app that left.        *)
THEOREM ThreadsEnd == Spec => []ThreadsEndApart
<1>1. IInv => ThreadsEndApart
  BY DEF IInv, Alone, Ended, ThreadsEndApart, At
<1> QED
  BY <1>1, Invariant, PTL

(* No thread is lost to a channel whose handlers onConnected has installed. *)
THEOREM InstalledSafe == Spec => InstalledEndsNoThread
<1> DEFINE Safe == \A t \in Threads :
                      ~ At(t, "ended") /\ At(t, "ended")' => thread'[t].on \notin handlers
<1>1. IInv /\ [Next]_vars => [Safe]_vars
  <2> SUFFICES ASSUME IInv, Next, NEW t \in Threads, ~ At(t, "ended"), At(t, "ended")'
               PROVE  thread'[t].on \notin handlers
    BY DEF vars
  <2>1. TypeOK
    BY DEF IInv
  <2>2. ASSUME NEW u \in Threads, NEW c, Throw(u, c), c \notin handlers
        PROVE  thread'[t].on \notin handlers
    <3>1. CASE t = u
      BY <2>1, <2>2, <3>1 DEF Throw, Go, TypeOK
    <3>2. CASE t # u
      BY <2>1, <2>2, <3>2 DEF Throw, Go, TypeOK, At
    <3> QED
      BY <3>1, <3>2
  <2>3. ASSUME NEW u \in Threads, Endpoint(u) PROVE thread'[t].on \notin handlers
    <3>1. thread[u].on \notin handlers
      BY <2>3 DEF IInv, Kept, Endpoint
    <3>2. CASE Throw(u, thread[u].on)
      BY <2>2, <3>1, <3>2
    <3>3. CASE Go(u, "install", thread[u].on, 0)
      BY <2>1, <3>3 DEF Go, TypeOK, At
    <3> QED
      BY <2>3, <3>2, <3>3 DEF Endpoint
  <2>4. ASSUME NEW u \in Threads, NEW c \in Channels, ReadError(u, c)
        PROVE  thread'[t].on \notin handlers
    <3>1. CASE UNCHANGED thread
      BY <3>1 DEF At
    <3>2. CASE c \notin handlers /\ Throw(u, c)
      BY <2>2, <3>2
    <3> QED
      BY <2>4, <3>1, <3>2 DEF ReadError
  <2>5. ASSUME NEW u \in Threads, AcceptError(u) \/ Install(u) \/ Return(u) PROVE FALSE
    <3>1. thread'[u].at # "ended" /\ \A v \in Threads \ {u} : thread'[v] = thread[v]
      BY <2>1, <2>5 DEF AcceptError, Install, Return, Go, TypeOK
    <3> QED
      BY <3>1 DEF At
  <2>6. ASSUME NEW u \in Threads, AcceptAgain(u) \/ Respond(u) PROVE FALSE
    <3>1. thread'[u].at # "ended" /\ \A v \in Threads \ {u} : thread'[v] = thread[v]
      BY <2>1, <2>6, MovedToIdle DEF AcceptAgain, Respond
    <3> QED
      BY <3>1 DEF At
  <2>7. ASSUME NEW u \in Threads, NEW c \in Channels, Accept(u, c) \/ Read(u, c) PROVE FALSE
    <3>1. thread'[u].at # "ended" /\ \A v \in Threads \ {u} : thread'[v] = thread[v]
      BY <2>1, <2>7 DEF Accept, Read, Go, TypeOK
    <3> QED
      BY <3>1 DEF At
  <2>8. ASSUME NEW c \in Channels, App(c) \/ Handshake(c) \/ ReadSize(c) \/ Drop(c) \/ Write(c)
        PROVE  FALSE
    BY <2>8 DEF App, Connect, SendRequest, SendEmpty, Leave, Handshake, ReadSize, Drop, Write,
                WriteUnit, At
  <2> QED
    BY <2>3, <2>4, <2>5, <2>6, <2>7, <2>8 DEF Next, Run
<1> QED
  BY <1>1, Invariant, PTL DEF Spec, InstalledEndsNoThread
=============================================================================

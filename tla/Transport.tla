------------------------------ MODULE Transport ------------------------------
(***************************************************************************)
(* Channels and worker threads: Server accepts connections, a Session      *)
(* reads frames (a two-byte length and a message) and writes responses,    *)
(* a ClientChannel hands messages to the handlers RRManager installed, and *)
(* the threads of Worker run all callbacks of one io_service.              *)
(*                                                                         *)
(* An action on a thread is a callback, or the part of one between two     *)
(* points where other threads matter: handleAccept is four actions, a      *)
(* request is Read (the thread enters RRManager::readSessionBuffer) and    *)
(* Respond.  What happens in between is the subject of the other modules.  *)
(* An exception that leaves a callback ends the thread that runs it.       *)
(*                                                                         *)
(* Apps, the kernel's listen queue and TLS are external: an app connects,  *)
(* sends frames of any size, perhaps before it has its answers, and may    *)
(* leave at any time.                                                      *)
(***************************************************************************)
EXTENDS Naturals, SequencesExt

CONSTANTS
    None,         \* no channel
    Channels,     \* the connections of a behaviour, each made at most once
    Threads,      \* WORKER_THREAD_COUNT threads
    Limits,       \* how many descriptors may be left for connections
    Word,         \* a frame's length is sent modulo Word
    Sizes,        \* sizes of responses, in units written at once
    MaxRequests,  \* bound on the requests of each channel
    MaxInbox      \* bound on the frames an app may have sent ahead

ASSUME ConstantsAssumption ==
    /\ None \notin Channels
    /\ Limits \subseteq Nat /\ Word \in Nat \ {0} /\ MaxInbox \in Nat
    /\ Sizes \subseteq Nat \ {0}
    /\ MaxRequests \in [Channels -> Nat]

VARIABLES
    limit,      \* descriptors left when the behaviour begins
    stage,      \* of each connection
    gone,       \* apps that have left
    accepting,  \* an async_accept is pending
    sessions_,  \* Server::sessions_
    handlers,   \* channels whose handlers are installed
    op,         \* the pending asynchronous operation of each channel
    nextMsgSize_,
    inbox,      \* frames sent and not yet read
    thread,     \* what each thread does
    writes,     \* responses being written
    wire,       \* what each app received
    asked,      \* number of requests sent
    eager,      \* history: apps that sent a request before they had all answers
    dropped     \* history: channels with a request no handler took

server == <<limit, accepting, sessions_, handlers>>
vars   == <<limit, stage, gone, accepting, sessions_, handlers, op, nextMsgSize_, inbox,
            thread, writes, wire, asked, eager, dropped>>

Stages == {"new", "backlog", "accepted", "open"}
Places == {"idle", "endpoint", "install", "accept", "serve", "ended", "returned"}
Frame  == [no : Nat, size : {0, 1}]           \* size 0: an empty message
InFlight == [no : Nat, size : Nat, part : Nat]  \* part: the next unit
Unit   == [no : Nat, size : Nat, part : Nat, head : Nat]

TypeOK ==
    /\ limit \in Limits
    /\ stage \in [Channels -> Stages]
    /\ gone \subseteq Channels
    /\ accepting \in BOOLEAN
    /\ sessions_ \subseteq Channels
    /\ handlers \subseteq Channels
    /\ op \in [Channels -> {"none", "handshake", "read"}]
    /\ nextMsgSize_ \in [Channels -> {0, 1}]
    /\ inbox \in [Channels -> Seq(Frame)]
    /\ thread \in [Threads -> [at : Places, on : Channels \cup {None}, no : Nat]]
    /\ writes \in [Channels -> Seq(InFlight)]
    /\ wire \in [Channels -> Seq(Unit)]
    /\ asked \in [Channels -> Nat]
    /\ eager \subseteq Channels
    /\ dropped \subseteq Channels

At(t, place)   == thread[t].at = place
Idle           == [at |-> "idle", on |-> None, no |-> 0]
Go(t, place, c, n) == thread' = [thread EXCEPT ![t] = [at |-> place, on |-> c, no |-> n]]
SomeIdle       == \E t \in Threads : At(t, "idle")

(* The exception leaves service_.run() and the thread's function.          *)
Throw(t, c) == Go(t, "ended", c, 0)

(* All answers an app has asked for have arrived.                          *)
Answered(c, n) == \E i \in DOMAIN wire[c] : wire[c][i].no = n /\ wire[c][i].part = wire[c][i].size
Satisfied(c) == asked[c] = 0 \/ Answered(c, asked[c])

-----------------------------------------------------------------------------
Init ==
    /\ limit \in Limits
    /\ stage = [c \in Channels |-> "new"]
    /\ gone = {}
    /\ accepting = TRUE
    /\ sessions_ = {}
    /\ handlers = {}
    /\ op = [c \in Channels |-> "none"]
    /\ nextMsgSize_ = [c \in Channels |-> 0]
    /\ inbox = [c \in Channels |-> <<>>]
    /\ thread = [t \in Threads |-> Idle]
    /\ writes = [c \in Channels |-> <<>>]
    /\ wire = [c \in Channels |-> <<>>]
    /\ asked = [c \in Channels |-> 0]
    /\ eager = {}
    /\ dropped = {}

(* The app.                                                                *)
Connect(c) ==
    /\ stage[c] = "new"
    /\ stage' = [stage EXCEPT ![c] = "backlog"]
    /\ UNCHANGED <<gone, server, op, nextMsgSize_, inbox, thread, writes, wire, asked, eager, dropped>>

MaySend(c) == stage[c] = "open" /\ c \notin gone /\ Len(inbox[c]) < MaxInbox

SendRequest(c) ==
    /\ MaySend(c)
    /\ asked[c] < MaxRequests[c]
    /\ inbox' = [inbox EXCEPT ![c] = Append(@, [no |-> asked[c] + 1, size |-> 1])]
    /\ asked' = [asked EXCEPT ![c] = @ + 1]
    /\ eager' = IF Satisfied(c) THEN eager ELSE eager \cup {c}
    /\ UNCHANGED <<stage, gone, server, op, nextMsgSize_, thread, writes, wire, dropped>>

SendEmpty(c) ==
    /\ MaySend(c)
    /\ inbox' = [inbox EXCEPT ![c] = Append(@, [no |-> 0, size |-> 0])]
    /\ UNCHANGED <<stage, gone, server, op, nextMsgSize_, thread, writes, wire, asked, eager, dropped>>

Leave(c) ==
    /\ stage[c] # "new"
    /\ gone' = gone \cup {c}
    /\ c \notin gone
    /\ UNCHANGED <<stage, server, op, nextMsgSize_, inbox, thread, writes, wire, asked, eager, dropped>>

-----------------------------------------------------------------------------
(* Server                                                                  *)

(* Every accepted channel keeps its descriptor, and a running handler has  *)
(* one for its database connection at times.                               *)
Room   == Cardinality(sessions_) < limit
Strain == Cardinality(sessions_) + Cardinality({t \in Threads : At(t, "serve")}) >= limit

(* async_accept completes with a connection ...                            *)
Accept(t, c) ==
    /\ At(t, "idle") /\ accepting /\ stage[c] = "backlog" /\ Room
    /\ accepting' = FALSE
    /\ stage' = [stage EXCEPT ![c] = "accepted"]
    /\ Go(t, "endpoint", c, 0)
    /\ UNCHANGED <<limit, gone, sessions_, handlers, op, nextMsgSize_, inbox, writes, wire, asked, eager, dropped>>

(* Mutant: the next accept is begun only after a successful one.           *)
AcceptErrorEnds(t) ==
    /\ At(t, "idle") /\ accepting /\ Strain
    /\ \E c \in Channels : stage[c] = "backlog"
    /\ accepting' = FALSE
    /\ UNCHANGED <<limit, stage, gone, sessions_, handlers, op, nextMsgSize_, inbox, thread, writes, wire, asked, eager, dropped>>

(* ... or with an error.                                                   *)
AcceptError(t) ==
    /\ At(t, "idle") /\ accepting /\ Strain
    /\ \E c \in Channels : stage[c] = "backlog"
    /\ accepting' = FALSE
    /\ Go(t, "accept", None, 0)
    /\ UNCHANGED <<limit, stage, gone, sessions_, handlers, op, nextMsgSize_, inbox, writes, wire, asked, eager, dropped>>

(* handleAccept: remote_endpoint may throw when the app has left; otherwise *)
(* the channel is kept and its handshake begins ...                        *)
Endpoint(t) ==
    /\ At(t, "endpoint")
    /\ LET c == thread[t].on IN
       \/ /\ c \in gone
          /\ Throw(t, c)
          /\ UNCHANGED <<sessions_, op>>
       \/ /\ sessions_' = sessions_ \cup {c}
          /\ op' = [op EXCEPT ![c] = "handshake"]
          /\ Go(t, "install", c, 0)
    /\ UNCHANGED <<limit, stage, gone, accepting, handlers, nextMsgSize_, inbox, writes, wire, asked, eager, dropped>>

(* ... RRManager::onConnected installs the handlers ...                    *)
Install(t) ==
    /\ At(t, "install")
    /\ handlers' = handlers \cup {thread[t].on}
    /\ Go(t, "accept", thread[t].on, 0)
    /\ UNCHANGED <<limit, stage, gone, accepting, sessions_, op, nextMsgSize_, inbox, writes, wire, asked, eager, dropped>>

(* ... and the next accept begins.                                         *)
AcceptAgain(t) ==
    /\ At(t, "accept")
    /\ accepting' = TRUE
    /\ thread' = [thread EXCEPT ![t] = Idle]
    /\ UNCHANGED <<limit, stage, gone, sessions_, handlers, op, nextMsgSize_, inbox, writes, wire, asked, eager, dropped>>

-----------------------------------------------------------------------------
(* Session                                                                 *)

(* handle_handshake: after an error nothing is read, nobody is told.       *)
Handshake(c) ==
    /\ SomeIdle /\ op[c] = "handshake"
    /\ \/ /\ c \notin gone
          /\ stage' = [stage EXCEPT ![c] = "open"]
          /\ op' = [op EXCEPT ![c] = "read"]
       \/ /\ op' = [op EXCEPT ![c] = "none"]
          /\ UNCHANGED stage
    /\ UNCHANGED <<gone, server, nextMsgSize_, inbox, thread, writes, wire, asked, eager, dropped>>

Arrived(c) == op[c] = "read" /\ inbox[c] # <<>>

(* Mutant: a length of zero ends the reading.                              *)
ReadSizeStops(c) ==
    /\ SomeIdle /\ Arrived(c) /\ nextMsgSize_[c] = 0
    /\ nextMsgSize_' = [nextMsgSize_ EXCEPT ![c] = Head(inbox[c]).size]
    /\ IF Head(inbox[c]).size = 0
       THEN inbox' = [inbox EXCEPT ![c] = Tail(@)] /\ op' = [op EXCEPT ![c] = "none"]
       ELSE UNCHANGED <<inbox, op>>
    /\ UNCHANGED <<stage, gone, server, thread, writes, wire, asked, eager, dropped>>

(* Mutant: the length counts itself.                                       *)
ReadSizeOneMore(c) ==
    /\ SomeIdle /\ Arrived(c) /\ nextMsgSize_[c] = 0
    /\ nextMsgSize_' = [nextMsgSize_ EXCEPT ![c] = Head(inbox[c]).size + 1]
    /\ UNCHANGED <<stage, gone, server, op, inbox, thread, writes, wire, asked, eager, dropped>>

(* handleRead of a length; a length of zero is followed by another length. *)
ReadSize(c) ==
    /\ SomeIdle /\ Arrived(c) /\ nextMsgSize_[c] = 0
    /\ nextMsgSize_' = [nextMsgSize_ EXCEPT ![c] = Head(inbox[c]).size]
    /\ inbox' = IF Head(inbox[c]).size = 0 THEN [inbox EXCEPT ![c] = Tail(@)] ELSE inbox
    /\ UNCHANGED <<stage, gone, server, op, thread, writes, wire, asked, eager, dropped>>

(* Mutant: the next read begins before the message is handled.             *)
ReadAhead(t, c) ==
    /\ At(t, "idle") /\ Arrived(c) /\ nextMsgSize_[c] # 0
    /\ c \in handlers
    /\ inbox' = [inbox EXCEPT ![c] = Tail(@)]
    /\ nextMsgSize_' = [nextMsgSize_ EXCEPT ![c] = 0]
    /\ Go(t, "serve", c, Head(inbox[c]).no)
    /\ UNCHANGED <<stage, gone, server, op, writes, wire, asked, eager, dropped>>

(* handleRead of a message: nothing is read until the handler has returned. *)
Read(t, c) ==
    /\ At(t, "idle") /\ Arrived(c) /\ nextMsgSize_[c] # 0
    /\ c \in handlers
    /\ inbox' = [inbox EXCEPT ![c] = Tail(@)]
    /\ op' = [op EXCEPT ![c] = "none"]
    /\ Go(t, "serve", c, Head(inbox[c]).no)
    /\ UNCHANGED <<stage, gone, server, nextMsgSize_, writes, wire, asked, eager, dropped>>

(* Mutant: an uninstalled readHandle_ is called.                           *)
DropThrows(c) ==
    /\ Arrived(c) /\ nextMsgSize_[c] # 0
    /\ c \notin handlers
    /\ \E t \in Threads : At(t, "idle") /\ Throw(t, c)
    /\ inbox' = [inbox EXCEPT ![c] = Tail(@)]
    /\ op' = [op EXCEPT ![c] = "none"]
    /\ UNCHANGED <<stage, gone, server, nextMsgSize_, writes, wire, asked, eager, dropped>>

(* handleRead of a message before there is a handler to take it.           *)
Drop(c) ==
    /\ SomeIdle /\ Arrived(c) /\ nextMsgSize_[c] # 0
    /\ c \notin handlers
    /\ inbox' = [inbox EXCEPT ![c] = Tail(@)]
    /\ nextMsgSize_' = [nextMsgSize_ EXCEPT ![c] = 0]
    /\ dropped' = dropped \cup {c}
    /\ UNCHANGED <<stage, gone, server, op, thread, writes, wire, asked, eager>>

(* The handler writes its response and returns; the next read begins while *)
(* the response is on its way.                                             *)
Respond(t) ==
    /\ At(t, "serve")
    /\ LET c == thread[t].on IN
       /\ \E s \in Sizes :
             writes' = [writes EXCEPT ![c] = Append(@, [no |-> thread[t].no, size |-> s, part |-> 1])]
       /\ nextMsgSize_' = [nextMsgSize_ EXCEPT ![c] = 0]
       /\ op' = [op EXCEPT ![c] = "read"]
    /\ thread' = [thread EXCEPT ![t] = Idle]
    /\ UNCHANGED <<stage, gone, server, inbox, wire, asked, eager, dropped>>

(* Mutant: no disconectedHandle_ is ever installed.                        *)
ReadErrorThrows(t, c) ==
    /\ At(t, "idle") /\ op[c] = "read" /\ c \in gone
    /\ op' = [op EXCEPT ![c] = "none"]
    /\ Throw(t, c)
    /\ UNCHANGED <<stage, gone, server, nextMsgSize_, inbox, writes, wire, asked, eager, dropped>>

(* handleRead with an error, once the app has left: an uninstalled         *)
(* disconectedHandle_ throws.                                              *)
ReadError(t, c) ==
    /\ At(t, "idle") /\ op[c] = "read" /\ c \in gone
    /\ op' = [op EXCEPT ![c] = "none"]
    /\ IF c \in handlers THEN UNCHANGED thread ELSE Throw(t, c)
    /\ UNCHANGED <<stage, gone, server, nextMsgSize_, inbox, writes, wire, asked, eager, dropped>>

(* Mutant: the size is cut one short of the header's range.                *)
MakeShortBuffer(size) == size % (Word - 1)

(* makeBuffer keeps 16 bits of the size.                                   *)
MakeBuffer(size) == size % Word

(* The writes in flight on a channel take turns on its stream; handleWrite *)
(* only logs how a write ended.                                            *)
WriteUnit(c, i) ==
    /\ SomeIdle /\ i \in DOMAIN writes[c]
    /\ LET w == writes[c][i] IN
       IF c \in gone
       THEN /\ writes' = [writes EXCEPT ![c] = RemoveAt(@, i)]
            /\ UNCHANGED wire
       ELSE /\ writes' = [writes EXCEPT ![c] =
                            IF w.part = w.size
                            THEN RemoveAt(@, i)
                            ELSE [@ EXCEPT ![i] = [w EXCEPT !.part = w.part + 1]]]
            /\ wire' = [wire EXCEPT ![c] = Append(@,
                          [no |-> w.no, size |-> w.size, part |-> w.part, head |-> MakeBuffer(w.size)])]
    /\ UNCHANGED <<stage, gone, server, op, nextMsgSize_, inbox, thread, asked, eager, dropped>>

(* service_.run() returns when nothing is left to wait for.                *)
Return(t) ==
    /\ At(t, "idle") /\ ~ accepting
    /\ \A c \in Channels : op[c] = "none" /\ writes[c] = <<>>
    /\ \A u \in Threads : thread[u].at \in {"idle", "ended", "returned"}
    /\ Go(t, "returned", None, 0)
    /\ UNCHANGED <<stage, gone, server, op, nextMsgSize_, inbox, writes, wire, asked, eager, dropped>>

Write(c) == \E i \in DOMAIN writes[c] : WriteUnit(c, i)

App(c) == Connect(c) \/ SendRequest(c) \/ SendEmpty(c) \/ Leave(c)

Run(t) == AcceptError(t) \/ Endpoint(t) \/ Install(t) \/ AcceptAgain(t) \/ Respond(t) \/ Return(t)

Next ==
    \/ \E c \in Channels : App(c) \/ Handshake(c) \/ ReadSize(c) \/ Drop(c) \/ Write(c)
    \/ \E t \in Threads : Run(t)
    \/ \E t \in Threads, c \in Channels : Accept(t, c) \/ Read(t, c) \/ ReadError(t, c)

Spec == Init /\ [][Next]_vars

(* The io_service runs what is ready once a thread is free, in the order   *)
(* in which it became ready; nothing is assumed of the apps.               *)
Callback(t) == Endpoint(t) \/ Install(t) \/ AcceptAgain(t) \/ Respond(t)
Serve(c) == \E t \in Threads : Read(t, c)
Admit(c) == \E t \in Threads : Accept(t, c)
FairSpec ==
    /\ Spec
    /\ \A t \in Threads : WF_vars(Callback(t))
    /\ \A c \in Channels :
          WF_vars(Admit(c)) /\ WF_vars(ReadSize(c)) /\ WF_vars(Serve(c)) /\ WF_vars(Write(c))

-----------------------------------------------------------------------------
(* Properties                                                              *)

(* A channel's requests are handled one at a time, whatever its app sends  *)
(* ahead and whichever threads are free: what the handlers' models, and    *)
(* Session's unguarded buffer_ and nextMsgSize_, rely on.                  *)
OneHandlerPerChannel ==
    \A t, u \in Threads :
        At(t, "serve") /\ At(u, "serve") /\ thread[t].on = thread[u].on => t = u

(* There is always exactly one accept, pending or being handled, unless    *)
(* remote_endpoint has thrown.                                             *)
InAccept(t) == thread[t].at \in {"endpoint", "install", "accept"}
Thrown(t)   == At(t, "ended") /\ thread[t].on \notin sessions_
Acceptors   == {t \in Threads : InAccept(t) \/ Thrown(t)}
OneAccept ==
    /\ \A t, u \in Acceptors : t = u
    /\ accepting <=> Acceptors = {}

(* service_.run() returns, on the way to main's "Threads FINISHED!!!", only *)
(* after remote_endpoint has thrown: whatever else ends a read, an accept   *)
(* or a handshake, the threads always have the next accept to wait for.     *)
RunsUntilThrown ==
    (\E t \in Threads : At(t, "returned")) => \E t \in Threads : Thrown(t)

(* A thread is lost only to an app that left, and no two threads to the    *)
(* same one: the server outlives fewer departures than it has threads.     *)
ThreadsEndApart ==
    /\ \A t \in Threads : At(t, "ended") => thread[t].on \in gone
    /\ \A t, u \in Threads :
          At(t, "ended") /\ At(u, "ended") /\ thread[t].on = thread[u].on => t = u

(* Once a channel's handlers are installed it costs no thread, however and *)
(* whenever its app leaves.                                                *)
InstalledEndsNoThread ==
    [][\A t \in Threads :
          ~ At(t, "ended") /\ At(t, "ended")' => thread'[t].on \notin handlers]_vars

(* An app that waits for its answers receives them whole, in the order of  *)
(* its requests and with their true lengths, as long as no answer exceeds  *)
(* 16 bits; no request is answered twice, and none is passed over.         *)
Follows(p, q) ==
    IF p.part < p.size
    THEN q.no = p.no /\ q.part = p.part + 1
    ELSE q.part = 1 /\ q.no = p.no + 1
ResponsesIntact ==
    \A c \in Channels :
        c \notin eager /\ (\A i \in DOMAIN wire[c] : wire[c][i].size < Word) =>
            /\ \A i \in DOMAIN wire[c] : wire[c][i].head = wire[c][i].size
            /\ \A i \in 1 .. Len(wire[c]) - 1 : Follows(wire[c][i], wire[c][i + 1])

(* Every request is answered in full, unless its app leaves, a request of  *)
(* the channel came before its handlers, or no thread is left; empty       *)
(* messages in between change nothing.                                     *)
NoThreadLeft == \A t \in Threads : At(t, "ended")
RequestsAreAnswered ==
    \A c \in Channels : \A n \in 1 .. MaxRequests[c] :
        asked[c] >= n ~> Answered(c, n) \/ c \in gone \/ c \in dropped \/ NoThreadLeft

(* Every app that connects is accepted, whatever errors accepts end with,  *)
(* unless remote_endpoint has thrown, the channels that were ever accepted *)
(* have used up the descriptors, or no thread is left.                     *)
AppsAreAccepted ==
    \A c \in Channels :
        stage[c] = "backlog" ~>
            stage[c] # "backlog" \/ ~ Room \/ NoThreadLeft \/ \E t \in Threads : Thrown(t)

(* Whatever an app sends ahead, whichever threads take the callbacks and   *)
(* however the writes interleave: each request is handled at most once, in *)
(* the order sent, one at a time and never passed over once the handlers   *)
(* are installed; it is answered once, and only after it was handled.      *)
Waiting   == [c \in Channels |->
    {inbox[c][i].no : i \in {k \in DOMAIN inbox[c] : inbox[c][k].size = 1}}]
Serving   == [c \in Channels |->
    {thread[t].no : t \in {u \in Threads : At(u, "serve") /\ thread[u].on = c}}]
Answering == [c \in Channels |-> {writes[c][i].no : i \in DOMAIN writes[c]}]
Delivered == [c \in Channels |->
    {wire[c][i].no : i \in {k \in DOMAIN wire[c] : wire[c][k].part = wire[c][k].size}}]

Dialogue == INSTANCE Dialogue WITH
    waiting <- Waiting, serving <- Serving, answering <- Answering, answered <- Delivered
ImplementsDialogue == Dialogue!Spec
=============================================================================

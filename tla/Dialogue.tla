------------------------------- MODULE Dialogue -------------------------------
(***************************************************************************)
(* What a connection promises an app that numbers its requests, also one   *)
(* that does not wait for its answers: every request is handled once, one  *)
(* at a time and in the order in which they were sent, and answered once.  *)
(* Threads, frames and the units of a response are out of sight.           *)
(***************************************************************************)
EXTENDS Naturals

CONSTANT Channels

VARIABLES
    asked,      \* how many requests each app has sent
    handlers,   \* channels with handlers
    gone,       \* apps that have left
    waiting,    \* the numbers of the requests no handler has seen yet,
    serving,    \* of the one that is being handled,
    answering,  \* of those whose answers are on their way,
    answered    \* and of those whose answers have arrived

vars == <<asked, handlers, gone, waiting, serving, answering, answered>>

Ask(c) ==
    /\ c \notin gone
    /\ asked' = [asked EXCEPT ![c] = @ + 1]
    /\ waiting' = [waiting EXCEPT ![c] = @ \cup {asked[c] + 1}]
    /\ UNCHANGED <<handlers, gone, serving, answering, answered>>

Listen(c) ==
    /\ c \notin handlers
    /\ handlers' = handlers \cup {c}
    /\ UNCHANGED <<asked, gone, waiting, serving, answering, answered>>

First(c, n) == n \in waiting[c] /\ \A m \in waiting[c] : n <= m

(* The first request is handled when the one before it is done ...          *)
Take(c, n) ==
    /\ c \in handlers /\ First(c, n) /\ serving[c] = {}
    /\ waiting' = [waiting EXCEPT ![c] = @ \ {n}]
    /\ serving' = [serving EXCEPT ![c] = {n}]
    /\ UNCHANGED <<asked, handlers, gone, answering, answered>>

(* ... or passed over, as long as nobody listens.                           *)
PassOver(c, n) ==
    /\ c \notin handlers /\ First(c, n)
    /\ waiting' = [waiting EXCEPT ![c] = @ \ {n}]
    /\ UNCHANGED <<asked, handlers, gone, serving, answering, answered>>

Finish(c) ==
    /\ serving[c] # {}
    /\ serving' = [serving EXCEPT ![c] = {}]
    /\ answering' = [answering EXCEPT ![c] = @ \cup serving[c]]
    /\ UNCHANGED <<asked, handlers, gone, waiting, answered>>

(* An answer arrives, or is lost on an app that has left.                   *)
Deliver(c, n) ==
    /\ c \notin gone /\ n \in answering[c] /\ n \notin answered[c]
    /\ answering' = [answering EXCEPT ![c] = @ \ {n}]
    /\ answered' = [answered EXCEPT ![c] = @ \cup {n}]
    /\ UNCHANGED <<asked, handlers, gone, waiting, serving>>

Lose(c, n) ==
    /\ c \in gone /\ n \in answering[c]
    /\ answering' = [answering EXCEPT ![c] = @ \ {n}]
    /\ UNCHANGED <<asked, handlers, gone, waiting, serving, answered>>

Leave(c) ==
    /\ gone' = gone \cup {c}
    /\ UNCHANGED <<asked, handlers, waiting, serving, answering, answered>>

Next ==
    \E c \in Channels :
        \/ Ask(c) \/ Listen(c) \/ Finish(c) \/ Leave(c)
        \/ \E n \in 1 .. asked[c] :
              Take(c, n) \/ PassOver(c, n) \/ Deliver(c, n) \/ Lose(c, n)

Nothing == [c \in Channels |-> {}]

Init ==
    /\ asked = [c \in Channels |-> 0]
    /\ handlers = {} /\ gone = {}
    /\ waiting = Nothing /\ serving = Nothing /\ answering = Nothing /\ answered = Nothing

Spec == Init /\ [][Next]_vars

(* The numbers are always in the order in which requests move on, and no    *)
(* request is in two places.                                                *)
InOrder ==
    /\ asked \in [Channels -> Nat]
    /\ \A c \in Channels :
          /\ waiting[c] \cup serving[c] \cup answering[c] \cup answered[c] \subseteq 1 .. asked[c]
          /\ \A n \in serving[c] \cup answering[c] \cup answered[c], m \in waiting[c] : n < m
          /\ \A n \in answering[c] \cup answered[c], m \in serving[c] : n < m
          /\ answering[c] \cap answered[c] = {}
=============================================================================

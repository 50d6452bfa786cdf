------------------------------- MODULE Sessions -------------------------------
(***************************************************************************)
(* Sessions: how a login creates one (AuthLogic::authUser), how every      *)
(* request checks and prolongs the one it names (RRManager::checkSession), *)
(* how a logout ends it, and whom the server takes the sender to be.       *)
(*                                                                         *)
(* A session id is drawn from rand() after srand(time(NULL)), so an id is  *)
(* determined by the second of the seed and by the number of characters    *)
(* drawn since.  The generator is one for all threads and also supplies    *)
(* the salts of createUser.                                                *)
(*                                                                         *)
(* Each user has one app, which keeps the session of its last login and    *)
(* may have several channels open.  Its requests name that session, or one *)
(* that was never stored, and any user: the server takes a request's word  *)
(* for whom it is from unless the session it names is running.  An action  *)
(* is one call of a handler to its database manager or to the generator; a *)
(* call may fail, with or without effect.                                  *)
(***************************************************************************)
EXTENDS Integers

CONSTANTS
    None,         \* no handler; a session id that is not stored
    Users,        \* the registered users
    Channels,     \* connections of the apps
    Owner,        \* the user whose app opened a channel
    TTL,          \* lifetime of a session, DEFAULT of end_date
    MaxTime,      \* bound on the clock
    MaxRequests,  \* bound on the requests of a behaviour
    MaxFaults     \* bound on the failing calls of a behaviour

SessionLength == 25   \* gen_random_string(25) in authUser
SaltLength    == 30   \* gen_random_string(30) in createUser

Token == [sec : Nat, offset : Nat]
ServerSession == [session : Token, user_id : Users, end_date : Nat]

ASSUME ConstantsAssumption ==
    /\ None \notin Token
    /\ Owner \in [Channels -> Users]
    /\ TTL \in Nat \ {0} /\ MaxTime \in Nat
    /\ MaxRequests \in Nat /\ MaxFaults \in Nat

VARIABLES
    now,             \* the clock, in seconds
    rng,             \* the generator: its seed, and the characters drawn since
    server_session,  \* the table
    held,            \* the session each user's app holds
    handler,         \* the handler running on each channel, or None
    requests,        \* number of requests begun
    faults,          \* number of calls that failed
    seeds,           \* history: the seconds in which the generator was seeded
    crowded,         \* history: those in which it was seeded more than once
    closed           \* history: sessions ended by a logout no request was racing

bounds    == <<requests, faults>>
generator == <<rng, seeds, crowded>>
vars == <<now, rng, server_session, held, handler, requests, faults, seeds, crowded, closed>>

Kinds == {"auth", "register", "logout", "use"}
Texts == {"none", "welcome", "refused", "wrong", "done"}
Steps == {"check", "touch", "whose", "verify", "seed", "draw", "create", "end", "serve", "reply"}

(* The locals of a handler: sid is the session the request names, user the *)
(* user_id of its session_info, vouched whether checkSession put it there, *)
(* new the id drawn for a session or a salt.                               *)
Locals == [kind : Kinds, pc : Steps, sid : Token \cup {None}, user : Users, vouched : BOOLEAN,
           new : Token \cup {None}, text : Texts]

(* An id is drawn before it is used.                                       *)
Handler ==
    {h \in Locals :
        /\ h.pc = "end" => h.kind = "logout"
        /\ h.pc = "create" => h.new # None}

TypeOK ==
    /\ now \in 0 .. MaxTime
    /\ rng \in Token
    /\ server_session \subseteq ServerSession
    /\ held \in [Users -> Token \cup {None}]
    /\ handler \in [Channels -> Handler \cup {None}]
    /\ requests \in 0 .. MaxRequests
    /\ faults \in 0 .. MaxFaults
    /\ crowded \subseteq seeds /\ seeds \subseteq 0 .. now
    /\ closed \subseteq Token

At(c, step) == handler[c] # None /\ handler[c].pc = step

Goto(c, h, step) == handler' = [handler EXCEPT ![c] = [h EXCEPT !.pc = step]]

Answer(c, text) ==
    handler' = [handler EXCEPT ![c] = [handler[c] EXCEPT !.pc = "reply", !.text = text]]

NoFault == UNCHANGED faults
Fault   == faults < MaxFaults /\ faults' = faults + 1

-----------------------------------------------------------------------------
(* The statements of SessionPostgresInfo.                                  *)

Rows(sid) == {r \in server_session : r.session = sid}

(* SELECT ... WHERE session = $1 AND end_date > NOW()                      *)
Good(sid) == \E r \in Rows(sid) : r.end_date > now

(* UPDATE server_session SET end_date = ... WHERE session = $1             *)
WithEndDate(sid, time) ==
    {IF r.session = sid THEN [r EXCEPT !.end_date = time] ELSE r : r \in server_session}

(* Mutant: the lifetime is subtracted.                                     *)
BackdatedRow(sid, user) == [session |-> sid, user_id |-> user, end_date |-> now - TTL]

NewRow(sid, user) == [session |-> sid, user_id |-> user, end_date |-> now + TTL]

(* The first call of a handler once checkSession is through.               *)
Dispatch(kind) ==
    CASE kind \in {"auth", "register"} -> "verify"
      [] kind = "logout" -> "end"
      [] kind = "use" -> "serve"

-----------------------------------------------------------------------------
Init ==
    /\ now = 0
    /\ rng = [sec |-> 0, offset |-> 0]
    /\ server_session = {}
    /\ held = [u \in Users |-> None]
    /\ handler = [c \in Channels |-> None]
    /\ requests = 0
    /\ faults = 0
    /\ seeds = {}
    /\ crowded = {}
    /\ closed = {}

(* A request arrives, with the session its app holds or with an id that is *)
(* not stored, and with any user in its session_info.  A login may leave   *)
(* the session_info out.                                                   *)
Receive(c) ==
    /\ handler[c] = None
    /\ requests < MaxRequests
    /\ requests' = requests + 1
    /\ \E kind \in Kinds, sid \in {held[Owner[c]], None}, user \in Users :
          handler' = [handler EXCEPT ![c] =
              [kind |-> kind, pc |-> "check", sid |-> sid, user |-> user, vouched |-> FALSE,
               new |-> None, text |-> "none"]]
    /\ UNCHANGED <<now, generator, server_session, held, faults, closed>>

-----------------------------------------------------------------------------
(* checkSession: a session that is over, or was never stored, is no error; *)
(* the request goes on with the session_info it carries.                   *)

(* Mutant: the query forgets end_date.                                     *)
CheckStored(c) ==
    /\ At(c, "check")
    /\ LET h == handler[c] IN
       \/ Rows(h.sid) # {} /\ NoFault /\ Goto(c, h, "touch")
       \/ Rows(h.sid) = {} /\ NoFault /\ Goto(c, h, Dispatch(h.kind))
       \/ Fault /\ Answer(c, "wrong")
    /\ UNCHANGED <<now, generator, server_session, held, requests, closed>>

Check(c) ==
    /\ At(c, "check")
    /\ LET h == handler[c] IN
       \/ Good(h.sid) /\ NoFault /\ Goto(c, h, "touch")
       \/ ~Good(h.sid) /\ NoFault /\ Goto(c, h, Dispatch(h.kind))
       \/ Fault /\ Answer(c, "wrong")
    /\ UNCHANGED <<now, generator, server_session, held, requests, closed>>

(* updateSession does not look at end_date again.                          *)
Touch(c) ==
    /\ At(c, "touch")
    /\ LET h == handler[c] IN
       \/ /\ server_session' = WithEndDate(h.sid, now + TTL)
          /\ \/ NoFault /\ Goto(c, h, "whose")
             \/ Fault /\ Answer(c, "wrong")
       \/ Fault /\ Answer(c, "wrong") /\ UNCHANGED server_session
    /\ UNCHANGED <<now, generator, held, requests, closed>>

(* Mutant: the session_info that was looked up is not put into the request.*)
WhoseAsNamed(c) ==
    /\ At(c, "whose")
    /\ LET h == handler[c] IN
       \/ /\ NoFault
          /\ Rows(h.sid) # {}
          /\ Goto(c, [h EXCEPT !.vouched = TRUE], Dispatch(h.kind))
       \/ NoFault /\ Rows(h.sid) = {} /\ Answer(c, "wrong")
       \/ Fault /\ Answer(c, "wrong")
    /\ UNCHANGED <<now, generator, server_session, held, requests, closed>>

(* getUserBySession: from here on the request is the session owner's.      *)
Whose(c) ==
    /\ At(c, "whose")
    /\ LET h == handler[c] IN
       \/ /\ NoFault
          /\ \E r \in Rows(h.sid) :
                Goto(c, [h EXCEPT !.user = r.user_id, !.vouched = TRUE], Dispatch(h.kind))
       \/ NoFault /\ Rows(h.sid) = {} /\ Answer(c, "wrong")
       \/ Fault /\ Answer(c, "wrong")
    /\ UNCHANGED <<now, generator, server_session, held, requests, closed>>

-----------------------------------------------------------------------------
(* authUser and createUser                                                 *)

(* isUserExist; for a login also getUserByLogin and the comparison of the  *)
(* passwords.                                                              *)
Verify(c) ==
    /\ At(c, "verify")
    /\ \/ NoFault /\ Goto(c, handler[c], "seed")
       \/ NoFault /\ Answer(c, "refused")
       \/ Fault /\ Answer(c, "wrong")
    /\ UNCHANGED <<now, generator, server_session, held, requests, closed>>

(* Mutant: the generator keeps the seed it has when the server starts.     *)
SeedMissing(c) ==
    /\ At(c, "seed")
    /\ seeds' = seeds \cup {now}
    /\ crowded' = crowded \cup (seeds \cap {now})
    /\ Goto(c, handler[c], "draw")
    /\ UNCHANGED <<now, rng, server_session, held, bounds, closed>>

(* srand(time(NULL))                                                       *)
Seed(c) ==
    /\ At(c, "seed")
    /\ rng' = [sec |-> now, offset |-> 0]
    /\ seeds' = seeds \cup {now}
    /\ crowded' = crowded \cup (seeds \cap {now})
    /\ Goto(c, handler[c], "draw")
    /\ UNCHANGED <<now, server_session, held, bounds, closed>>

(* The loop over rand(); of a registration only the salt matters here.     *)
Draw(c) ==
    /\ At(c, "draw")
    /\ LET h == [handler[c] EXCEPT !.new = rng] IN
       IF h.kind = "auth"
       THEN rng' = [rng EXCEPT !.offset = @ + SessionLength] /\ Goto(c, h, "create")
       ELSE rng' = [rng EXCEPT !.offset = @ + SaltLength] /\ Goto(c, [h EXCEPT !.text = "done"], "reply")
    /\ UNCHANGED <<now, server_session, held, bounds, seeds, crowded, closed>>

(* createSession, whose result is ignored: session is the primary key.     *)
Create(c) ==
    /\ At(c, "create")
    /\ LET h == handler[c] IN
       \/ /\ Rows(h.new) = {}
          /\ server_session' = server_session \cup {NewRow(h.new, Owner[c])}
          /\ NoFault \/ Fault
       \/ /\ IF Rows(h.new) = {} THEN Fault ELSE NoFault
          /\ UNCHANGED server_session
    /\ Answer(c, "welcome")
    /\ UNCHANGED <<now, generator, held, requests, closed>>

-----------------------------------------------------------------------------
(* updateSessionToNow.  Another request of the session may have passed its *)
(* check and not yet prolonged it.                                         *)
Racing(sid) == \E d \in Channels : At(d, "touch") /\ handler[d].sid = sid
End(c) ==
    /\ At(c, "end")
    /\ LET h == handler[c] IN
       \/ /\ server_session' = WithEndDate(h.sid, now)
          /\ closed' = IF Racing(h.sid) THEN closed ELSE closed \cup ({h.sid} \ {None})
          /\ \/ NoFault /\ Answer(c, "done")
             \/ Fault /\ Answer(c, "wrong")
       \/ Fault /\ Answer(c, "wrong") /\ UNCHANGED <<server_session, closed>>
    /\ UNCHANGED <<now, generator, held, requests>>

(* Any other handler works for the user the request now stands for.        *)
Use(c) ==
    /\ At(c, "serve")
    /\ Answer(c, "done")
    /\ UNCHANGED <<now, generator, server_session, held, bounds, closed>>

(* The response: after "Welcome!" the app holds the new session, unless    *)
(* its connection broke and the response is lost.                          *)
Reply(c) ==
    /\ At(c, "reply")
    /\ \/ /\ handler[c].text = "welcome"
          /\ held' = [held EXCEPT ![Owner[c]] = handler[c].new]
       \/ UNCHANGED held
    /\ handler' = [handler EXCEPT ![c] = None]
    /\ UNCHANGED <<now, generator, server_session, bounds, closed>>

-----------------------------------------------------------------------------
Tick ==
    /\ now < MaxTime
    /\ now' = now + 1
    /\ UNCHANGED <<generator, server_session, held, handler, bounds, closed>>

(* The server ends: its handlers and its generator are gone.               *)
Crash ==
    /\ \E c \in Channels : handler[c] # None
    /\ handler' = [c \in Channels |-> None]
    /\ rng' = [sec |-> 0, offset |-> 0]
    /\ UNCHANGED <<now, server_session, held, bounds, seeds, crowded, closed>>

Call(c) ==
    \/ Check(c) \/ Touch(c) \/ Whose(c) \/ Verify(c) \/ Seed(c) \/ Draw(c)
    \/ Create(c) \/ End(c) \/ Use(c) \/ Reply(c)

Next == (\E c \in Channels : Receive(c) \/ Call(c)) \/ Tick \/ Crash

Spec == Init /\ [][Next]_vars

-----------------------------------------------------------------------------
(* Properties                                                              *)

(* A request whose session checkSession found running is served for its    *)
(* sender, whatever user it names, unless the id was drawn in a second in  *)
(* which the generator was seeded more than once: nothing else gives it to *)
(* another user, whatever calls fail and however seeding, drawing and      *)
(* inserting interleave.                                                   *)
MixedUp(c) == handler[c] # None /\ handler[c].vouched /\ handler[c].user # Owner[c]
MixedUpOnlyIfCrowded ==
    \A c \in Channels : MixedUp(c) => handler[c].sid.sec \in crowded

(* Why: the ids a user's rows, app and handlers know are known to no other *)
(* user, unless they were drawn in a crowded second ...                    *)
TokensOf(u) ==
    {r.session : r \in {q \in server_session : q.user_id = u}}
    \cup {held[u]}
    \cup UNION {{handler[c].sid, handler[c].new} :
                  c \in {d \in Channels : Owner[d] = u /\ handler[d] # None}}
SessionsApart ==
    \A u, v \in Users : \A t \in (TokensOf(u) \cap TokensOf(v)) \ {None} :
        u = v \/ t.sec \in crowded

(* ... since what is about to be drawn was seeded and, unless that second  *)
(* is crowded, lies beyond everything drawn from the same seed.            *)
GeneratorAhead ==
    /\ \A u \in Users : \A t \in TokensOf(u) \ {None} : t.sec \in seeds
    /\ (\E c \in Channels : At(c, "draw")) =>
          /\ rng.sec \in seeds
          /\ \/ rng.sec \in crowded
             \/ \A u \in Users : \A t \in TokensOf(u) \ {None} :
                    t.sec = rng.sec => t.offset < rng.offset

(* A session that a logout ended never runs again, whatever its app's      *)
(* other channels do, unless a request was between check and updateSession *)
(* at that moment or its id was drawn in a crowded second.                 *)
LogoutIsFinal ==
    \A sid \in closed : Good(sid) => sid.sec \in crowded

(* Whoever is told "Welcome!" has a session of his own.                    *)
WelcomeHasSession ==
    \A c \in Channels :
        At(c, "reply") /\ handler[c].text = "welcome" =>
            \E r \in Rows(handler[c].new) : r.user_id = Owner[c]

(* He has, unless a call failed or the generator was seeded more than once *)
(* in the second his id is from: createSession's result is ignored, but    *)
(* nothing else makes the insert fail.                                     *)
WelcomeUnlessDisturbed ==
    \A c \in Channels :
        At(c, "reply") /\ handler[c].text = "welcome" =>
            \/ \E r \in Rows(handler[c].new) : r.user_id = Owner[c]
            \/ faults > 0
            \/ handler[c].new.sec \in crowded
=============================================================================

--------------------------- MODULE ResponsesProofs ---------------------------
(* Why an app that waits for its answers gets them whole and in order: of    *)
(* such an app at most one request is under way, and it is in one place.     *)
EXTENDS TransportProofs

Serves(t, c) == At(t, "serve") /\ thread[t].on = c
Asks(c)   == \E i \in DOMAIN inbox[c] : inbox[c][i].size = 1
Served(c) == \E t \in Threads : Serves(t, c)
Latest(c)   == wire[c][Len(wire[c])]

(* A length that was read belongs to the message at the head of the inbox.  *)
Sized(c) ==
    /\ op[c] = "read" /\ nextMsgSize_[c] # 0 => inbox[c] # <<>> /\ Head(inbox[c]).size = 1
    /\ c \notin sessions_ \/ op[c] = "handshake" => nextMsgSize_[c] = 0

(* What has been sent to an app answers a request of its.                   *)
Named(c) ==
    \A i \in DOMAIN wire[c] :
        wire[c][i].no \in 1 .. asked[c] /\ wire[c][i].head = MakeBuffer(wire[c][i].size)

(* The wire ends with the answer to the request before the last one.        *)
Before(c) == wire[c] # <<>> => Latest(c).part = Latest(c).size /\ Latest(c).no + 1 = asked[c]

(* The last request is in one place at most.                                *)
OnePlace(c) ==
    /\ \A i, k \in DOMAIN inbox[c] :
          inbox[c][i].size = 1 /\ inbox[c][k].size = 1 => i = k
    /\ Asks(c) => ~ Served(c) /\ writes[c] = <<>>
    /\ Served(c) => writes[c] = <<>>
    /\ Len(writes[c]) <= 1
    /\ Satisfied(c) => ~ Asks(c) /\ ~ Served(c) /\ writes[c] = <<>>

(* Wherever it is, it is the last one, and the wire is ready for its answer *)
(* or for what is left of it.                                               *)
InTurn(c) ==
    /\ \A i \in DOMAIN inbox[c] :
          inbox[c][i].size = 1 => inbox[c][i].no = asked[c] /\ asked[c] > 0 /\ Before(c)
    /\ \A t \in Threads : Serves(t, c) => thread[t].no = asked[c] /\ asked[c] > 0 /\ Before(c)
    /\ writes[c] # <<>> =>
          /\ writes[c][1].no = asked[c] /\ asked[c] > 0
          /\ writes[c][1].part \in 1 .. writes[c][1].size
          /\ IF writes[c][1].part = 1 THEN Before(c)
             ELSE /\ wire[c] # <<>>
                  /\ Latest(c).no = asked[c]
                  /\ Latest(c).size = writes[c][1].size
                  /\ Latest(c).part + 1 = writes[c][1].part

Whole(c) == \A i \in 1 .. Len(wire[c]) - 1 : Follows(wire[c][i], wire[c][i + 1])

Lined(c) == c \notin eager => Named(c) /\ OnePlace(c) /\ InTurn(c) /\ Whole(c)
Turns    == \A c \in Channels : Sized(c) /\ Lined(c)

-----------------------------------------------------------------------------
(* Sequences.                                                               *)

LEMMA RemoveOnly ==
    ASSUME NEW S, NEW s \in Seq(S), Len(s) = 1
    PROVE  RemoveAt(s, 1) = <<>>
<1>1. SubSeq(s, 1, 0) = <<>> /\ SubSeq(s, 2, 1) = <<>>
  OBVIOUS
<1> QED
  BY <1>1 DEF RemoveAt

LEMMA TailFrames ==
    ASSUME NEW S, NEW s \in Seq(S), s # <<>>
    PROVE  /\ Len(s) \in Nat \ {0} /\ 1 \in DOMAIN s /\ Head(s) = s[1]
           /\ \A i \in DOMAIN Tail(s) : i + 1 \in DOMAIN s /\ i + 1 # 1 /\ Tail(s)[i] = s[i + 1]
OBVIOUS

LEMMA AppendFrames ==
    ASSUME NEW S, NEW s \in Seq(S), NEW e
    PROVE  /\ Len(s) \in Nat
           /\ DOMAIN s = 1 .. Len(s)
           /\ DOMAIN Append(s, e) = 1 .. Len(s) + 1
           /\ Len(Append(s, e)) = Len(s) + 1
           /\ \A i \in DOMAIN s : Append(s, e)[i] = s[i]
           /\ Append(s, e)[Len(s) + 1] = e
           /\ Append(s, e) # <<>>
OBVIOUS

-----------------------------------------------------------------------------
(* Steps that leave the line of a channel as it is.                         *)

LEMMA SameLine ==
    ASSUME NEW c \in Channels, Lined(c), c \in eager => c \in eager',
           inbox'[c] = inbox[c], writes'[c] = writes[c], wire'[c] = wire[c], asked'[c] = asked[c],
           \A t \in Threads : Serves(t, c)' => Serves(t, c) /\ thread'[t].no = thread[t].no,
           Served(c)' = Served(c)
    PROVE  Lined(c)'
<1> SUFFICES ASSUME c \notin eager' PROVE (Named(c) /\ OnePlace(c) /\ InTurn(c) /\ Whole(c))'
  BY DEF Lined
<1>1. Named(c) /\ OnePlace(c) /\ InTurn(c) /\ Whole(c)
  BY DEF Lined
<1>2. Named(c)' /\ Whole(c)'
  BY <1>1 DEF Named, Whole
<1>3. Asks(c)' = Asks(c) /\ Satisfied(c)' = Satisfied(c) /\ Before(c)' = Before(c)
      /\ Latest(c)' = Latest(c)
  BY DEF Asks, Satisfied, Answered, Before, Latest
<1>4. OnePlace(c)'
  BY <1>1, <1>3 DEF OnePlace
<1>5. InTurn(c)'
  BY <1>1, <1>3 DEF InTurn
<1> QED
  BY <1>2, <1>4, <1>5

(* The same, when no thread serves another channel than before.             *)
LEMMA SameThreads ==
    ASSUME NEW c \in Channels, UNCHANGED thread
    PROVE  /\ \A t \in Threads : Serves(t, c)' => Serves(t, c) /\ thread'[t].no = thread[t].no
           /\ Served(c)' = Served(c)
BY DEF Serves, Served, At

-----------------------------------------------------------------------------
(* The steps that move the last request on.                                 *)

(* Only one unit answers the last request in full, and it is the latest.    *)
LEMMA SatisfiedBefore ==
    ASSUME TypeOK, NEW c \in Channels, Named(c), Whole(c), Satisfied(c), wire[c] # <<>>
    PROVE  Latest(c).part = Latest(c).size /\ Latest(c).no = asked[c]
<1>1. /\ wire[c] \in Seq(Unit) /\ asked[c] \in Nat
      /\ Len(wire[c]) \in DOMAIN wire[c] /\ DOMAIN wire[c] = 1 .. Len(wire[c])
  BY DEF TypeOK
<1>2. asked[c] # 0
  BY <1>1 DEF Named
<1>3. PICK i \in DOMAIN wire[c] : wire[c][i].no = asked[c] /\ wire[c][i].part = wire[c][i].size
  BY <1>2 DEF Satisfied, Answered
<1>4. ASSUME i # Len(wire[c]) PROVE FALSE
  <2>1. i \in 1 .. Len(wire[c]) - 1 /\ i + 1 \in DOMAIN wire[c]
    BY <1>1, <1>4
  <2>2. wire[c][i] \in Unit /\ wire[c][i + 1] \in Unit
    BY <1>1, <2>1, ElementOfSeq
  <2>3. wire[c][i + 1].no = asked[c] + 1
    <3>1. Follows(wire[c][i], wire[c][i + 1])
      BY <2>1 DEF Whole
    <3>2. ~ (wire[c][i].part < wire[c][i].size)
      BY <1>3, <2>2 DEF Unit
    <3> QED
      BY <1>3, <3>1, <3>2 DEF Follows
  <2> QED
    BY <1>1, <2>1, <2>3 DEF Named
<1> QED
  BY <1>3, <1>4 DEF Latest

LEMMA SendRequestLine ==
    ASSUME TypeOK, NEW c \in Channels, Lined(c), SendRequest(c)
    PROVE  Lined(c)'
<1> SUFFICES ASSUME c \notin eager' PROVE (Named(c) /\ OnePlace(c) /\ InTurn(c) /\ Whole(c))'
  BY DEF Lined
<1> DEFINE f == [no |-> asked[c] + 1, size |-> 1]
<1>1. Satisfied(c) /\ Named(c) /\ OnePlace(c) /\ InTurn(c) /\ Whole(c)
  BY DEF SendRequest, Lined
<1>2. /\ ~ Asks(c) /\ ~ Served(c) /\ writes[c] = <<>>
  BY <1>1 DEF OnePlace
<1>3. /\ inbox[c] \in Seq(Frame) /\ asked[c] \in Nat /\ wire[c] \in Seq(Unit)
      /\ inbox'[c] = Append(inbox[c], f) /\ asked'[c] = asked[c] + 1
      /\ writes'[c] = <<>> /\ wire'[c] = wire[c] /\ UNCHANGED thread
  BY <1>2 DEF SendRequest, TypeOK
<1>4. /\ \A i \in DOMAIN inbox'[c] :
            inbox'[c][i].size = 1 => i = Len(inbox[c]) + 1 /\ inbox'[c][i] = f
      /\ f.size = 1 /\ f.no = asked[c] + 1
  <2>1. \A i \in DOMAIN inbox[c] : inbox[c][i].size # 1
    BY <1>2 DEF Asks
  <2> QED
    BY <1>3, <2>1, AppendFrames
<1>5. ~ Served(c)' /\ \A t \in Threads : ~ Serves(t, c)'
  BY <1>2, <1>3, SameThreads DEF Served
<1>6. ~ Satisfied(c)'
  <2>1. \A i \in DOMAIN wire[c] : wire[c][i].no # asked[c] + 1
    BY <1>1, <1>3 DEF Named
  <2> QED
    BY <1>3, <2>1 DEF Satisfied, Answered
<1>7. Before(c)'
  BY <1>1, <1>3, SatisfiedBefore DEF Before, Latest
<1>8. Named(c)' /\ Whole(c)'
  <2>1. \A i \in DOMAIN wire[c] : wire[c][i].no \in 1 .. asked[c] + 1
    BY <1>1, <1>3 DEF Named
  <2> QED
    BY <1>1, <1>3, <2>1 DEF Named, Whole
<1>9. OnePlace(c)'
  BY <1>3, <1>4, <1>5, <1>6 DEF OnePlace
<1>10. InTurn(c)'
  BY <1>3, <1>4, <1>5, <1>7 DEF InTurn
<1> QED
  BY <1>8, <1>9, <1>10

LEMMA SendEmptyLine ==
    ASSUME TypeOK, NEW c \in Channels, Lined(c), SendEmpty(c)
    PROVE  Lined(c)'
<1> SUFFICES ASSUME c \notin eager' PROVE (Named(c) /\ OnePlace(c) /\ InTurn(c) /\ Whole(c))'
  BY DEF Lined
<1> DEFINE f == [no |-> 0, size |-> 0]
<1>1. Named(c) /\ OnePlace(c) /\ InTurn(c) /\ Whole(c)
  BY DEF SendEmpty, Lined
<1>2. /\ inbox[c] \in Seq(Frame) /\ inbox'[c] = Append(inbox[c], f)
      /\ UNCHANGED <<asked, writes, wire, thread>>
  BY DEF SendEmpty, TypeOK
<1>3. /\ \A i \in DOMAIN inbox'[c] :
            inbox'[c][i].size = 1 => i \in DOMAIN inbox[c] /\ inbox'[c][i] = inbox[c][i]
      /\ Asks(c)' => Asks(c)
  <2>1. f.size # 1
    OBVIOUS
  <2>2. \A i \in DOMAIN inbox'[c] :
            inbox'[c][i].size = 1 => i \in DOMAIN inbox[c] /\ inbox'[c][i] = inbox[c][i]
    BY <1>2, <2>1, AppendFrames
  <2> QED
    BY <2>2 DEF Asks
<1>4. /\ Served(c)' = Served(c) /\ Satisfied(c)' = Satisfied(c) /\ Before(c)' = Before(c)
      /\ Latest(c)' = Latest(c) /\ \A t \in Threads : Serves(t, c)' = Serves(t, c)
  BY <1>2 DEF Served, Serves, At, Satisfied, Answered, Before, Latest
<1>5. Named(c)' /\ Whole(c)'
  BY <1>1, <1>2 DEF Named, Whole
<1>6. OnePlace(c)'
  BY <1>1, <1>2, <1>3, <1>4 DEF OnePlace
<1>7. InTurn(c)'
  BY <1>1, <1>2, <1>3, <1>4 DEF InTurn
<1> QED
  BY <1>5, <1>6, <1>7

(* The head of the inbox is taken: by no one, or an empty message.          *)
LEMMA TakenLine ==
    ASSUME TypeOK, NEW c \in Channels, Lined(c), inbox[c] # <<>>,
           inbox'[c] = Tail(inbox[c]), UNCHANGED <<asked, writes, wire, thread, eager>>
    PROVE  Lined(c)'
<1> SUFFICES ASSUME c \notin eager' PROVE (Named(c) /\ OnePlace(c) /\ InTurn(c) /\ Whole(c))'
  BY DEF Lined
<1>1. Named(c) /\ OnePlace(c) /\ InTurn(c) /\ Whole(c)
  BY DEF Lined
<1>2. \A i \in DOMAIN inbox'[c] :
         i \in Int /\ i + 1 \in DOMAIN inbox[c] /\ inbox'[c][i] = inbox[c][i + 1]
  <2>1. inbox[c] \in Seq(Frame)
    BY DEF TypeOK
  <2> QED
    BY <2>1, TailFrames
<1>3. Asks(c)' => Asks(c)
  BY <1>2 DEF Asks
<1>4. /\ Served(c)' = Served(c) /\ Satisfied(c)' = Satisfied(c) /\ Before(c)' = Before(c)
      /\ Latest(c)' = Latest(c) /\ \A t \in Threads : Serves(t, c)' = Serves(t, c)
  BY DEF Served, Serves, At, Satisfied, Answered, Before, Latest
<1>5. Named(c)' /\ Whole(c)'
  BY <1>1 DEF Named, Whole
<1>6. OnePlace(c)'
  <2>1. \A i, k \in DOMAIN inbox'[c] :
           inbox'[c][i].size = 1 /\ inbox'[c][k].size = 1 => i + 1 = k + 1
    BY <1>1, <1>2 DEF OnePlace
  <2>2. \A i, k \in DOMAIN inbox'[c] :
           inbox'[c][i].size = 1 /\ inbox'[c][k].size = 1 => i = k
    BY <1>2, <2>1
  <2> QED
    BY <1>1, <1>3, <1>4, <2>2 DEF OnePlace
<1>7. InTurn(c)'
  BY <1>1, <1>2, <1>4 DEF InTurn
<1> QED
  BY <1>5, <1>6, <1>7

LEMMA ReadLine ==
    ASSUME IInv, NEW t \in Threads, NEW c \in Channels, Sized(c), Lined(c), Read(t, c)
    PROVE  Lined(c)'
<1> SUFFICES ASSUME c \notin eager' PROVE (Named(c) /\ OnePlace(c) /\ InTurn(c) /\ Whole(c))'
  BY DEF Lined
<1>1. Named(c) /\ OnePlace(c) /\ InTurn(c) /\ Whole(c)
  BY DEF Read, Lined
<1>2. /\ TypeOK /\ inbox[c] \in Seq(Frame) /\ inbox[c] # <<>> /\ Head(inbox[c]).size = 1
      /\ inbox'[c] = Tail(inbox[c]) /\ UNCHANGED <<asked, writes, wire>>
  BY DEF IInv, TypeOK, Read, Arrived, Sized
<1>3. /\ 1 \in DOMAIN inbox[c] /\ inbox[c][1].size = 1 /\ Head(inbox[c]) = inbox[c][1]
      /\ \A i \in DOMAIN inbox'[c] :
            i + 1 \in DOMAIN inbox[c] /\ i + 1 # 1 /\ inbox'[c][i] = inbox[c][i + 1]
  BY <1>2, TailFrames
<1>4. Asks(c) /\ ~ Served(c) /\ writes[c] = <<>> /\ ~ Satisfied(c)
  BY <1>1, <1>3 DEF Asks, OnePlace
<1>5. Head(inbox[c]).no = asked[c] /\ asked[c] > 0 /\ Before(c)
  BY <1>1, <1>3 DEF InTurn
<1>6. ~ Asks(c)' /\ \A i \in DOMAIN inbox'[c] : inbox'[c][i].size # 1
  <2>1. \A i \in DOMAIN inbox'[c] : inbox'[c][i].size # 1
    BY <1>1, <1>3 DEF OnePlace
  <2> QED
    BY <2>1 DEF Asks
<1>7. /\ thread'[t].no = asked[c]
      /\ \A u \in Threads \ {t} : thread'[u] = thread[u]
  BY <1>2, <1>5 DEF Read, Go, TypeOK
<1>8. \A u \in Threads : Serves(u, c)' => u = t
  BY <1>4, <1>7 DEF Served, Serves, At
<1>9. Satisfied(c)' = Satisfied(c) /\ Before(c)' = Before(c) /\ Latest(c)' = Latest(c)
  BY <1>2 DEF Satisfied, Answered, Before, Latest
<1>10. Named(c)' /\ Whole(c)'
  BY <1>1, <1>2 DEF Named, Whole
<1>11. OnePlace(c)'
  <2>1. Len(writes'[c]) <= 1
    BY <1>1, <1>2 DEF OnePlace
  <2> QED
    BY <1>2, <1>4, <1>6, <1>9, <2>1 DEF OnePlace
<1>12. InTurn(c)'
  BY <1>2, <1>4, <1>5, <1>6, <1>7, <1>8, <1>9 DEF InTurn
<1> QED
  BY <1>10, <1>11, <1>12

LEMMA RespondLine ==
    ASSUME IInv, NEW t \in Threads, NEW c \in Channels, thread[t].on = c, Lined(c), Respond(t)
    PROVE  Lined(c)'
<1> SUFFICES ASSUME c \notin eager' PROVE (Named(c) /\ OnePlace(c) /\ InTurn(c) /\ Whole(c))'
  BY DEF Lined
<1>1. Named(c) /\ OnePlace(c) /\ InTurn(c) /\ Whole(c)
  BY DEF Respond, Lined
<1>2. TypeOK /\ Serves(t, c) /\ Served(c)
  BY DEF IInv, Respond, Serves, Served
<1>3. ~ Asks(c) /\ writes[c] = <<>> /\ ~ Satisfied(c)
  BY <1>1, <1>2 DEF OnePlace
<1>4. thread[t].no = asked[c] /\ asked[c] > 0 /\ Before(c)
  BY <1>1, <1>2 DEF InTurn
<1>5. UNCHANGED <<asked, wire, inbox>>
  BY DEF Respond
<1>6. PICK s \in Sizes : writes'[c] = <<[no |-> asked[c], size |-> s, part |-> 1]>>
  BY <1>2, <1>3, <1>4 DEF Respond, TypeOK
<1>7. /\ Len(writes'[c]) = 1 /\ writes'[c] # <<>>
      /\ writes'[c][1].no = asked[c] /\ writes'[c][1].part = 1 /\ 1 \in 1 .. writes'[c][1].size
  BY <1>6, ConstantsAssumption
<1>8. ~ Served(c)' /\ \A u \in Threads : ~ Serves(u, c)'
  <2>1. thread'[t].at = "idle" /\ \A u \in Threads \ {t} : thread'[u] = thread[u]
    BY <1>2, MovedToIdle DEF Respond
  <2>2. \A u \in Threads : Serves(u, c) => u = t
    BY <1>2 DEF IInv, Alone, Serves, At
  <2> QED
    BY <2>1, <2>2 DEF Served, Serves, At
<1>9. /\ Asks(c)' = Asks(c) /\ Satisfied(c)' = Satisfied(c) /\ Before(c)' = Before(c)
      /\ \A i \in DOMAIN inbox'[c] : inbox'[c][i].size # 1
  BY <1>3, <1>5 DEF Asks, Satisfied, Answered, Before, Latest
<1>10. Named(c)' /\ Whole(c)'
  BY <1>1, <1>5 DEF Named, Whole
<1>11. OnePlace(c)'
  BY <1>3, <1>7, <1>8, <1>9 DEF OnePlace
<1>12. InTurn(c)'
  BY <1>4, <1>5, <1>7, <1>8, <1>9 DEF InTurn
<1> QED
  BY <1>10, <1>11, <1>12

(* What a write adds to the wire, or drops because the app has left.        *)
LEMMA WriteLine ==
    ASSUME IInv, NEW c \in Channels, Lined(c), NEW i \in DOMAIN writes[c], WriteUnit(c, i)
    PROVE  Lined(c)'
<1> SUFFICES ASSUME c \notin eager' PROVE (Named(c) /\ OnePlace(c) /\ InTurn(c) /\ Whole(c))'
  BY DEF Lined
<1> DEFINE w == writes[c][1]
<1> DEFINE unit == [no |-> w.no, size |-> w.size, part |-> w.part, head |-> MakeBuffer(w.size)]
<1>1. Named(c) /\ OnePlace(c) /\ InTurn(c) /\ Whole(c)
  BY DEF WriteUnit, Lined
<1>2. /\ TypeOK /\ writes[c] \in Seq(InFlight) /\ wire[c] \in Seq(Unit) /\ asked[c] \in Nat
      /\ UNCHANGED <<asked, inbox, thread>>
  BY DEF IInv, TypeOK, WriteUnit
<1>3. i = 1 /\ Len(writes[c]) = 1 /\ writes[c] # <<>> /\ w \in InFlight
  <2>1. Len(writes[c]) <= 1 /\ Len(writes[c]) \in Nat /\ i \in 1 .. Len(writes[c])
    BY <1>1, <1>2, LenProperties DEF OnePlace
  <2>2. i = 1 /\ Len(writes[c]) = 1
    <3>1. \A n \in Nat : n <= 1 => \A k \in 1 .. n : k = 1 /\ n = 1
      OBVIOUS
    <3> QED
      BY <2>1, <3>1
  <2> QED
    BY <1>2, <2>2, ElementOfSeq, EmptySeq
<1>4. ~ Asks(c) /\ ~ Served(c) /\ ~ Satisfied(c)
  BY <1>1, <1>3 DEF OnePlace
<1>5. /\ w.no = asked[c] /\ asked[c] > 0 /\ w.part \in 1 .. w.size
      /\ w.part \in Nat /\ w.size \in Nat
  BY <1>1, <1>2, <1>3 DEF InTurn, InFlight
<1>6. /\ ~ Asks(c)' /\ ~ Served(c)' /\ \A t \in Threads : ~ Serves(t, c)'
      /\ \A k \in DOMAIN inbox'[c] : inbox'[c][k].size # 1
  BY <1>2, <1>4 DEF Asks, Served, Serves, At
<1>7. CASE c \in gone
  <2>1. writes'[c] = <<>> /\ wire' = wire
    BY <1>2, <1>3, <1>7, RemoveOnly DEF WriteUnit, TypeOK
  <2>2. Named(c)' /\ Whole(c)'
    BY <1>1, <1>2, <2>1 DEF Named, Whole
  <2>3. OnePlace(c)' /\ InTurn(c)'
    BY <1>6, <2>1 DEF OnePlace, InTurn
  <2> QED
    BY <2>2, <2>3
<1>8. CASE c \notin gone
  <2>1. wire'[c] = Append(wire[c], unit)
    BY <1>2, <1>3, <1>8 DEF WriteUnit, TypeOK
  <2>2. /\ Len(wire[c]) \in Nat /\ DOMAIN wire[c] = 1 .. Len(wire[c])
        /\ Len(wire'[c]) = Len(wire[c]) + 1 /\ DOMAIN wire'[c] = 1 .. Len(wire[c]) + 1
        /\ wire'[c][Len(wire[c]) + 1] = unit /\ wire'[c] # <<>>
        /\ \A k \in 1 .. Len(wire[c]) : wire'[c][k] = wire[c][k]
    BY <1>2, <2>1, AppendFrames
  <2>3. /\ unit.no = asked[c] /\ unit.size = w.size /\ unit.part = w.part
        /\ unit.head = MakeBuffer(unit.size)
    BY <1>5
  <2>4. Named(c)'
    <3>1. ASSUME NEW k \in DOMAIN wire'[c]
          PROVE  /\ wire'[c][k].no \in 1 .. asked[c]
                 /\ wire'[c][k].head = MakeBuffer(wire'[c][k].size)
      <4>1. CASE k \in 1 .. Len(wire[c])
        BY <1>1, <2>2, <4>1 DEF Named
      <4>2. CASE k = Len(wire[c]) + 1
        BY <1>2, <1>5, <2>2, <2>3, <4>2
      <4> QED
        BY <2>2, <4>1, <4>2
    <3> QED
      BY <1>2, <3>1 DEF Named, MakeBuffer
  <2>5. Whole(c)'
    <3>1. wire[c] # <<>> => Follows(Latest(c), unit)
      <4> SUFFICES ASSUME wire[c] # <<>> PROVE Follows(Latest(c), unit)
        OBVIOUS
      <4>0. Latest(c) \in Unit
        BY <1>2, <2>2, ElementOfSeq, EmptySeq DEF Latest
      <4>1. Latest(c).no \in Nat /\ Latest(c).size \in Nat /\ Latest(c).part \in Nat
        BY <4>0 DEF Unit
      <4>2. CASE w.part = 1
        <5>1. Latest(c).part = Latest(c).size /\ Latest(c).no + 1 = asked[c]
          BY <1>1, <1>3, <4>2 DEF InTurn, Before
        <5> QED
          BY <1>5, <2>3, <4>1, <4>2, <5>1 DEF Follows
      <4>3. CASE w.part # 1
        <5>1. Latest(c).no = asked[c] /\ Latest(c).size = w.size /\ Latest(c).part + 1 = w.part
          BY <1>1, <1>3, <4>3 DEF InTurn
        <5> QED
          BY <1>5, <2>3, <4>1, <5>1 DEF Follows
      <4> QED
        BY <4>2, <4>3
    <3>2. ASSUME NEW k \in 1 .. Len(wire'[c]) - 1 PROVE Follows(wire'[c][k], wire'[c][k + 1])
      <4>1. CASE k < Len(wire[c])
        BY <1>1, <2>2, <4>1 DEF Whole
      <4>2. CASE k = Len(wire[c])
        BY <1>2, <2>2, <3>1, <4>2 DEF Latest
      <4> QED
        BY <2>2, <4>1, <4>2
    <3> QED
      BY <3>2 DEF Whole
  <2>6. CASE w.part = w.size
    <3>1. writes'[c] = <<>>
      BY <1>2, <1>3, <1>8, <2>6, RemoveOnly DEF WriteUnit, TypeOK
    <3> QED
      BY <1>6, <2>4, <2>5, <3>1 DEF OnePlace, InTurn
  <2>7. CASE w.part # w.size
    <3>1. writes'[c] = [writes[c] EXCEPT ![1] = [w EXCEPT !.part = w.part + 1]]
      BY <1>2, <1>3, <1>8, <2>7 DEF WriteUnit, TypeOK
    <3>2. /\ Len(writes'[c]) = 1 /\ writes'[c] # <<>>
          /\ writes'[c][1] = [w EXCEPT !.part = w.part + 1]
      BY <1>2, <1>3, <3>1
    <3>3. /\ writes'[c][1].no = asked[c] /\ writes'[c][1].size = w.size
          /\ writes'[c][1].part = w.part + 1
      BY <1>3, <1>5, <3>2 DEF InFlight
    <3>4. ~ Satisfied(c)'
      BY <1>2, <1>4, <2>2, <2>3, <2>7 DEF Satisfied, Answered
    <3>5. Latest(c)' = unit
      BY <2>2 DEF Latest
    <3>6. OnePlace(c)'
      BY <1>6, <3>2, <3>4 DEF OnePlace
    <3>7. InTurn(c)'
      BY <1>2, <1>5, <1>6, <2>2, <2>3, <2>7, <3>3, <3>5 DEF InTurn
    <3> QED
      BY <2>4, <2>5, <3>6, <3>7
  <2> QED
    BY <2>6, <2>7
<1> QED
  BY <1>7, <1>8

-----------------------------------------------------------------------------
(* Every step.                                                              *)

LEMMA SizedStep ==
    ASSUME IInv, \A c \in Channels : Sized(c), [Next]_vars, NEW d \in Channels
    PROVE  Sized(d)'
<1>1. TypeOK /\ Kept /\ OnChannel /\ Sized(d)
  BY DEF IInv
<1>2. CASE UNCHANGED <<inbox, nextMsgSize_, op, sessions_>>
  BY <1>1, <1>2 DEF Sized
<1>3. ASSUME NEW c \in Channels, SendRequest(c) \/ SendEmpty(c) PROVE Sized(d)'
  <2>1. /\ UNCHANGED <<nextMsgSize_, op, sessions_>> /\ inbox[c] \in Seq(Frame)
        /\ \E f : inbox' = [inbox EXCEPT ![c] = Append(@, f)]
    BY <1>1, <1>3 DEF SendRequest, SendEmpty, server, TypeOK
  <2>2. inbox[d] # <<>> => inbox'[d] # <<>> /\ Head(inbox'[d]) = Head(inbox[d])
    <3>1. CASE d = c
      BY <1>1, <2>1, <3>1 DEF TypeOK
    <3>2. CASE d # c
      BY <1>1, <2>1, <3>2 DEF TypeOK
    <3> QED
      BY <3>1, <3>2
  <2> QED
    BY <1>1, <2>1, <2>2 DEF Sized
<1>4. ASSUME NEW t \in Threads, Endpoint(t) PROVE Sized(d)'
  <2> DEFINE c == thread[t].on
  <2>1. c \in Channels /\ c \notin sessions_ /\ UNCHANGED <<inbox, nextMsgSize_>>
    BY <1>1, <1>4 DEF Endpoint, OnChannel, Busy, Kept, At
  <2>2. nextMsgSize_[c] = 0
    BY <1>1, <2>1 DEF Sized
  <2>3. CASE UNCHANGED <<sessions_, op>>
    BY <1>2, <2>1, <2>3
  <2>4. CASE sessions_' = sessions_ \cup {c} /\ op' = [op EXCEPT ![c] = "handshake"]
    BY <1>1, <2>1, <2>2, <2>4 DEF Sized, TypeOK
  <2> QED
    BY <1>4, <2>3, <2>4 DEF Endpoint
<1>5. ASSUME NEW c \in Channels, Handshake(c) PROVE Sized(d)'
  <2>1. op[c] = "handshake" /\ UNCHANGED <<inbox, nextMsgSize_, sessions_>>
        /\ \E o : op' = [op EXCEPT ![c] = o]
    BY <1>5 DEF Handshake, server
  <2>2. nextMsgSize_[c] = 0
    BY <2>1 DEF Sized
  <2> QED
    BY <1>1, <2>1, <2>2 DEF Sized, TypeOK
<1>6. ASSUME NEW c \in Channels, ReadSize(c) PROVE Sized(d)'
  <2>1. /\ op[c] = "read" /\ c \in sessions_ /\ UNCHANGED <<op, sessions_>> /\ inbox[c] # <<>>
        /\ nextMsgSize_' = [nextMsgSize_ EXCEPT ![c] = Head(inbox[c]).size]
        /\ Head(inbox[c]).size # 0 => inbox' = inbox /\ Head(inbox[c]).size = 1
        /\ \A e \in Channels \ {c} : inbox'[e] = inbox[e]
    BY <1>1, <1>6, HeadTail DEF ReadSize, Arrived, Kept, server, Frame, TypeOK
  <2>2. CASE d = c
    BY <1>1, <2>1, <2>2 DEF Sized, TypeOK
  <2>3. CASE d # c
    BY <1>1, <2>1, <2>3 DEF Sized, TypeOK
  <2> QED
    BY <2>2, <2>3
<1>7. ASSUME NEW t \in Threads, NEW c \in Channels, Read(t, c) \/ ReadError(t, c) PROVE Sized(d)'
  <2>1. /\ c \in sessions_ /\ op' = [op EXCEPT ![c] = "none"]
        /\ UNCHANGED <<nextMsgSize_, sessions_>> /\ \A e \in Channels \ {c} : inbox'[e] = inbox[e]
    BY <1>1, <1>7 DEF Read, ReadError, Arrived, Kept, server, TypeOK
  <2> QED
    BY <1>1, <2>1 DEF Sized, TypeOK
<1>8. ASSUME NEW c \in Channels, nextMsgSize_' = [nextMsgSize_ EXCEPT ![c] = 0],
             \A e \in Channels \ {c} : inbox'[e] = inbox[e] /\ op'[e] = op[e],
             UNCHANGED sessions_
      PROVE  Sized(d)'
  BY <1>1, <1>8 DEF Sized, TypeOK
<1>9. ASSUME NEW c \in Channels, Drop(c) PROVE Sized(d)'
  BY <1>1, <1>8, <1>9 DEF Drop, server, TypeOK
<1>10. ASSUME NEW t \in Threads, Respond(t) PROVE Sized(d)'
  <2>1. thread[t].on \in Channels
    BY <1>1, <1>10 DEF Respond, OnChannel, Busy, At
  <2> QED
    BY <1>1, <1>8, <1>10, <2>1 DEF Respond, server, TypeOK
<1>11. ASSUME NEW c \in Channels, App(c) \/ Handshake(c) \/ ReadSize(c) \/ Drop(c) \/ Write(c)
       PROVE  Sized(d)'
  <2>1. CASE Connect(c) \/ Leave(c) \/ Write(c)
    BY <1>2, <2>1 DEF Connect, Leave, Write, WriteUnit, server
  <2> QED
    BY <1>3, <1>5, <1>6, <1>9, <1>11, <2>1 DEF App
<1>12. ASSUME NEW t \in Threads, Run(t) PROVE Sized(d)'
  <2>1. CASE AcceptError(t) \/ Install(t) \/ AcceptAgain(t) \/ Return(t)
    BY <1>2, <2>1 DEF AcceptError, Install, AcceptAgain, Return, server
  <2> QED
    BY <1>4, <1>10, <1>12, <2>1 DEF Run
<1>13. ASSUME NEW t \in Threads, NEW c \in Channels, Accept(t, c) PROVE Sized(d)'
  BY <1>2, <1>13 DEF Accept
<1> QED
  BY <1>2, <1>7, <1>11, <1>12, <1>13 DEF Next, vars

(* The steps of threads that neither begin nor end a request.               *)
LEMMA ThreadLine ==
    ASSUME IInv, NEW t \in Threads, NEW d \in Channels, Lined(d),
           ~ At(t, "serve"), ~ At(t, "serve")',
           \A u \in Threads \ {t} : thread'[u] = thread[u],
           UNCHANGED <<inbox, writes, wire, asked, eager>>
    PROVE  Lined(d)'
<1>1. \A u \in Threads : Serves(u, d)' = Serves(u, d) /\ (Serves(u, d) => thread'[u] = thread[u])
  BY DEF Serves, At
<1>2. Served(d)' = Served(d)
  BY <1>1 DEF Served
<1> QED
  BY <1>1, <1>2, SameLine

LEMMA LinedStep ==
    ASSUME IInv, Turns, [Next]_vars, NEW d \in Channels
    PROVE  Lined(d)'
<1>1. TypeOK /\ Lined(d) /\ Sized(d)
  BY DEF IInv, Turns
<1>2. CASE UNCHANGED <<inbox, writes, wire, asked, eager, thread>>
  BY <1>1, <1>2, SameLine, SameThreads
<1>3. ASSUME NEW c \in Channels, App(c) \/ Handshake(c) \/ ReadSize(c) \/ Drop(c) \/ Write(c)
      PROVE  Lined(d)'
  <2>1. CASE d # c
    <3>1. /\ UNCHANGED thread /\ (d \in eager => d \in eager')
          /\ inbox'[d] = inbox[d] /\ writes'[d] = writes[d] /\ wire'[d] = wire[d]
          /\ asked'[d] = asked[d]
      BY <1>1, <1>3, <2>1 DEF TypeOK, App, Connect, SendRequest, SendEmpty, Leave, Handshake,
            ReadSize, Drop, Write, WriteUnit
    <3> QED
      BY <1>1, <3>1, SameLine, SameThreads
  <2>2. CASE d = c
    <3>1. CASE SendRequest(c)
      BY <1>1, <2>2, <3>1, SendRequestLine
    <3>2. CASE SendEmpty(c)
      BY <1>1, <2>2, <3>2, SendEmptyLine
    <3>3. CASE ReadSize(c) \/ Drop(c)
      <4>1. /\ inbox[c] # <<>> /\ UNCHANGED <<asked, writes, wire, thread, eager>>
            /\ inbox' = inbox \/ inbox'[c] = Tail(inbox[c])
        BY <1>1, <3>3 DEF ReadSize, Drop, Arrived, TypeOK
      <4> QED
        BY <1>1, <1>2, <2>2, <4>1, TakenLine
    <3>4. CASE Write(c)
      <4>1. PICK i \in DOMAIN writes[c] : WriteUnit(c, i)
        BY <3>4 DEF Write
      <4> QED
        BY <1>1, <2>2, <4>1, WriteLine
    <3>5. CASE Connect(c) \/ Leave(c) \/ Handshake(c)
      BY <1>2, <3>5 DEF Connect, Leave, Handshake
    <3> QED
      BY <1>3, <3>1, <3>2, <3>3, <3>4, <3>5 DEF App
  <2> QED
    BY <2>1, <2>2
<1>4. ASSUME NEW t \in Threads, NEW c \in Channels, Accept(t, c) \/ ReadError(t, c)
      PROVE  Lined(d)'
  <2>1. ~ At(t, "serve") /\ UNCHANGED <<inbox, writes, wire, asked, eager>>
    BY <1>4 DEF Accept, ReadError, At
  <2>2. ~ At(t, "serve")' /\ \A u \in Threads \ {t} : thread'[u] = thread[u]
    BY <1>1, <1>4, <2>1 DEF Accept, ReadError, Throw, Go, TypeOK, At
  <2> QED
    BY <1>1, <2>1, <2>2, ThreadLine
<1>5. ASSUME NEW t \in Threads,
             AcceptError(t) \/ Endpoint(t) \/ Install(t) \/ AcceptAgain(t) \/ Return(t)
      PROVE  Lined(d)'
  <2>1. ~ At(t, "serve") /\ UNCHANGED <<inbox, writes, wire, asked, eager>>
    BY <1>5 DEF AcceptError, Endpoint, Install, AcceptAgain, Return, At
  <2>2. ~ At(t, "serve")' /\ \A u \in Threads \ {t} : thread'[u] = thread[u]
    <3>1. CASE AcceptAgain(t)
      BY <1>1, <3>1, MovedToIdle DEF AcceptAgain, At
    <3>2. CASE AcceptError(t) \/ Endpoint(t) \/ Install(t) \/ Return(t)
      BY <1>1, <3>2 DEF AcceptError, Endpoint, Install, Return, Throw, Go, TypeOK, At
    <3> QED
      BY <1>5, <3>1, <3>2
  <2> QED
    BY <1>1, <2>1, <2>2, ThreadLine
<1>6. ASSUME NEW t \in Threads, NEW c \in Channels, Read(t, c) PROVE Lined(d)'
  <2>1. CASE d = c
    BY <1>1, <1>6, <2>1, ReadLine
  <2>2. CASE d # c
    <3>1. /\ thread'[t].on = c /\ \A u \in Threads \ {t} : thread'[u] = thread[u]
          /\ ~ At(t, "serve") /\ inbox'[d] = inbox[d] /\ UNCHANGED <<writes, wire, asked, eager>>
      BY <1>1, <1>6, <2>2 DEF Read, Go, TypeOK, At
    <3>2. \A u \in Threads :
             Serves(u, d)' = Serves(u, d) /\ (Serves(u, d) => thread'[u] = thread[u])
      BY <2>2, <3>1 DEF Serves, At
    <3>3. Served(d)' = Served(d)
      BY <3>2 DEF Served
    <3> QED
      BY <1>1, <3>1, <3>2, <3>3, SameLine
  <2> QED
    BY <2>1, <2>2
<1>7. ASSUME NEW t \in Threads, Respond(t) PROVE Lined(d)'
  <2>1. thread[t].on \in Channels
    BY <1>7 DEF IInv, Respond, OnChannel, Busy, At
  <2>2. CASE d = thread[t].on
    BY <1>1, <1>7, <2>2, RespondLine
  <2>3. CASE d # thread[t].on
    <3>1. /\ thread'[t].at = "idle" /\ \A u \in Threads \ {t} : thread'[u] = thread[u]
          /\ writes'[d] = writes[d] /\ UNCHANGED <<inbox, wire, asked, eager>>
      BY <1>1, <1>7, <2>1, <2>3, MovedToIdle DEF Respond, TypeOK
    <3>2. \A u \in Threads :
             Serves(u, d)' = Serves(u, d) /\ (Serves(u, d) => thread'[u] = thread[u])
      BY <2>3, <3>1 DEF Serves, At
    <3>3. Served(d)' = Served(d)
      BY <3>2 DEF Served
    <3> QED
      BY <1>1, <3>1, <3>2, <3>3, SameLine
  <2> QED
    BY <2>2, <2>3
<1> QED
  BY <1>2, <1>3, <1>4, <1>5, <1>6, <1>7 DEF Next, Run, vars

LEMMA InitTurns == Init => Turns
<1> SUFFICES ASSUME Init, NEW c \in Channels PROVE Sized(c) /\ Lined(c)
  BY DEF Turns
<1>1. inbox[c] = <<>> /\ writes[c] = <<>> /\ wire[c] = <<>> /\ op[c] = "none" /\ nextMsgSize_[c] = 0
  BY DEF Init
<1>2. \A t \in Threads : ~ Serves(t, c)
  BY DEF Init, Idle, Serves, At
<1>3. Sized(c)
  BY <1>1 DEF Sized
<1>4. ~ Asks(c) /\ ~ Served(c)
  BY <1>1, <1>2 DEF Asks, Served
<1>5. OnePlace(c)
  BY <1>1, <1>4 DEF OnePlace
<1>6. Named(c) /\ InTurn(c) /\ Whole(c)
  BY <1>1, <1>2 DEF Named, InTurn, Whole
<1> QED
  BY <1>3, <1>5, <1>6 DEF Lined

LEMMA TurnsAlways == Spec => []Turns
<1>1. IInv /\ Turns /\ [Next]_vars => Turns'
  BY SizedStep, LinedStep DEF Turns
<1> QED
  BY <1>1, InitTurns, Invariant, PTL DEF Spec

(* Session::write sends responses with nothing to order them, and makeBuffer *)
(* keeps two bytes of a length; an app that waits for its answers gets them  *)
(* whole, in order and with their lengths, as long as these fit.             *)
THEOREM AnswersArriveWhole == Spec => []ResponsesIntact
<1>1. IInv /\ Turns => ResponsesIntact
  <2> SUFFICES ASSUME IInv, Turns, NEW c \in Channels, c \notin eager,
                      \A i \in DOMAIN wire[c] : wire[c][i].size < Word
               PROVE  /\ \A i \in DOMAIN wire[c] : wire[c][i].head = wire[c][i].size
                      /\ \A i \in 1 .. Len(wire[c]) - 1 : Follows(wire[c][i], wire[c][i + 1])
    BY DEF ResponsesIntact
  <2>1. Named(c) /\ Whole(c)
    BY DEF Turns, Lined
  <2>2. ASSUME NEW i \in DOMAIN wire[c] PROVE wire[c][i].head = wire[c][i].size
    <3>1. wire[c][i] \in Unit
      <4>1. wire[c] \in Seq(Unit)
        BY DEF IInv, TypeOK
      <4> QED
        BY <2>2, <4>1, ElementOfSeq, LenProperties
    <3>2. wire[c][i].head = wire[c][i].size % Word
      BY <2>1 DEF Named, MakeBuffer
    <3>3. \A n \in Nat : n < Word => n % Word = n
      BY ConstantsAssumption
    <3> QED
      BY <2>2, <3>1, <3>2, <3>3 DEF Unit
  <2> QED
    BY <2>1, <2>2 DEF Whole
<1> QED
  BY <1>1, Invariant, TurnsAlways, PTL
=============================================================================

---------------------------- MODULE DialogueProofs ----------------------------
(* Transport implements Dialogue: what happens to the frames, threads and    *)
(* writes of a channel, seen as the numbers of requests moving on.           *)
EXTENDS ResponsesProofs

-----------------------------------------------------------------------------
(* What the mapping sees of a channel.                                      *)

LEMMA Mapped ==
    /\ Waiting = [c \in Channels |-> Waiting[c]] /\ Waiting' = [c \in Channels |-> Waiting'[c]]
    /\ Serving = [c \in Channels |-> Serving[c]] /\ Serving' = [c \in Channels |-> Serving'[c]]
    /\ Answering = [c \in Channels |-> Answering[c]]
    /\ Answering' = [c \in Channels |-> Answering'[c]]
    /\ Delivered = [c \in Channels |-> Delivered[c]]
    /\ Delivered' = [c \in Channels |-> Delivered'[c]]
BY DEF Waiting, Serving, Answering, Delivered

LEMMA Members ==
    ASSUME NEW c \in Channels
    PROVE  /\ \A n : n \in Waiting[c] <=>
                 \E i \in DOMAIN inbox[c] : inbox[c][i].size = 1 /\ n = inbox[c][i].no
           /\ \A n : n \in Serving[c] <=> \E t \in Threads : Serves(t, c) /\ n = thread[t].no
           /\ \A n : n \in Answering[c] <=> \E i \in DOMAIN writes[c] : n = writes[c][i].no
           /\ \A n : n \in Delivered[c] <=>
                 \E i \in DOMAIN wire[c] : wire[c][i].part = wire[c][i].size /\ n = wire[c][i].no
BY DEF Waiting, Serving, Answering, Delivered, Serves

LEMMA MembersNext ==
    ASSUME NEW c \in Channels
    PROVE  /\ \A n : n \in Waiting'[c] <=>
                 \E i \in DOMAIN inbox'[c] : inbox'[c][i].size = 1 /\ n = inbox'[c][i].no
           /\ \A n : n \in Serving'[c] <=> \E t \in Threads : Serves(t, c)' /\ n = thread'[t].no
           /\ \A n : n \in Answering'[c] <=> \E i \in DOMAIN writes'[c] : n = writes'[c][i].no
           /\ \A n : n \in Delivered'[c] <=>
                 \E i \in DOMAIN wire'[c] : wire'[c][i].part = wire'[c][i].size /\ n = wire'[c][i].no
BY DEF Waiting, Serving, Answering, Delivered, Serves

(* A change on one channel only, and none at all.                           *)
LEMMA OneChannel ==
    ASSUME NEW c \in Channels
    PROVE  /\ (\A d \in Channels \ {c} : Waiting'[d] = Waiting[d]) =>
                 Waiting' = [Waiting EXCEPT ![c] = Waiting'[c]]
           /\ (\A d \in Channels \ {c} : Serving'[d] = Serving[d]) =>
                 Serving' = [Serving EXCEPT ![c] = Serving'[c]]
           /\ (\A d \in Channels \ {c} : Answering'[d] = Answering[d]) =>
                 Answering' = [Answering EXCEPT ![c] = Answering'[c]]
           /\ (\A d \in Channels \ {c} : Delivered'[d] = Delivered[d]) =>
                 Delivered' = [Delivered EXCEPT ![c] = Delivered'[c]]
BY Mapped

LEMMA Unseen ==
    /\ \A c \in Channels : inbox'[c] = inbox[c] => Waiting'[c] = Waiting[c]
    /\ \A c \in Channels : writes'[c] = writes[c] => Answering'[c] = Answering[c]
    /\ \A c \in Channels : wire'[c] = wire[c] => Delivered'[c] = Delivered[c]
    /\ (\A c \in Channels : Waiting'[c] = Waiting[c]) => Waiting' = Waiting
    /\ (\A c \in Channels : Serving'[c] = Serving[c]) => Serving' = Serving
    /\ (\A c \in Channels : Answering'[c] = Answering[c]) => Answering' = Answering
    /\ (\A c \in Channels : Delivered'[c] = Delivered[c]) => Delivered' = Delivered
BY DEF Waiting, Serving, Answering, Delivered

-----------------------------------------------------------------------------
(* The abstract specification: requests move on in their order.             *)

LEMMA DialogueInit == Dialogue!Init => Dialogue!InOrder
BY DEF Dialogue!Init, Dialogue!InOrder, Dialogue!Nothing

(* One channel's part of InOrder.                                           *)
Ordered(a, w, s, p, d) ==
    /\ a \in Nat
    /\ w \cup s \cup p \cup d \subseteq 1 .. a
    /\ \A n \in s \cup p \cup d, m \in w : n < m
    /\ \A n \in p \cup d, m \in s : n < m
    /\ p \cap d = {}

LEMMA DialogueOrder ==
    ASSUME Dialogue!InOrder, [Dialogue!Next]_(Dialogue!vars)
    PROVE  Dialogue!InOrder'
<1> DEFINE O(c) == Ordered(asked[c], Waiting[c], Serving[c], Answering[c], Delivered[c])
<1>1. Dialogue!InOrder <=> asked \in [Channels -> Nat] /\ \A c \in Channels : O(c)
  BY DEF Dialogue!InOrder, Ordered
<1>2. Dialogue!InOrder' <=> asked' \in [Channels -> Nat] /\ \A c \in Channels : O(c)'
  BY DEF Dialogue!InOrder, Ordered
<1>3. asked \in [Channels -> Nat] /\ asked' \in [Channels -> Nat]
  <2>1. asked \in [Channels -> Nat]
    BY <1>1
  <2>2. CASE UNCHANGED asked
    BY <2>1, <2>2
  <2>3. CASE \E c \in Channels : asked' = [asked EXCEPT ![c] = @ + 1]
    BY <2>1, <2>3
  <2> QED
    BY <2>1, <2>2, <2>3 DEF Dialogue!vars, Dialogue!Next, Dialogue!Ask, Dialogue!Listen,
       Dialogue!Finish, Dialogue!Leave, Dialogue!Take, Dialogue!PassOver, Dialogue!Deliver,
       Dialogue!Lose
<1> SUFFICES ASSUME NEW d \in Channels PROVE O(d)'
  BY <1>2, <1>3
<1>4. O(d) /\ asked[d] \in Nat
  BY <1>1 DEF Ordered
<1> HIDE DEF O
<1>5. CASE UNCHANGED <<asked, Waiting, Serving, Answering, Delivered>>
  BY <1>4, <1>5 DEF O
<1>6. ASSUME NEW c \in Channels, Dialogue!Ask(c) PROVE O(d)'
  <2>1. /\ UNCHANGED <<Serving, Answering, Delivered>>
        /\ d = c => asked'[d] = asked[d] + 1 /\ Waiting'[d] = Waiting[d] \cup {asked[d] + 1}
        /\ d # c => asked'[d] = asked[d] /\ Waiting'[d] = Waiting[d]
    BY <1>3, <1>6, Mapped DEF Dialogue!Ask
  <2>2. CASE d = c
    BY <1>4, <2>1, <2>2 DEF O, Ordered
  <2>3. CASE d # c
    BY <1>4, <2>1, <2>3 DEF O
  <2> QED
    BY <2>2, <2>3
<1>7. ASSUME NEW c \in Channels, Dialogue!Finish(c) PROVE O(d)'
  <2>1. /\ UNCHANGED <<asked, Waiting, Delivered>>
        /\ d = c => Serving'[d] = {} /\ Answering'[d] = Answering[d] \cup Serving[d]
        /\ d # c => Serving'[d] = Serving[d] /\ Answering'[d] = Answering[d]
    BY <1>7, Mapped DEF Dialogue!Finish
  <2>2. CASE d = c
    BY <1>4, <2>1, <2>2 DEF O, Ordered
  <2>3. CASE d # c
    BY <1>4, <2>1, <2>3 DEF O
  <2> QED
    BY <2>2, <2>3
<1>8. ASSUME NEW c \in Channels, NEW n, Dialogue!Take(c, n) PROVE O(d)'
  <2>1. /\ UNCHANGED <<asked, Answering, Delivered>>
        /\ d = c => Waiting'[d] = Waiting[d] \ {n} /\ Serving'[d] = {n}
        /\ d # c => Waiting'[d] = Waiting[d] /\ Serving'[d] = Serving[d]
        /\ n \in Waiting[c] /\ \A m \in Waiting[c] : n <= m
    BY <1>8, Mapped DEF Dialogue!Take, Dialogue!First
  <2>2. CASE d = c
    <3>1. \A m \in Waiting[d] \ {n} : n < m
      BY <1>4, <2>1, <2>2 DEF O, Ordered
    <3> QED
      BY <1>4, <2>1, <2>2, <3>1 DEF O, Ordered
  <2>3. CASE d # c
    BY <1>4, <2>1, <2>3 DEF O
  <2> QED
    BY <2>2, <2>3
<1>9. ASSUME NEW c \in Channels, NEW n, Dialogue!PassOver(c, n) PROVE O(d)'
  <2>1. /\ UNCHANGED <<asked, Serving, Answering, Delivered>>
        /\ Waiting'[d] \in {Waiting[d], Waiting[d] \ {n}}
    BY <1>9, Mapped DEF Dialogue!PassOver
  <2> QED
    BY <1>4, <2>1 DEF O, Ordered
<1>10. ASSUME NEW c \in Channels, NEW n, Dialogue!Deliver(c, n) PROVE O(d)'
  <2>1. /\ UNCHANGED <<asked, Waiting, Serving>>
        /\ d = c => /\ n \in Answering[d] /\ Answering'[d] = Answering[d] \ {n}
                    /\ Delivered'[d] = Delivered[d] \cup {n}
        /\ d # c => Answering'[d] = Answering[d] /\ Delivered'[d] = Delivered[d]
    BY <1>10, Mapped DEF Dialogue!Deliver
  <2>2. CASE d = c
    BY <1>4, <2>1, <2>2 DEF O, Ordered
  <2>3. CASE d # c
    BY <1>4, <2>1, <2>3 DEF O
  <2> QED
    BY <2>2, <2>3
<1>11. ASSUME NEW c \in Channels, NEW n, Dialogue!Lose(c, n) PROVE O(d)'
  <2>1. /\ UNCHANGED <<asked, Waiting, Serving, Delivered>>
        /\ Answering'[d] \in {Answering[d], Answering[d] \ {n}}
    BY <1>11, Mapped DEF Dialogue!Lose
  <2> QED
    BY <1>4, <2>1 DEF O, Ordered
<1>12. ASSUME NEW c \in Channels, Dialogue!Listen(c) \/ Dialogue!Leave(c) PROVE O(d)'
  BY <1>5, <1>12 DEF Dialogue!Listen, Dialogue!Leave
<1> QED
  BY <1>5, <1>6, <1>7, <1>8, <1>9, <1>10, <1>11, <1>12 DEF Dialogue!Next, Dialogue!vars

-----------------------------------------------------------------------------
(* Frames wait in the order of their numbers, and no request is answered by *)
(* two writes.                                                              *)

Queued(c) ==
    /\ \A i, k \in DOMAIN inbox[c] :
          i < k /\ inbox[c][i].size = 1 /\ inbox[c][k].size = 1 => inbox[c][i].no < inbox[c][k].no
    /\ \A i, k \in DOMAIN writes[c] : writes[c][i].no = writes[c][k].no => i = k

LEMMA SameQueue ==
    ASSUME NEW c \in Channels, Queued(c), inbox'[c] = inbox[c], writes'[c] = writes[c]
    PROVE  Queued(c)'
BY DEF Queued

LEMMA RemoveAtElements ==
    ASSUME NEW S, NEW s \in Seq(S), NEW i \in DOMAIN s
    PROVE  /\ RemoveAt(s, i) \in Seq(S) /\ Len(RemoveAt(s, i)) = Len(s) - 1
           /\ \A k \in DOMAIN RemoveAt(s, i) :
                 /\ k < i => k \in DOMAIN s /\ RemoveAt(s, i)[k] = s[k]
                 /\ k >= i => k + 1 \in DOMAIN s /\ RemoveAt(s, i)[k] = s[k + 1]
<1>1. i \in 1 .. Len(s) /\ Len(s) \in Nat /\ RemoveAt(s, i) \in Seq(S)
  BY LenProperties, RemoveAtType
<1> DEFINE a == SubSeq(s, 1, i - 1)
<1> DEFINE b == SubSeq(s, i + 1, Len(s))
<1>2. /\ a \in Seq(S) /\ Len(a) = i - 1 /\ \A k \in 1 .. i - 1 : a[k] = s[k]
      /\ b \in Seq(S) /\ Len(b) = Len(s) - i /\ \A k \in 1 .. Len(s) - i : b[k] = s[i + k]
  BY <1>1
<1>3. RemoveAt(s, i) = a \o b
  BY DEF RemoveAt
<1> HIDE DEF a, b
<1>4. /\ Len(a \o b) = Len(s) - 1 /\ DOMAIN (a \o b) = 1 .. Len(s) - 1
      /\ \A k \in 1 .. Len(s) - 1 : (a \o b)[k] = IF k <= i - 1 THEN a[k] ELSE b[k - (i - 1)]
  <2>1. /\ a \o b \in Seq(S) /\ Len(a \o b) = Len(a) + Len(b)
        /\ \A k \in 1 .. Len(a) + Len(b) :
              (a \o b)[k] = IF k <= Len(a) THEN a[k] ELSE b[k - Len(a)]
    BY <1>2, ConcatProperties
  <2>2. Len(a) + Len(b) = Len(s) - 1
    BY <1>1, <1>2
  <2> QED
    BY <1>2, <2>1, <2>2, LenProperties
<1>5. ASSUME NEW k \in 1 .. Len(s) - 1
      PROVE  /\ k < i => k \in DOMAIN s /\ (a \o b)[k] = s[k]
             /\ k >= i => k + 1 \in DOMAIN s /\ (a \o b)[k] = s[k + 1]
  <2>1. CASE k < i
    BY <1>1, <1>2, <1>4, <2>1, LenProperties
  <2>2. CASE k >= i
    <3>1. k - (i - 1) \in 1 .. Len(s) - i /\ i + (k - (i - 1)) = k + 1 /\ ~ (k <= i - 1)
          /\ k + 1 \in 1 .. Len(s)
      BY <1>1, <2>2
    <3>2. b[k - (i - 1)] = s[k + 1]
      BY <1>2, <3>1
    <3> QED
      BY <1>1, <1>4, <2>2, <3>1, <3>2, LenProperties
  <2> QED
    BY <1>1, <2>1, <2>2
<1> QED
  BY <1>1, <1>3, <1>4, <1>5

(* A write that is done, or whose app has left, leaves the others.          *)
LEMMA RemovedWrite ==
    ASSUME TypeOK, NEW c \in Channels, Queued(c), NEW i \in DOMAIN writes[c],
           writes'[c] = RemoveAt(writes[c], i)
    PROVE  /\ Answering'[c] = Answering[c] \ {writes[c][i].no}
           /\ \A j, k \in DOMAIN writes'[c] : writes'[c][j].no = writes'[c][k].no => j = k
<1> DEFINE s == writes[c]
<1> DEFINE r == writes'[c]
<1>1. s \in Seq(InFlight)
  BY DEF TypeOK
<1>2. /\ r \in Seq(InFlight) /\ Len(r) = Len(s) - 1
      /\ \A k \in DOMAIN r : /\ k < i => k \in DOMAIN s /\ r[k] = s[k]
                             /\ k >= i => k + 1 \in DOMAIN s /\ r[k] = s[k + 1]
  BY <1>1, RemoveAtElements
<1>3. DOMAIN s = 1 .. Len(s) /\ DOMAIN r = 1 .. Len(s) - 1 /\ Len(s) \in Nat /\ i \in 1 .. Len(s)
  BY <1>1, <1>2, LenProperties
<1>4. \A j, k \in DOMAIN s : s[j].no = s[k].no => j = k
  BY DEF Queued
<1> HIDE DEF s, r
<1>5. \A j, k \in DOMAIN r : r[j].no = r[k].no => j = k
  <2> SUFFICES ASSUME NEW j \in DOMAIN r, NEW k \in DOMAIN r, r[j].no = r[k].no PROVE j = k
    OBVIOUS
  <2>1. PICK x \in DOMAIN s : r[j] = s[x] /\ x = IF j < i THEN j ELSE j + 1
    BY <1>2, <1>3
  <2>2. PICK y \in DOMAIN s : r[k] = s[y] /\ y = IF k < i THEN k ELSE k + 1
    BY <1>2, <1>3
  <2>3. x = y
    BY <1>4, <2>1, <2>2
  <2> QED
    BY <1>3, <2>1, <2>2, <2>3
<1>6. ASSUME NEW k \in DOMAIN r
      PROVE  \E x \in DOMAIN s : x # i /\ r[k] = s[x]
  BY <1>2, <1>3
<1>7. ASSUME NEW x \in DOMAIN s, x # i
      PROVE  \E k \in DOMAIN r : r[k] = s[x]
  <2>1. CASE x < i
    BY <1>2, <1>3, <2>1
  <2>2. CASE x > i
    <3>1. x - 1 \in DOMAIN r /\ x - 1 >= i /\ (x - 1) + 1 = x
      BY <1>3, <2>2
    <3> QED
      BY <1>2, <3>1
  <2> QED
    BY <1>3, <1>7, <2>1, <2>2
<1>8. \A n : n \in Answering'[c] <=> n \in Answering[c] /\ n # s[i].no
  <2>1. \A n : n \in Answering[c] <=> \E x \in DOMAIN s : n = s[x].no
    BY Members DEF s
  <2>2. \A n : n \in Answering'[c] <=> \E k \in DOMAIN r : n = r[k].no
    BY MembersNext DEF r
  <2>3. ASSUME NEW n, n \in Answering'[c] PROVE n \in Answering[c] /\ n # s[i].no
    <3>1. PICK k \in DOMAIN r : n = r[k].no
      BY <2>2, <2>3
    <3>2. PICK x \in DOMAIN s : x # i /\ r[k] = s[x]
      BY <1>6
    <3> QED
      BY <1>3, <1>4, <2>1, <3>1, <3>2
  <2>4. ASSUME NEW n, n \in Answering[c], n # s[i].no PROVE n \in Answering'[c]
    BY <1>7, <2>1, <2>2, <2>4
  <2> QED
    BY <2>3, <2>4
<1> QED
  BY <1>5, <1>8 DEF s, r

(* The head of the inbox is taken.                                          *)
LEMMA TakenFrame ==
    ASSUME TypeOK, Dialogue!InOrder, NEW c \in Channels, Queued(c), inbox[c] # <<>>,
           inbox'[c] = Tail(inbox[c])
    PROVE  /\ \A i, k \in DOMAIN inbox'[c] :
                 i < k /\ inbox'[c][i].size = 1 /\ inbox'[c][k].size = 1 =>
                     inbox'[c][i].no < inbox'[c][k].no
           /\ Head(inbox[c]).size = 0 => Waiting'[c] = Waiting[c]
           /\ Head(inbox[c]).size = 1 => /\ Dialogue!First(c, Head(inbox[c]).no)
                                         /\ Waiting'[c] = Waiting[c] \ {Head(inbox[c]).no}
<1> DEFINE s == inbox[c]
<1> DEFINE r == inbox'[c]
<1>1. s \in Seq(Frame)
  BY DEF TypeOK
<1>2. /\ Len(s) \in Nat \ {0} /\ 1 \in DOMAIN s /\ Head(s) = s[1] /\ DOMAIN s = 1 .. Len(s)
      /\ \A i \in DOMAIN r : i + 1 \in DOMAIN s /\ i + 1 # 1 /\ r[i] = s[i + 1]
      /\ DOMAIN r = 1 .. Len(s) - 1
  BY <1>1, TailFrames, LenProperties
<1>3. \A i, k \in DOMAIN s : i < k /\ s[i].size = 1 /\ s[k].size = 1 => s[i].no < s[k].no
  BY DEF Queued
<1>4. /\ \A n : n \in Waiting[c] <=> \E x \in DOMAIN s : s[x].size = 1 /\ n = s[x].no
      /\ \A n : n \in Waiting'[c] <=> \E x \in DOMAIN r : r[x].size = 1 /\ n = r[x].no
  BY Members, MembersNext
<1>5. \A i \in DOMAIN s : s[i].no \in Nat
  <2>1. \A i \in DOMAIN s : s[i] \in Frame
    BY <1>1, <1>2, ElementOfSeq
  <2> QED
    BY <2>1 DEF Frame
<1> HIDE DEF s, r
<1>6. \A i, k \in DOMAIN r : i < k /\ r[i].size = 1 /\ r[k].size = 1 => r[i].no < r[k].no
  <2> SUFFICES ASSUME NEW i \in DOMAIN r, NEW k \in DOMAIN r, i < k, r[i].size = 1, r[k].size = 1
               PROVE  r[i].no < r[k].no
    OBVIOUS
  <2>1. i + 1 \in DOMAIN s /\ k + 1 \in DOMAIN s /\ r[i] = s[i + 1] /\ r[k] = s[k + 1]
    BY <1>2
  <2>2. i + 1 < k + 1
    BY <1>2
  <2> QED
    BY <1>3, <2>1, <2>2
<1>7. \A x \in DOMAIN s : x # 1 => x - 1 \in DOMAIN r /\ r[x - 1] = s[x]
  <2> SUFFICES ASSUME NEW x \in DOMAIN s, x # 1 PROVE x - 1 \in DOMAIN r /\ r[x - 1] = s[x]
    OBVIOUS
  <2>1. x - 1 \in DOMAIN r /\ (x - 1) + 1 = x
    BY <1>2
  <2> QED
    BY <1>2, <2>1
<1>8. ASSUME Head(s).size = 0 PROVE Waiting'[c] = Waiting[c]
  <2>1. \A n : n \in Waiting'[c] <=> n \in Waiting[c]
    <3>1. ASSUME NEW n, n \in Waiting'[c] PROVE n \in Waiting[c]
      BY <1>2, <1>4, <3>1
    <3>2. ASSUME NEW n, n \in Waiting[c] PROVE n \in Waiting'[c]
      <4>1. PICK x \in DOMAIN s : s[x].size = 1 /\ n = s[x].no
        BY <1>4, <3>2
      <4>2. x # 1
        BY <1>2, <1>8, <4>1
      <4> QED
        BY <1>4, <1>7, <4>1, <4>2
    <3> QED
      BY <3>1, <3>2
  <2> QED
    BY <2>1
<1>9. ASSUME Head(s).size = 1
      PROVE  Dialogue!First(c, s[1].no) /\ Waiting'[c] = Waiting[c] \ {s[1].no}
  <2>1. s[1].no \in Waiting[c]
    BY <1>2, <1>4, <1>9
  <2>2. \A x \in DOMAIN s : x # 1 /\ s[x].size = 1 => s[1].no < s[x].no
    BY <1>2, <1>3, <1>9
  <2>3. \A m \in Waiting[c] : s[1].no <= m
    BY <1>2, <1>4, <1>5, <2>2
  <2>4. \A n : n \in Waiting'[c] <=> n \in Waiting[c] /\ n # s[1].no
    <3>1. ASSUME NEW n, n \in Waiting'[c] PROVE n \in Waiting[c] /\ n # s[1].no
      <4>1. PICK x \in DOMAIN r : r[x].size = 1 /\ n = r[x].no
        BY <1>4, <3>1
      <4>2. x + 1 \in DOMAIN s /\ x + 1 # 1 /\ r[x] = s[x + 1]
        BY <1>2
      <4>3. s[1].no < s[x + 1].no /\ s[1].no \in Nat
        BY <1>2, <1>5, <2>2, <4>1, <4>2
      <4> QED
        BY <1>4, <4>1, <4>2, <4>3
    <3>2. ASSUME NEW n, n \in Waiting[c], n # s[1].no PROVE n \in Waiting'[c]
      BY <1>4, <1>7, <3>2
    <3> QED
      BY <3>1, <3>2
  <2> QED
    BY <2>1, <2>3, <2>4 DEF Dialogue!First
<1> QED
  BY <1>2, <1>6, <1>8, <1>9 DEF s, r

-----------------------------------------------------------------------------
(* The steps of an app.                                                     *)

DialogueInv == IInv /\ Turns /\ Dialogue!InOrder /\ \A c \in Channels : Queued(c)

(* What a step does: a move of the dialogue, or none, and no disorder.      *)
Moves == [Dialogue!Next]_(Dialogue!vars) /\ \A c \in Channels : Queued(c)'

(* Steps on a channel that leave every other as it is.                      *)
LEMMA OtherQueues ==
    ASSUME DialogueInv, NEW c \in Channels, Queued(c)',
           \A d \in Channels \ {c} : inbox'[d] = inbox[d] /\ writes'[d] = writes[d]
    PROVE  \A d \in Channels : Queued(d)'
BY SameQueue DEF DialogueInv

LEMMA SameServing ==
    ASSUME NEW c \in Channels,
           \A t \in Threads : /\ Serves(t, c)' <=> Serves(t, c)
                              /\ Serves(t, c) => thread'[t].no = thread[t].no
    PROVE  Serving'[c] = Serving[c]
<1>1. \A n : n \in Serving'[c] <=> n \in Serving[c]
  BY Members, MembersNext
<1> QED
  BY <1>1

LEMMA SameThreadsServing ==
    ASSUME UNCHANGED thread
    PROVE  Serving' = Serving
BY SameServing, Unseen DEF Serves, At

(* A step that the dialogue does not see.                                   *)
LEMMA UnseenStep ==
    ASSUME DialogueInv, UNCHANGED <<inbox, writes, wire, asked, handlers, gone>>, Serving' = Serving
    PROVE  Moves
<1>1. UNCHANGED <<Waiting, Answering, Delivered>>
  BY DEF Waiting, Answering, Delivered
<1>2. \A c \in Channels : Queued(c)'
  BY SameQueue DEF DialogueInv
<1> QED
  BY <1>1, <1>2 DEF Moves, Dialogue!vars

LEMMA SendRequestMoves ==
    ASSUME DialogueInv, NEW c \in Channels, SendRequest(c)
    PROVE  Moves
<1> DEFINE n == asked[c] + 1
<1> DEFINE f == [no |-> n, size |-> 1]
<1> DEFINE s == inbox[c]
<1> DEFINE r == inbox'[c]
<1>1. /\ s \in Seq(Frame) /\ asked[c] \in Nat /\ r = Append(s, f) /\ f.no = n /\ f.size = 1
      /\ c \notin gone /\ asked' = [asked EXCEPT ![c] = @ + 1]
      /\ UNCHANGED <<writes, wire, thread, handlers, gone>>
      /\ \A d \in Channels \ {c} : inbox'[d] = inbox[d]
  BY DEF DialogueInv, IInv, TypeOK, SendRequest, MaySend, server
<1>2. /\ Len(s) \in Nat /\ DOMAIN s = 1 .. Len(s) /\ DOMAIN r = 1 .. Len(s) + 1
      /\ \A i \in DOMAIN s : r[i] = s[i]
      /\ r[Len(s) + 1] = f
  BY <1>1, AppendFrames
<1>3. /\ \A m : m \in Waiting[c] <=> \E x \in DOMAIN s : s[x].size = 1 /\ m = s[x].no
      /\ \A m : m \in Waiting'[c] <=> \E x \in DOMAIN r : r[x].size = 1 /\ m = r[x].no
  BY Members, MembersNext
<1>4. \A m \in Waiting[c] : m \in 1 .. asked[c]
  BY DEF DialogueInv, Dialogue!InOrder
<1>5. \A i, k \in DOMAIN s : i < k /\ s[i].size = 1 /\ s[k].size = 1 => s[i].no < s[k].no
  BY DEF DialogueInv, Queued
<1> HIDE DEF f, s, r
<1>6. Waiting'[c] = Waiting[c] \cup {n}
  <2>1. ASSUME NEW m, m \in Waiting'[c] PROVE m \in Waiting[c] \cup {n}
    <3>1. PICK x \in DOMAIN r : r[x].size = 1 /\ m = r[x].no
      BY <1>3, <2>1
    <3> QED
      BY <1>1, <1>2, <1>3, <3>1
  <2>2. ASSUME NEW m \in Waiting[c] PROVE m \in Waiting'[c]
    BY <1>2, <1>3
  <2>3. n \in Waiting'[c]
    <3>1. Len(s) + 1 \in DOMAIN r
      BY <1>2
    <3> QED
      BY <1>1, <1>2, <1>3, <3>1
  <2> QED
    BY <2>1, <2>2, <2>3
<1>7. \A i, k \in DOMAIN r : i < k /\ r[i].size = 1 /\ r[k].size = 1 => r[i].no < r[k].no
  <2> SUFFICES ASSUME NEW i \in DOMAIN r, NEW k \in DOMAIN r, i < k, r[i].size = 1, r[k].size = 1
               PROVE  r[i].no < r[k].no
    OBVIOUS
  <2>1. i \in DOMAIN s /\ r[i] = s[i] /\ s[i].no \in Waiting[c]
    BY <1>2, <1>3
  <2>2. CASE k \in DOMAIN s
    BY <1>2, <1>5, <2>1, <2>2
  <2>3. CASE k = Len(s) + 1
    BY <1>1, <1>2, <1>4, <2>1, <2>3
  <2> QED
    BY <1>2, <2>2, <2>3
<1>8. \A d \in Channels : Queued(d)'
  <2>1. Queued(c)'
    BY <1>1, <1>7 DEF DialogueInv, Queued, r
  <2> QED
    BY <1>1, <2>1, OtherQueues
<1>9. Dialogue!Ask(c)
  <2>1. Waiting' = [Waiting EXCEPT ![c] = Waiting'[c]]
    BY <1>1, Unseen, OneChannel
  <2>2. UNCHANGED <<Serving, Answering, Delivered>>
    BY <1>1, SameThreadsServing DEF Answering, Delivered
  <2>3. Waiting' = [Waiting EXCEPT ![c] = @ \cup {asked[c] + 1}]
    BY <1>6, <2>1
  <2> QED
    BY <1>1, <2>2, <2>3 DEF Dialogue!Ask
<1> QED
  BY <1>8, <1>9 DEF Moves, Dialogue!Next

LEMMA SendEmptyMoves ==
    ASSUME DialogueInv, NEW c \in Channels, SendEmpty(c)
    PROVE  Moves
<1> DEFINE f == [no |-> 0, size |-> 0]
<1> DEFINE s == inbox[c]
<1> DEFINE r == inbox'[c]
<1>1. /\ s \in Seq(Frame) /\ r = Append(s, f) /\ f.size = 0
      /\ UNCHANGED <<asked, writes, wire, thread, handlers, gone>>
      /\ \A d \in Channels \ {c} : inbox'[d] = inbox[d]
  BY DEF DialogueInv, IInv, TypeOK, SendEmpty, server
<1>2. /\ Len(s) \in Nat /\ DOMAIN s = 1 .. Len(s) /\ DOMAIN r = 1 .. Len(s) + 1
      /\ \A i \in DOMAIN s : r[i] = s[i]
      /\ r[Len(s) + 1] = f
  BY <1>1, AppendFrames
<1>3. /\ \A m : m \in Waiting[c] <=> \E x \in DOMAIN s : s[x].size = 1 /\ m = s[x].no
      /\ \A m : m \in Waiting'[c] <=> \E x \in DOMAIN r : r[x].size = 1 /\ m = r[x].no
  BY Members, MembersNext
<1>4. \A i, k \in DOMAIN s : i < k /\ s[i].size = 1 /\ s[k].size = 1 => s[i].no < s[k].no
  BY DEF DialogueInv, Queued
<1> HIDE DEF f, s, r
<1>5. \A x \in DOMAIN r : r[x].size = 1 => x \in DOMAIN s /\ r[x] = s[x]
  BY <1>1, <1>2
<1>6. Waiting'[c] = Waiting[c]
  <2>1. \A m : m \in Waiting'[c] => m \in Waiting[c]
    BY <1>3, <1>5
  <2>2. \A m : m \in Waiting[c] => m \in Waiting'[c]
    BY <1>2, <1>3
  <2> QED
    BY <2>1, <2>2
<1>7. \A d \in Channels : Queued(d)'
  <2>1. \A i, k \in DOMAIN r : i < k /\ r[i].size = 1 /\ r[k].size = 1 => r[i].no < r[k].no
    BY <1>4, <1>5
  <2>2. Queued(c)'
    BY <1>1, <2>1 DEF DialogueInv, Queued, r
  <2> QED
    BY <1>1, <2>2, OtherQueues
<1>8. UNCHANGED Dialogue!vars
  <2>1. Waiting' = Waiting
    BY <1>1, <1>6, Unseen
  <2>2. UNCHANGED <<Serving, Answering, Delivered>>
    BY <1>1, SameThreadsServing DEF Answering, Delivered
  <2> QED
    BY <1>1, <2>1, <2>2 DEF Dialogue!vars
<1> QED
  BY <1>7, <1>8 DEF Moves

LEMMA LeaveMoves ==
    ASSUME DialogueInv, NEW c \in Channels, Leave(c)
    PROVE  Moves
<1>1. /\ gone' = gone \cup {c} /\ UNCHANGED <<asked, inbox, writes, wire, thread, handlers>>
  BY DEF Leave, server
<1>2. UNCHANGED <<Waiting, Serving, Answering, Delivered>>
  BY <1>1, SameThreadsServing DEF Waiting, Answering, Delivered
<1>3. Dialogue!Leave(c) /\ \A d \in Channels : Queued(d)'
  BY <1>1, <1>2, SameQueue DEF DialogueInv, Dialogue!Leave
<1> QED
  BY <1>3 DEF Moves, Dialogue!Next

-----------------------------------------------------------------------------
(* The steps of a channel.                                                  *)

LEMMA ReadSizeMoves ==
    ASSUME DialogueInv, NEW c \in Channels, ReadSize(c)
    PROVE  Moves
<1>1. /\ TypeOK /\ Dialogue!InOrder /\ Queued(c) /\ inbox[c] # <<>>
      /\ UNCHANGED <<asked, writes, wire, thread, handlers, gone>>
  BY DEF DialogueInv, IInv, ReadSize, Arrived, server
<1>2. UNCHANGED Serving
  BY <1>1, SameThreadsServing
<1>3. CASE inbox' = inbox
  BY <1>1, <1>2, <1>3, UnseenStep
<1>4. CASE Head(inbox[c]).size = 0 /\ inbox' = [inbox EXCEPT ![c] = Tail(@)]
  <2>1. inbox'[c] = Tail(inbox[c]) /\ \A d \in Channels \ {c} : inbox'[d] = inbox[d]
    BY <1>1, <1>4 DEF TypeOK
  <2>2. Waiting'[c] = Waiting[c] /\ Queued(c)'
    BY <1>1, <1>4, <2>1, TakenFrame DEF Queued
  <2>3. UNCHANGED <<Waiting, Answering, Delivered>>
    BY <1>1, <2>1, <2>2, Unseen
  <2>4. \A d \in Channels : Queued(d)'
    BY <1>1, <2>1, <2>2, OtherQueues
  <2> QED
    BY <1>1, <1>2, <2>3, <2>4 DEF Moves, Dialogue!vars
<1> QED
  BY <1>3, <1>4 DEF ReadSize

LEMMA DropMoves ==
    ASSUME DialogueInv, NEW c \in Channels, Drop(c)
    PROVE  Moves
<1> DEFINE n == Head(inbox[c]).no
<1>1. /\ TypeOK /\ Dialogue!InOrder /\ Queued(c) /\ inbox[c] # <<>> /\ Head(inbox[c]).size = 1
      /\ inbox'[c] = Tail(inbox[c]) /\ \A d \in Channels \ {c} : inbox'[d] = inbox[d]
      /\ c \notin handlers /\ UNCHANGED <<asked, writes, wire, thread, handlers, gone>>
  BY DEF DialogueInv, IInv, TypeOK, Turns, Sized, Drop, Arrived, server
<1>2. /\ Dialogue!First(c, n) /\ Waiting'[c] = Waiting[c] \ {n} /\ Queued(c)'
  BY <1>1, TakenFrame DEF Queued
<1>3. Waiting' = [Waiting EXCEPT ![c] = Waiting'[c]]
  BY <1>1, Unseen, OneChannel
<1>4. UNCHANGED <<Serving, Answering, Delivered>>
  BY <1>1, SameThreadsServing DEF Answering, Delivered
<1>5. Dialogue!PassOver(c, n)
  BY <1>1, <1>2, <1>3, <1>4 DEF Dialogue!PassOver
<1>6. n \in 1 .. asked[c]
  BY <1>1, <1>2 DEF Dialogue!InOrder, Dialogue!First
<1>7. \A d \in Channels : Queued(d)'
  BY <1>1, <1>2, OtherQueues
<1> QED
  BY <1>5, <1>6, <1>7 DEF Moves, Dialogue!Next

LEMMA ReadMoves ==
    ASSUME DialogueInv, NEW t \in Threads, NEW c \in Channels, Read(t, c)
    PROVE  Moves
<1> DEFINE n == Head(inbox[c]).no
<1>1. /\ TypeOK /\ Dialogue!InOrder /\ Queued(c) /\ inbox[c] # <<>> /\ Head(inbox[c]).size = 1
      /\ inbox'[c] = Tail(inbox[c]) /\ \A d \in Channels \ {c} : inbox'[d] = inbox[d]
      /\ c \in handlers /\ UNCHANGED <<asked, writes, wire, handlers, gone>>
      /\ ~ At(t, "serve") /\ op[c] = "read"
  BY DEF DialogueInv, IInv, TypeOK, Turns, Sized, Read, Arrived, At, server
<1>2. /\ Dialogue!First(c, n) /\ Waiting'[c] = Waiting[c] \ {n} /\ Queued(c)'
  BY <1>1, TakenFrame DEF Queued
<1>3. /\ thread'[t] = [at |-> "serve", on |-> c, no |-> n]
      /\ \A u \in Threads \ {t} : thread'[u] = thread[u]
  BY <1>1 DEF Read, Go, TypeOK
<1>4. \A u \in Threads : ~ Serves(u, c)
  BY <1>1 DEF DialogueInv, IInv, Alone, Serves, At
<1>5. Serving[c] = {}
  BY <1>4, Members
<1>6. Serving'[c] = {n}
  <2>1. \A u \in Threads : Serves(u, c)' <=> u = t
    BY <1>3, <1>4 DEF Serves, At
  <2>2. \A m : m \in Serving'[c] <=> m = n
    BY <1>3, <2>1, MembersNext
  <2> QED
    BY <2>2
<1>7. \A d \in Channels \ {c} : Serving'[d] = Serving[d]
  <2> SUFFICES ASSUME NEW d \in Channels \ {c} PROVE Serving'[d] = Serving[d]
    OBVIOUS
  <2>1. \A u \in Threads : /\ Serves(u, d)' <=> Serves(u, d)
                           /\ Serves(u, d) => thread'[u].no = thread[u].no
    BY <1>1, <1>3 DEF Serves, At
  <2> QED
    BY <2>1, SameServing
<1>8. /\ Waiting' = [Waiting EXCEPT ![c] = @ \ {n}]
      /\ Serving' = [Serving EXCEPT ![c] = {n}]
  BY <1>1, <1>2, <1>6, <1>7, Unseen, OneChannel
<1>9. UNCHANGED <<Answering, Delivered>>
  BY <1>1 DEF Answering, Delivered
<1>10. Dialogue!Take(c, n)
  BY <1>1, <1>2, <1>5, <1>8, <1>9 DEF Dialogue!Take
<1>11. n \in 1 .. asked[c]
  BY <1>1, <1>2 DEF Dialogue!InOrder, Dialogue!First
<1>12. \A d \in Channels : Queued(d)'
  BY <1>1, <1>2, OtherQueues
<1> QED
  BY <1>10, <1>11, <1>12 DEF Moves, Dialogue!Next

LEMMA RespondMoves ==
    ASSUME DialogueInv, NEW t \in Threads, Respond(t)
    PROVE  Moves
<1> PICK c \in Channels, n \in Nat : c = thread[t].on /\ n = thread[t].no
  BY DEF DialogueInv, IInv, TypeOK, OnChannel, Busy, Respond, At
<1> DEFINE w == writes[c]
<1> DEFINE r == writes'[c]
<1>1. Serves(t, c) /\ TypeOK /\ Dialogue!InOrder /\ Queued(c)
  BY DEF DialogueInv, IInv, Respond, Serves
<1>2. PICK s \in Sizes : r = Append(w, [no |-> n, size |-> s, part |-> 1])
  BY <1>1 DEF Respond, TypeOK
<1>3. /\ \A d \in Channels \ {c} : writes'[d] = writes[d]
      /\ UNCHANGED <<asked, inbox, wire, handlers, gone>>
      /\ thread'[t].at = "idle" /\ \A u \in Threads \ {t} : thread'[u] = thread[u]
  BY <1>1, MovedToIdle DEF Respond, TypeOK, server
<1>4. /\ Len(w) \in Nat /\ DOMAIN w = 1 .. Len(w) /\ DOMAIN r = 1 .. Len(w) + 1
      /\ \A i \in DOMAIN w : r[i] = w[i]
      /\ r[Len(w) + 1].no = n
  <2>1. w \in Seq(InFlight)
    BY <1>1 DEF TypeOK
  <2> QED
    BY <1>2, <2>1, AppendFrames
<1>5. /\ \A m : m \in Answering[c] <=> \E i \in DOMAIN w : m = w[i].no
      /\ \A m : m \in Answering'[c] <=> \E i \in DOMAIN r : m = r[i].no
  BY <1>1, Members, MembersNext
<1>6. \A i, k \in DOMAIN w : w[i].no = w[k].no => i = k
  BY <1>1 DEF Queued
<1>7. /\ Serving[c] = {n} /\ Serving'[c] = {}
  <2>1. \A u \in Threads : Serves(u, c) <=> u = t
    BY <1>1 DEF DialogueInv, IInv, Alone, Serves, At
  <2>2. \A u \in Threads : ~ Serves(u, c)'
    BY <1>3, <2>1 DEF Serves, At
  <2>3. \A m : m \in Serving[c] <=> m = n
    BY <1>1, <2>1, Members
  <2> QED
    BY <1>1, <2>2, <2>3, MembersNext
<1>8. \A m \in Answering[c] : m < n
  BY <1>1, <1>7 DEF Dialogue!InOrder
<1>9. \A d \in Channels \ {c} : Serving'[d] = Serving[d]
  <2> SUFFICES ASSUME NEW d \in Channels \ {c} PROVE Serving'[d] = Serving[d]
    OBVIOUS
  <2>1. \A u \in Threads : /\ Serves(u, d)' <=> Serves(u, d)
                           /\ Serves(u, d) => thread'[u].no = thread[u].no
    BY <1>1, <1>3 DEF Serves, At
  <2> QED
    BY <2>1, SameServing
<1> HIDE DEF w, r
<1>10. Answering'[c] = Answering[c] \cup {n}
  <2>1. ASSUME NEW m, m \in Answering'[c] PROVE m \in Answering[c] \cup {n}
    BY <1>4, <1>5, <2>1
  <2>2. ASSUME NEW m, m \in Answering[c] PROVE m \in Answering'[c]
    BY <1>4, <1>5, <2>2
  <2>3. n \in Answering'[c]
    <3>1. Len(w) + 1 \in DOMAIN r
      BY <1>4
    <3> QED
      BY <1>4, <1>5, <3>1
  <2> QED
    BY <2>1, <2>2, <2>3
<1>11. \A i, k \in DOMAIN r : r[i].no = r[k].no => i = k
  <2>1. \A i \in DOMAIN w : w[i].no < n
    BY <1>5, <1>8
  <2>2. \A i \in DOMAIN w : w[i].no # n
    BY <1>1, <2>1
  <2>3. \A i \in DOMAIN r : i \in DOMAIN w \/ i = Len(w) + 1
    BY <1>4
  <2> QED
    BY <1>4, <1>6, <2>2, <2>3
<1>12. \A d \in Channels : Queued(d)'
  <2>1. Queued(c)'
    BY <1>1, <1>3, <1>11 DEF Queued, r
  <2> QED
    BY <1>1, <1>3, <2>1, OtherQueues
<1>13. /\ Serving' = [Serving EXCEPT ![c] = {}]
       /\ Answering' = [Answering EXCEPT ![c] = @ \cup Serving[c]]
  BY <1>1, <1>3, <1>7, <1>9, <1>10, Unseen, OneChannel
<1>14. UNCHANGED <<Waiting, Delivered>>
  BY <1>3 DEF Waiting, Delivered
<1>15. Dialogue!Finish(c)
  BY <1>3, <1>7, <1>13, <1>14 DEF Dialogue!Finish
<1> QED
  BY <1>1, <1>12, <1>15 DEF Moves, Dialogue!Next

(* A unit is added to the wire, or the write ends on an app that has left.  *)
LEMMA WriteMoves ==
    ASSUME DialogueInv, NEW c \in Channels, NEW i \in DOMAIN writes[c], WriteUnit(c, i)
    PROVE  Moves
<1> DEFINE w == writes[c][i]
<1> DEFINE unit == [no |-> w.no, size |-> w.size, part |-> w.part, head |-> MakeBuffer(w.size)]
<1> DEFINE s == wire[c]
<1> DEFINE r == wire'[c]
<1>1. /\ TypeOK /\ Dialogue!InOrder /\ Queued(c)
      /\ UNCHANGED <<asked, inbox, thread, handlers, gone>>
      /\ \A d \in Channels \ {c} : writes'[d] = writes[d] /\ wire'[d] = wire[d]
      /\ s \in Seq(Unit)
  BY DEF DialogueInv, IInv, TypeOK, WriteUnit, server
<1>2. w.no \in Answering[c] /\ w.no \in 1 .. asked[c]
  BY <1>1, Members DEF Dialogue!InOrder
<1>3. UNCHANGED <<Waiting, Serving>>
  BY <1>1, SameThreadsServing DEF Waiting
<1>4. /\ Answering' = [Answering EXCEPT ![c] = Answering'[c]]
      /\ Delivered' = [Delivered EXCEPT ![c] = Delivered'[c]]
  BY <1>1, Unseen, OneChannel
<1>5. ASSUME writes'[c] = RemoveAt(writes[c], i)
      PROVE  /\ Answering' = [Answering EXCEPT ![c] = @ \ {w.no}]
             /\ \A d \in Channels : Queued(d)'
  <2>1. Answering'[c] = Answering[c] \ {w.no} /\ Queued(c)'
    BY <1>1, <1>5, RemovedWrite DEF Queued
  <2> QED
    BY <1>1, <1>4, <2>1, OtherQueues
<1>6. CASE c \in gone
  <2>1. writes'[c] = RemoveAt(writes[c], i) /\ wire' = wire
    BY <1>1, <1>6 DEF WriteUnit, TypeOK
  <2>2. Dialogue!Lose(c, w.no)
    BY <1>1, <1>2, <1>3, <1>5, <1>6, <2>1 DEF Dialogue!Lose, Delivered
  <2> QED
    BY <1>2, <1>5, <2>1, <2>2 DEF Moves, Dialogue!Next
<1>7. CASE c \notin gone
  <2>1. r = Append(s, unit)
    BY <1>1, <1>7 DEF WriteUnit, TypeOK
  <2>2. /\ Len(s) \in Nat /\ DOMAIN s = 1 .. Len(s) /\ DOMAIN r = 1 .. Len(s) + 1
        /\ \A k \in DOMAIN s : r[k] = s[k]
        /\ r[Len(s) + 1] = unit
    BY <1>1, <2>1, AppendFrames
  <2>3. unit.no = w.no /\ unit.part = w.part /\ unit.size = w.size
    OBVIOUS
  <2>4. /\ \A m : m \in Delivered[c] <=> \E k \in DOMAIN s : s[k].part = s[k].size /\ m = s[k].no
        /\ \A m : m \in Delivered'[c] <=> \E k \in DOMAIN r : r[k].part = r[k].size /\ m = r[k].no
    BY Members, MembersNext
  <2>5. /\ \A m \in Delivered[c] : m \in Delivered'[c]
        /\ \A m \in Delivered'[c] : m \in Delivered[c] \/ (m = w.no /\ w.part = w.size)
        /\ w.part = w.size => w.no \in Delivered'[c]
    <3> HIDE DEF s, r, unit, w
    <3>1. \A m \in Delivered[c] : m \in Delivered'[c]
      BY <2>2, <2>4
    <3>2. ASSUME NEW m \in Delivered'[c]
          PROVE  m \in Delivered[c] \/ (m = w.no /\ w.part = w.size)
      <4>1. PICK k \in DOMAIN r : r[k].part = r[k].size /\ m = r[k].no
        BY <2>4
      <4>2. CASE k \in DOMAIN s
        BY <2>2, <2>4, <4>1, <4>2
      <4>3. CASE k = Len(s) + 1
        BY <2>2, <2>3, <4>1, <4>3
      <4> QED
        BY <2>2, <4>2, <4>3
    <3>3. ASSUME w.part = w.size PROVE w.no \in Delivered'[c]
      <4>1. Len(s) + 1 \in DOMAIN r
        BY <2>2
      <4> QED
        BY <2>2, <2>3, <2>4, <3>3, <4>1
    <3> QED
      BY <3>1, <3>2, <3>3
  <2>6. CASE w.part = w.size
    <3>1. writes'[c] = RemoveAt(writes[c], i)
      BY <1>1, <1>7, <2>6 DEF WriteUnit, TypeOK
    <3>2. Delivered'[c] = Delivered[c] \cup {w.no}
      BY <2>5, <2>6
    <3>3. w.no \notin Delivered[c]
      BY <1>1, <1>2 DEF Dialogue!InOrder
    <3>4. Delivered' = [Delivered EXCEPT ![c] = @ \cup {w.no}]
      BY <1>4, <3>2
    <3>5. Dialogue!Deliver(c, w.no)
      BY <1>1, <1>2, <1>3, <1>5, <1>7, <3>1, <3>3, <3>4 DEF Dialogue!Deliver
    <3> QED
      BY <1>2, <1>5, <3>1, <3>5 DEF Moves, Dialogue!Next
  <2>7. CASE w.part # w.size
    <3> DEFINE a == writes[c]
    <3> DEFINE b == writes'[c]
    <3>1. b = [a EXCEPT ![i] = [w EXCEPT !.part = w.part + 1]] /\ a \in Seq(InFlight)
      BY <1>1, <1>7, <2>7 DEF WriteUnit, TypeOK
    <3>2. DOMAIN b = DOMAIN a /\ \A k \in DOMAIN a : b[k].no = a[k].no
      <4>1. w \in InFlight /\ DOMAIN b = DOMAIN a /\ \A k \in DOMAIN a \ {i} : b[k] = a[k]
        BY <3>1, ElementOfSeq, LenProperties
      <4>2. b[i].no = w.no
        BY <3>1, <4>1 DEF InFlight
      <4> QED
        BY <4>1, <4>2
    <3>3. Queued(c)'
      BY <1>1, <3>2 DEF Queued
    <3>4. Answering'[c] = Answering[c]
      <4>1. \A m : m \in Answering'[c] <=> m \in Answering[c]
        <5>1. /\ \A m : m \in Answering[c] <=> \E k \in DOMAIN a : m = a[k].no
              /\ \A m : m \in Answering'[c] <=> \E k \in DOMAIN b : m = b[k].no
          BY Members, MembersNext
        <5> HIDE DEF a, b
        <5> QED
          BY <3>2, <5>1
      <4> QED
        BY <4>1
    <3>5. Delivered'[c] = Delivered[c]
      BY <2>5, <2>7
    <3>6. UNCHANGED <<Answering, Delivered>>
      BY <1>1, <3>4, <3>5, Unseen
    <3> QED
      BY <1>1, <1>3, <3>3, <3>6, OtherQueues DEF Moves, Dialogue!vars
  <2> QED
    BY <2>6, <2>7
<1> QED
  BY <1>6, <1>7

-----------------------------------------------------------------------------
(* The other steps of threads.                                              *)

LEMMA OtherThreadMoves ==
    ASSUME DialogueInv, NEW t \in Threads, ~ At(t, "serve"), ~ At(t, "serve")',
           \A u \in Threads \ {t} : thread'[u] = thread[u]
    PROVE  Serving' = Serving
<1>1. \A c \in Channels, u \in Threads :
         /\ Serves(u, c)' <=> Serves(u, c)
         /\ Serves(u, c) => thread'[u].no = thread[u].no
  BY DEF Serves, At
<1> QED
  BY <1>1, SameServing, Unseen

LEMMA InstallMoves ==
    ASSUME DialogueInv, NEW t \in Threads, Install(t)
    PROVE  Moves
<1> PICK c : c = thread[t].on
  OBVIOUS
<1>1. /\ TypeOK /\ c \in sessions_ /\ sessions_ \subseteq Channels
      /\ handlers' = handlers \cup {c}
      /\ UNCHANGED <<asked, inbox, writes, wire, gone>>
  BY DEF DialogueInv, IInv, TypeOK, Kept, Install
<1>2. ~ At(t, "serve") /\ ~ At(t, "serve")' /\ \A u \in Threads \ {t} : thread'[u] = thread[u]
  BY <1>1 DEF Install, Go, At, TypeOK
<1>3. UNCHANGED <<Waiting, Serving, Answering, Delivered>>
  BY <1>1, <1>2, OtherThreadMoves DEF Waiting, Answering, Delivered
<1>4. \A d \in Channels : Queued(d)'
  BY <1>1, SameQueue DEF DialogueInv
<1>5. CASE c \in handlers
  <2>1. handlers' = handlers
    BY <1>1, <1>5
  <2> QED
    BY <1>1, <1>3, <1>4, <2>1 DEF Moves, Dialogue!vars
<1>6. CASE c \notin handlers
  BY <1>1, <1>3, <1>4, <1>6 DEF Moves, Dialogue!Next, Dialogue!Listen
<1> QED
  BY <1>5, <1>6

LEMMA StepMoves ==
    ASSUME DialogueInv, [Next]_vars
    PROVE  Moves
<1>1. TypeOK
  BY DEF DialogueInv, IInv
<1>2. CASE UNCHANGED vars
  BY <1>2, SameThreadsServing, UnseenStep DEF vars, server
<1>3. ASSUME NEW c \in Channels, Connect(c) \/ Handshake(c)
      PROVE  Moves
  BY <1>3, SameThreadsServing, UnseenStep DEF Connect, Handshake, server
<1>4. ASSUME NEW c \in Channels, Write(c)
      PROVE  Moves
  BY <1>4, WriteMoves DEF Write
<1>5. ASSUME NEW t \in Threads, AcceptError(t) \/ Endpoint(t) \/ AcceptAgain(t) \/ Return(t)
      PROVE  Moves
  <2>1. ~ At(t, "serve") /\ UNCHANGED <<inbox, writes, wire, asked, handlers, gone>>
    BY <1>5 DEF AcceptError, Endpoint, AcceptAgain, Return, At, server
  <2>2. ~ At(t, "serve")' /\ \A u \in Threads \ {t} : thread'[u] = thread[u]
    <3>1. CASE AcceptAgain(t)
      BY <1>1, <3>1, MovedToIdle DEF AcceptAgain, At
    <3>2. CASE AcceptError(t) \/ Endpoint(t) \/ Return(t)
      BY <1>1, <3>2 DEF AcceptError, Endpoint, Return, Throw, Go, TypeOK, At
    <3> QED
      BY <1>5, <3>1, <3>2
  <2> QED
    BY <2>1, <2>2, OtherThreadMoves, UnseenStep
<1>6. ASSUME NEW t \in Threads, NEW c \in Channels, Accept(t, c) \/ ReadError(t, c)
      PROVE  Moves
  <2>1. ~ At(t, "serve") /\ UNCHANGED <<inbox, writes, wire, asked, handlers, gone>>
    BY <1>6 DEF Accept, ReadError, At, server
  <2>2. ~ At(t, "serve")' /\ \A u \in Threads \ {t} : thread'[u] = thread[u]
    BY <1>1, <1>6, <2>1 DEF Accept, ReadError, Throw, Go, TypeOK, At
  <2> QED
    BY <2>1, <2>2, OtherThreadMoves, UnseenStep
<1>7. ASSUME NEW c \in Channels, App(c) \/ Handshake(c) \/ ReadSize(c) \/ Drop(c) \/ Write(c)
      PROVE  Moves
  BY <1>3, <1>4, <1>7, SendRequestMoves, SendEmptyMoves, LeaveMoves, ReadSizeMoves, DropMoves
     DEF App
<1>8. ASSUME NEW t \in Threads, Run(t)
      PROVE  Moves
  BY <1>5, <1>8, InstallMoves, RespondMoves DEF Run
<1>9. ASSUME NEW t \in Threads, NEW c \in Channels, Accept(t, c) \/ Read(t, c) \/ ReadError(t, c)
      PROVE  Moves
  BY <1>6, <1>9, ReadMoves
<1> QED
  BY <1>2, <1>7, <1>8, <1>9 DEF Next

LEMMA InitDialogue ==
    ASSUME Init
    PROVE  Dialogue!Init /\ \A c \in Channels : Queued(c)
<1>1. \A c \in Channels : /\ inbox[c] = <<>> /\ writes[c] = <<>> /\ wire[c] = <<>>
                          /\ \A t \in Threads : ~ Serves(t, c)
  BY DEF Init, Idle, Serves, At
<1>2. \A c \in Channels :
         Waiting[c] = {} /\ Serving[c] = {} /\ Answering[c] = {} /\ Delivered[c] = {}
  BY <1>1, Members
<1>3. /\ Waiting = Dialogue!Nothing /\ Serving = Dialogue!Nothing
      /\ Answering = Dialogue!Nothing /\ Delivered = Dialogue!Nothing
  BY <1>2, Mapped DEF Dialogue!Nothing
<1>4. \A c \in Channels : Queued(c)
  BY <1>1 DEF Queued
<1> QED
  BY <1>3, <1>4 DEF Init, Dialogue!Init

(* Session reads the next frame only when the handler of the last has       *)
(* returned, and writes what it is told to: for any number of threads, and  *)
(* of requests that an app sends ahead, each is handled once, in the order  *)
(* sent and one at a time, and answered once.                               *)
THEOREM TransportImplementsDialogue == Spec => ImplementsDialogue
<1> DEFINE Queues == \A c \in Channels : Queued(c)
<1>1. Init => Dialogue!Init /\ Dialogue!InOrder /\ Queues
  BY InitDialogue, DialogueInit
<1>2. IInv /\ Turns /\ Dialogue!InOrder /\ Queues /\ [Next]_vars =>
         [Dialogue!Next]_(Dialogue!vars) /\ Dialogue!InOrder' /\ Queues'
  BY StepMoves, DialogueOrder DEF DialogueInv, Moves
<1> HIDE DEF Queues
<1> QED
  BY <1>1, <1>2, Invariant, TurnsAlways, PTL DEF Spec, ImplementsDialogue, Dialogue!Spec
===============================================================================

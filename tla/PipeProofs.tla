----------------------------- MODULE PipeProofs -----------------------------
(***************************************************************************)
(* Proofs about Pipe, for any threads, names, sizes, limits and number of  *)
(* pipes: the order of the messages, the bound on what a pipe holds, and   *)
(* the agreement of counters, member lists and table with what they count. *)
(***************************************************************************)
EXTENDS Pipe, FiniteSetTheorems, WellFoundedInduction, TLAPS

(***************************************************************************)
(* A non-empty set of natural numbers has a smallest element: what         *)
(* induction by smallest counterexample rests on.                          *)
(***************************************************************************)
LEMMA MinimumExists ==
  ASSUME NEW T, T \subseteq Nat, T # {}
  PROVE  \E m \in T : \A n \in T : m <= n
<1> DEFINE Less == OpToRel(<, Nat)
<1>1. IsWellFoundedOn(Less, Nat)
  BY NatLessThanWellFounded
<1>2. \E x \in T : \A y \in T : ~ (<<y, x>> \in Less)
  <2> HIDE DEF Less
  <2> QED BY <1>1, WFMin
<1>3. PICK x \in T : \A y \in T : ~ (<<y, x>> \in Less)
  BY <1>2
<1>4. Less = {p \in Nat \X Nat : p[1] < p[2]}
  BY DEF OpToRel
<1>5. \A y \in T : x <= y
  <2> HIDE DEF Less
  <2>1. \A y \in T : ~ (y < x)
    BY <1>3, <1>4
  <2> QED BY <2>1
<1>6. QED
  BY <1>5

\* A message, and the fields of a pipe.  Bytes are not known to be natural here.
NumberedMessage == [no : Nat, size : Nat]

PipeShape ==
  [name : {Stored(name) : name \in Name}, queue : Seq(NumberedMessage), count : Int, used : Int,
   closed : BOOLEAN, readers : Seq(Member), writers : Seq(Member), lastRead : Nat]

\* The messages of a pipe are numbered in order, after the last one read, by
\* numbers that were given out.
InOrder(p, given) ==
  /\ p.lastRead <= given
  /\ \A i \in 1 .. Len(p.queue) : p.lastRead < p.queue[i].no /\ p.queue[i].no <= given
  /\ \A i, j \in 1 .. Len(p.queue) : i < j => p.queue[i].no < p.queue[j].no

\* Without its last message the pipe was not full.
HadRoom(p) ==
  /\ p.count = Len(p.queue)
  /\ Len(p.queue) # 0 => /\ p.used - p.queue[Len(p.queue)].size < buffer_size
                         /\ p.count <= max_messages

Sound(p, given) == p \in PipeShape /\ InOrder(p, given) /\ HadRoom(p)

CallShape ==
  [op : {"none", "write", "read", "add"}, pipe : Nat, size : Size \cup {0},
   block : BOOLEAN, who : Member \cup {0}, side : Side]

(***************************************************************************)
(* The inductive invariant.  A slot of the table and a thread inside a     *)
(* call name pipes that were created, so what either does to a pipe, also  *)
(* after its destruction, is done to a sound one.                          *)
(***************************************************************************)
PipesSound == pipes \in Seq(PipeShape) /\ \A id \in DOMAIN pipes : Sound(pipes[id], written)

CallsShaped ==
  /\ call \in [Thread -> CallShape]
  /\ \A t \in Thread : call[t].op # "none" => call[t].pipe \in DOMAIN pipes
  /\ \A t \in Thread : call[t].op = "write" => call[t].size \in Size
  /\ \A t \in Thread : call[t].op = "add" => call[t].who \in Member

PipeInv ==
  /\ written \in Nat
  /\ PipesSound
  /\ slots \in [Slot -> Nat] /\ \A s \in Slot : slots[s] # 0 => slots[s] \in DOMAIN pipes
  /\ CallsShaped

(***************************************************************************)
(* The elements of a queue are messages, and a message has two numbers.    *)
(***************************************************************************)
LEMMA QueueElements ==
  ASSUME NEW q \in Seq(NumberedMessage)
  PROVE  /\ Len(q) \in Nat
         /\ \A i \in 1 .. Len(q) : q[i].no \in Nat /\ q[i].size \in Nat
<1>1. \A m \in NumberedMessage : m.no \in Nat /\ m.size \in Nat
  BY DEF NumberedMessage
<1>2. Len(q) \in Nat /\ \A i \in 1 .. Len(q) : q[i] \in NumberedMessage
  OBVIOUS
<1> QED BY <1>1, <1>2, Zenon

(***************************************************************************)
(* The types of a sound pipe's fields, and of its messages.                *)
(***************************************************************************)
LEMMA SoundFields ==
  ASSUME NEW p, NEW given, Sound(p, given)
  PROVE  /\ p \in PipeShape
         /\ p.queue \in Seq(NumberedMessage)
         /\ Len(p.queue) \in Nat
         /\ p.count = Len(p.queue) /\ p.used \in Int /\ p.lastRead \in Nat
         /\ \A i \in 1 .. Len(p.queue) : p.queue[i].no \in Nat /\ p.queue[i].size \in Nat
<1>1. /\ p.queue \in Seq(NumberedMessage)
      /\ p.used \in Int /\ p.lastRead \in Nat
  BY DEF Sound, PipeShape
<1>2. p \in PipeShape /\ p.count = Len(p.queue)
  BY DEF Sound, HadRoom
<1> QED BY <1>1, <1>2, QueueElements

(***************************************************************************)
(* A new pipe (pipe.cpp:40-63) is sound.                                   *)
(***************************************************************************)
LEMMA NewPipeSound ==
  ASSUME NEW name \in Name, NEW given \in Nat
  PROVE  Sound(NewPipe(name), given)
BY DEF Sound, NewPipe, PipeShape, InOrder, HadRoom

(***************************************************************************)
(* Close and Flush (pipe.cpp:281-306) leave a sound pipe.                  *)
(***************************************************************************)
LEMMA DestroyedSound ==
  ASSUME NEW p, NEW given \in Nat, Sound(p, given)
  PROVE  Sound(Destroyed(p), given)
<1>1. p \in PipeShape /\ p.lastRead <= given
  BY DEF Sound, InOrder
<1>2. <<>> \in Seq(NumberedMessage) /\ 0 \in Int /\ TRUE \in BOOLEAN
  OBVIOUS
<1>3. Destroyed(p) \in PipeShape
  BY <1>1, <1>2, Zenon DEF Destroyed, PipeShape
<1>4. /\ Destroyed(p).queue = <<>> /\ Destroyed(p).count = 0
      /\ Destroyed(p).lastRead = p.lastRead
  BY <1>1 DEF Destroyed, PipeShape
<1> QED BY <1>1, <1>3, <1>4 DEF Sound, InOrder, HadRoom

(***************************************************************************)
(* A write to another pipe (pipe.cpp:99-108) leaves a sound pipe sound.    *)
(***************************************************************************)
LEMMA LaterSound ==
  ASSUME NEW p, NEW given \in Nat, Sound(p, given)
  PROVE  Sound(p, given + 1)
BY SoundFields DEF Sound, InOrder

(***************************************************************************)
(* Write (pipe.cpp:82-114) appends the next number to a pipe with room.    *)
(***************************************************************************)
LEMMA EnqueueSound ==
  ASSUME NEW p, NEW given \in Nat, Sound(p, given), ~IsFull(p), NEW size \in Size
  PROVE  Sound(Enqueue(p, [no |-> given + 1, size |-> size]), given + 1)
<1> DEFINE m == [no |-> given + 1, size |-> size]
           q == Append(p.queue, m)
           n == Len(p.queue)
           c == p.count + 1
           u == p.used + size
           e == [p EXCEPT !.queue = q, !.count = c, !.used = u]
<1>1. /\ p \in PipeShape /\ p.queue \in Seq(NumberedMessage) /\ n \in Nat
      /\ p.count = n /\ p.used \in Int /\ p.lastRead \in Nat
      /\ \A i \in 1 .. n : p.queue[i].no \in Nat /\ p.queue[i].size \in Nat
  BY SoundFields
<1>2. size \in Nat /\ buffer_size \in Nat /\ max_messages \in Nat
  BY PipeConstants
<1>3. m \in NumberedMessage /\ m.no = given + 1 /\ m.size = size
  BY <1>2 DEF NumberedMessage
<1>4. Enqueue(p, m) = e
  BY <1>1 DEF Enqueue, PipeShape
<1> HIDE DEF m
<1>5. /\ q \in Seq(NumberedMessage) /\ Len(q) = n + 1 /\ q[n + 1] = m
      /\ \A i \in 1 .. n : q[i] = p.queue[i]
  BY <1>1, <1>3
<1> HIDE DEF q
<1>6. c \in Int /\ u \in Int /\ c = n + 1 /\ u = p.used + size
  BY <1>1, <1>2
<1> HIDE DEF c, u
<1>7. e \in PipeShape /\ e.queue = q /\ e.count = c /\ e.used = u /\ e.lastRead = p.lastRead
  BY <1>1, <1>5, <1>6 DEF PipeShape
<1>8. p.used < buffer_size /\ n < max_messages
  BY <1>1, <1>2 DEF IsFull
<1>9. /\ p.lastRead <= given
      /\ \A i \in 1 .. n : p.lastRead < p.queue[i].no /\ p.queue[i].no <= given
      /\ \A i, j \in 1 .. n : i < j => p.queue[i].no < p.queue[j].no
  BY DEF Sound, InOrder
<1> HIDE DEF e, n
<1>10. HadRoom(e)
  BY <1>1, <1>2, <1>3, <1>5, <1>6, <1>7, <1>8 DEF HadRoom
<1>11. ASSUME NEW i \in 1 .. n + 1
       PROVE  p.lastRead < q[i].no /\ q[i].no <= given + 1 /\ q[i].no \in Nat
  <2>1. CASE i = n + 1
    BY <2>1, <1>1, <1>3, <1>5, <1>9
  <2>2. CASE i \in 1 .. n
    BY <2>2, <1>1, <1>5, <1>9
  <2> QED BY <2>1, <2>2, <1>1
<1>12. ASSUME NEW i \in 1 .. n + 1, NEW j \in 1 .. n + 1, i < j
       PROVE  q[i].no < q[j].no
  <2>1. i \in 1 .. n
    BY <1>1, <1>12
  <2>2. CASE j = n + 1
    BY <2>1, <2>2, <1>1, <1>3, <1>5, <1>9
  <2>3. CASE j \in 1 .. n
    BY <2>1, <2>3, <1>12, <1>5, <1>9
  <2> QED BY <2>2, <2>3, <1>1
<1>13. InOrder(e, given + 1)
  <2>1. p.lastRead <= given + 1
    BY <1>1, <1>9
  <2> QED BY <2>1, <1>5, <1>7, <1>11, <1>12 DEF InOrder
<1> QED BY <1>4, <1>7, <1>10, <1>13 DEF Sound, m

(***************************************************************************)
(* Read (pipe.cpp:116-165) takes the first message, and what is left comes *)
(* after it.                                                               *)
(***************************************************************************)
LEMMA DequeueSound ==
  ASSUME NEW p, NEW given \in Nat, Sound(p, given), ~IsEmpty(p)
  PROVE  Sound(Dequeue(p), given)
<1> DEFINE q == Tail(p.queue)
           n == Len(p.queue)
           h == p.queue[1]
           c == p.count - 1
           u == p.used - h.size
           r == h.no
           d == [p EXCEPT !.queue = q, !.count = c, !.used = u, !.lastRead = r]
<1>1. /\ p \in PipeShape /\ p.queue \in Seq(NumberedMessage) /\ n \in Nat
      /\ p.count = n /\ p.used \in Int /\ p.lastRead \in Nat
      /\ \A i \in 1 .. n : p.queue[i].no \in Nat /\ p.queue[i].size \in Nat
  BY SoundFields
<1>2. n >= 1 /\ p.queue # <<>>
  BY <1>1 DEF IsEmpty
<1>3. buffer_size \in Nat /\ max_messages \in Nat
  BY PipeConstants
<1>4. /\ q \in Seq(NumberedMessage) /\ Len(q) = n - 1
      /\ \A i \in 1 .. n - 1 : q[i] = p.queue[i + 1]
      /\ Head(p.queue) = h
  BY <1>1, <1>2
<1>5. h.no \in Nat /\ h.size \in Nat
  BY <1>1, <1>2
<1>6. Dequeue(p) = d
  BY <1>1, <1>4 DEF Dequeue, PipeShape
<1> HIDE DEF q, h
<1>7. c \in Int /\ u \in Int /\ r \in Nat /\ c = n - 1 /\ u = p.used - h.size /\ r = h.no
  BY <1>1, <1>5
<1> HIDE DEF c, u, r
<1>8. d \in PipeShape
  BY <1>1, <1>4, <1>7 DEF PipeShape
<1>9. d.queue = q /\ d.count = c /\ d.used = u /\ d.lastRead = r
  BY <1>1 DEF PipeShape
<1>10. /\ \A i \in 1 .. n : p.lastRead < p.queue[i].no /\ p.queue[i].no <= given
       /\ \A i, j \in 1 .. n : i < j => p.queue[i].no < p.queue[j].no
  BY DEF Sound, InOrder
<1>11. p.used - p.queue[n].size < buffer_size /\ n <= max_messages
  BY <1>1, <1>2 DEF Sound, HadRoom
<1> HIDE DEF d, n
<1>12. HadRoom(d)
  <2>1. CASE n = 1
    BY <2>1, <1>4, <1>7, <1>9 DEF HadRoom
  <2>2. CASE n > 1
    <3>1. q[n - 1] = p.queue[n]
      BY <2>2, <1>1, <1>4
    <3>2. p.queue[n].size \in Nat
      BY <1>1, <1>2
    <3>3. /\ p.used - h.size - p.queue[n].size < buffer_size
          /\ n - 1 <= max_messages
      BY <3>2, <1>1, <1>3, <1>5, <1>11
    <3> QED BY <3>1, <3>3, <1>4, <1>7, <1>9 DEF HadRoom
  <2> QED BY <2>1, <2>2, <1>1, <1>2
<1>13. ASSUME NEW i \in 1 .. n - 1
       PROVE  h.no < q[i].no /\ q[i].no <= given
  <2>1. 1 \in 1 .. n /\ i + 1 \in 1 .. n /\ 1 < i + 1
    BY <1>1, <1>2
  <2> QED BY <2>1, <1>4, <1>10 DEF h
<1>14. ASSUME NEW i \in 1 .. n - 1, NEW j \in 1 .. n - 1, i < j
       PROVE  q[i].no < q[j].no
  <2>1. i + 1 \in 1 .. n /\ j + 1 \in 1 .. n /\ i + 1 < j + 1
    BY <1>1, <1>2, <1>14
  <2> QED BY <2>1, <1>4, <1>10
<1>15. h.no <= given
  BY <1>1, <1>2, <1>10 DEF h
<1>16. InOrder(d, given)
  BY <1>4, <1>7, <1>9, <1>13, <1>14, <1>15 DEF InOrder
<1> QED BY <1>6, <1>8, <1>12, <1>16 DEF Sound

(***************************************************************************)
(* The member lists (pipe.cpp:193-255) have no part in it.                 *)
(***************************************************************************)
LEMMA MembersSound ==
  ASSUME NEW p, NEW given \in Nat, Sound(p, given), NEW side \in Side, NEW list \in Seq(Member)
  PROVE  Sound([p EXCEPT ![side] = list], given)
<1> DEFINE e == [p EXCEPT ![side] = list]
<1>1. p \in PipeShape
  BY DEF Sound
<1>2. CASE side = "readers"
  <2>1. e \in PipeShape
    BY <1>1, <1>2 DEF PipeShape
  <2>2. /\ e.queue = p.queue /\ e.count = p.count /\ e.used = p.used /\ e.lastRead = p.lastRead
    BY <1>1, <1>2 DEF PipeShape
  <2> QED BY <2>1, <2>2 DEF Sound, InOrder, HadRoom
<1>3. CASE side = "writers"
  <2>1. e \in PipeShape
    BY <1>1, <1>3 DEF PipeShape
  <2>2. /\ e.queue = p.queue /\ e.count = p.count /\ e.used = p.used /\ e.lastRead = p.lastRead
    BY <1>1, <1>3 DEF PipeShape
  <2> QED BY <2>1, <2>2 DEF Sound, InOrder, HadRoom
<1> QED BY <1>2, <1>3 DEF Side

(***************************************************************************)
(* The loops over slots and members stop at one of those they look for.    *)
(***************************************************************************)
LEMMA FirstIn ==
  ASSUME NEW S, S \subseteq Nat, S # {}
  PROVE  First(S) \in S
BY MinimumExists DEF First

(***************************************************************************)
(* Adding a member (AddReader and AddWriter, pipe.cpp:193-223) gives a     *)
(* list of members.                                                        *)
(***************************************************************************)
LEMMA WithMemberType ==
  ASSUME NEW list \in Seq(Member), NEW who \in Member
  PROVE  WithMember(list, who) \in Seq(Member)
BY DEF WithMember

(***************************************************************************)
(* Removing the first entry of a member (RemoveReader and RemoveWriter,    *)
(* pipe.cpp:225-255) gives a list of members.                              *)
(***************************************************************************)
LEMMA WithoutMemberType ==
  ASSUME NEW list \in Seq(Member), NEW who \in Range(list)
  PROVE  WithoutMember(list, who) \in Seq(Member)
<1> DEFINE S == {i \in DOMAIN list : list[i] = who}
           k == First(S)
<1>1. S \subseteq Nat /\ S # {}
  BY DEF Range
<1>2. k \in S
  BY <1>1, FirstIn, Zenon
<1>3. k \in 1 .. Len(list) /\ Len(list) \in Nat
  BY <1>2
<1> HIDE DEF k
<1>4. SubSeq(list, 1, k - 1) \in Seq(Member)
  BY <1>3
<1>5. SubSeq(list, k + 1, Len(list)) \in Seq(Member)
  BY <1>3
<1> QED BY <1>4, <1>5 DEF WithoutMember, RemoveAt, k

(***************************************************************************)
(* A step that replaces one pipe by a sound one leaves all pipes sound.    *)
(***************************************************************************)
LEMMA OnePipeChanges ==
  ASSUME PipesSound, written \in Nat, written' = written \/ written' = written + 1,
         NEW id \in DOMAIN pipes, NEW p, Sound(p, written'),
         pipes' = [pipes EXCEPT ![id] = p]
  PROVE  PipesSound' /\ DOMAIN pipes' = DOMAIN pipes
<1>1. pipes \in Seq(PipeShape) /\ p \in PipeShape
  BY DEF PipesSound, Sound
<1>2. pipes' \in Seq(PipeShape) /\ DOMAIN pipes' = DOMAIN pipes
  BY <1>1
<1>3. ASSUME NEW i \in DOMAIN pipes
      PROVE  Sound(pipes'[i], written')
  <2>1. CASE i = id
    BY <2>1, <1>1
  <2>2. CASE i # id
    <3>1. Sound(pipes[i], written) /\ pipes'[i] = pipes[i]
      BY <2>2, <1>1 DEF PipesSound
    <3>2. Sound(pipes[i], written')
      BY <3>1, LaterSound, Zenon
    <3> QED BY <3>1, <3>2
  <2> QED BY <2>1, <2>2
<1> QED BY <1>2, <1>3 DEF PipesSound

(***************************************************************************)
(* Returning from a call keeps the calls shaped.                           *)
(***************************************************************************)
LEMMA ReturnShaped ==
  ASSUME CallsShaped, NEW t \in Thread, Return(t), DOMAIN pipes' = DOMAIN pipes
  PROVE  CallsShaped'
<1>1. Idle \in CallShape /\ Idle.op = "none"
  BY DEF Idle, CallShape, Side
<1>2. call' = [call EXCEPT ![t] = Idle] /\ call \in [Thread -> CallShape]
  BY DEF Return, CallsShaped
<1> HIDE DEF Idle
<1>3. call' \in [Thread -> CallShape]
  BY <1>1, <1>2
<1>4. \A u \in Thread : call'[u] = call[u] \/ call'[u].op = "none"
  BY <1>1, <1>2
<1> QED BY <1>3, <1>4 DEF CallsShaped

(***************************************************************************)
(* The initial state.                                                      *)
(***************************************************************************)
LEMMA PipeInvInit == PipeInit => PipeInv
<1> SUFFICES ASSUME PipeInit
             PROVE  PipeInv
  OBVIOUS
<1>1. pipes = <<>> /\ DOMAIN pipes = {} /\ written = 0
  BY DEF PipeInit
<1>2. PipesSound
  BY <1>1 DEF PipesSound
<1>3. Idle \in CallShape /\ Idle.op = "none"
  BY DEF Idle, CallShape, Side
<1>4. CallsShaped
  <2> HIDE DEF Idle
  <2> QED BY <1>3 DEF PipeInit, CallsShaped
<1>5. slots \in [Slot -> Nat] /\ \A s \in Slot : slots[s] = 0
  BY DEF PipeInit
<1> QED BY <1>1, <1>2, <1>4, <1>5 DEF PipeInv

(***************************************************************************)
(* The manager's operations (pipe.cpp:345-450): a new pipe is sound, and   *)
(* the pipes of the table that are destroyed stay sound.                   *)
(***************************************************************************)
LEMMA CreateStep ==
  ASSUME PipeInv, NEW name \in Name, CreatePipe(name)
  PROVE  PipeInv'
<1> DEFINE p == NewPipe(name)
           n == Len(pipes)
           free == {s \in Slot : slots[s] = 0}
           k == First(free)
<1>1. /\ written \in Nat /\ pipes \in Seq(PipeShape)
      /\ \A id \in DOMAIN pipes : Sound(pipes[id], written)
      /\ slots \in [Slot -> Nat]
      /\ \A s \in Slot : slots[s] # 0 => slots[s] \in DOMAIN pipes
  BY DEF PipeInv, PipesSound
<1>2. Sound(p, written) /\ p \in PipeShape
  BY <1>1, NewPipeSound DEF Sound
<1>3. /\ pipes' = Append(pipes, p) /\ slots' = [slots EXCEPT ![k] = n + 1]
      /\ written' = written /\ call' = call
  BY DEF CreatePipe
<1> HIDE DEF p, k
<1>4. /\ n \in Nat /\ DOMAIN pipes = 1 .. n
      /\ pipes' \in Seq(PipeShape) /\ DOMAIN pipes' = 1 .. n + 1
      /\ pipes'[n + 1] = p /\ \A i \in 1 .. n : pipes'[i] = pipes[i]
  BY <1>1, <1>2, <1>3
<1> HIDE DEF n
<1>5. DOMAIN pipes \subseteq DOMAIN pipes' /\ n + 1 \in DOMAIN pipes'
  BY <1>4
<1>6. PipesSound'
  <2>1. ASSUME NEW i \in 1 .. n + 1
        PROVE  Sound(pipes'[i], written)
    <3>1. CASE i = n + 1
      BY <3>1, <1>2, <1>4
    <3>2. CASE i \in 1 .. n
      BY <3>2, <1>1, <1>4
    <3> QED BY <3>1, <3>2, <1>4
  <2> QED BY <2>1, <1>3, <1>4 DEF PipesSound
<1>7. /\ slots' \in [Slot -> Nat]
      /\ \A s \in Slot : slots'[s] = slots[s] \/ slots'[s] = n + 1
  <2>1. n + 1 \in Nat
    BY <1>4
  <2> QED BY <2>1, <1>1, <1>3, Zenon
<1>8. CallsShaped'
  BY <1>3, <1>5 DEF PipeInv, CallsShaped
<1> QED BY <1>1, <1>3, <1>5, <1>6, <1>7, <1>8 DEF PipeInv

(***************************************************************************)
(* Destroying the first slot that was looked for (pipe.cpp:378-406).       *)
(***************************************************************************)
LEMMA DestroyStep ==
  ASSUME PipeInv, NEW S, S \subseteq Slot, S # {}, \A s \in S : slots[s] # 0,
         DestroySlot(First(S))
  PROVE  PipeInv'
<1> DEFINE k == First(S)
           id == slots[k]
           p == Destroyed(pipes[id])
<1>1. /\ written \in Nat /\ PipesSound /\ CallsShaped
      /\ slots \in [Slot -> Nat]
      /\ \A s \in Slot : slots[s] # 0 => slots[s] \in DOMAIN pipes
  BY DEF PipeInv
<1>2. k \in S
  <2>1. S \subseteq Nat
    BY DEF Slot
  <2> QED BY <2>1, FirstIn, Zenon
<1>3. k \in Slot /\ id \in DOMAIN pipes
  BY <1>1, <1>2
<1>4. /\ pipes' = [pipes EXCEPT ![id] = p] /\ slots' = [slots EXCEPT ![k] = 0]
      /\ call' = call /\ written' = written
  BY <1>3 DEF DestroySlot
<1>5. Sound(p, written)
  BY <1>1, <1>3, DestroyedSound DEF PipesSound
<1> HIDE DEF p, id, k
<1>6. PipesSound' /\ DOMAIN pipes' = DOMAIN pipes
  <2>1. Sound(p, written')
    BY <1>4, <1>5
  <2> QED BY <2>1, <1>1, <1>3, <1>4, OnePipeChanges, Zenon
<1>7. CallsShaped'
  BY <1>1, <1>4, <1>6 DEF CallsShaped
<1>8. slots' \in [Slot -> Nat] /\ \A s \in Slot : slots'[s] = slots[s] \/ slots'[s] = 0
  BY <1>1, <1>4
<1> QED BY <1>1, <1>4, <1>6, <1>7, <1>8 DEF PipeInv

(***************************************************************************)
(* CloseAllPipes destroys every pipe of the table.                         *)
(***************************************************************************)
LEMMA CloseAllStep ==
  ASSUME PipeInv, CloseAllPipes
  PROVE  PipeInv'
<1>1. /\ written \in Nat /\ pipes \in Seq(PipeShape)
      /\ \A id \in DOMAIN pipes : Sound(pipes[id], written)
  BY DEF PipeInv, PipesSound
<1>2. /\ pipes' = [id \in DOMAIN pipes |->
                     IF Slots(id) # {} THEN Destroyed(pipes[id]) ELSE pipes[id]]
      /\ slots' = [s \in Slot |-> 0] /\ call' = call /\ written' = written
  BY DEF CloseAllPipes
<1>3. ASSUME NEW id \in DOMAIN pipes
      PROVE  Sound(pipes'[id], written) /\ pipes'[id] \in PipeShape
  <2>1. Sound(pipes[id], written) /\ Sound(Destroyed(pipes[id]), written)
    BY <1>1, DestroyedSound
  <2>2. pipes'[id] = Destroyed(pipes[id]) \/ pipes'[id] = pipes[id]
    BY <1>2
  <2> QED BY <2>1, <2>2 DEF Sound
<1>4. DOMAIN pipes' = DOMAIN pipes
  BY <1>2
<1>5. pipes' \in Seq(PipeShape)
  <2>1. Len(pipes) \in Nat /\ DOMAIN pipes = 1 .. Len(pipes)
    BY <1>1
  <2>2. pipes' \in [1 .. Len(pipes) -> PipeShape]
    BY <2>1, <1>2, <1>3
  <2> QED BY <2>1, <2>2
<1>6. PipesSound'
  BY <1>2, <1>3, <1>4, <1>5 DEF PipesSound
<1>7. CallsShaped'
  BY <1>2, <1>4 DEF PipeInv, CallsShaped
<1> QED BY <1>1, <1>2, <1>6, <1>7 DEF PipeInv

(***************************************************************************)
(* The calls up to the lock: the thread names a pipe of the table.         *)
(***************************************************************************)
LEMMA EnterStep ==
  ASSUME PipeInv, NEW t \in Thread, NEW id, Slots(id) # {}, NEW c \in CallShape, c.pipe = id,
         c.op = "write" => c.size \in Size, c.op = "add" => c.who \in Member,
         call' = [call EXCEPT ![t] = c], UNCHANGED <<slots, pipe_count, pipes, written>>
  PROVE  PipeInv'
<1>1. id \in DOMAIN pipes
  BY DEF PipeInv, Slots
<1>2. call \in [Thread -> CallShape]
  BY DEF PipeInv, CallsShaped
<1>3. call' \in [Thread -> CallShape] /\ \A u \in Thread : call'[u] = call[u] \/ call'[u] = c
  BY <1>2
<1>4. CallsShaped'
  BY <1>1, <1>3 DEF PipeInv, CallsShaped
<1>5. PipesSound'
  BY DEF PipeInv, PipesSound
<1> QED BY <1>4, <1>5 DEF PipeInv

(***************************************************************************)
(* The part of a call under the lock: it works on the pipe it looked up,   *)
(* whether or not the pipe is still in the table.                          *)
(***************************************************************************)
LEMMA TransferStep ==
  ASSUME PipeInv, NEW t \in Thread, NEW p, call[t].op # "none", Sound(p, written'),
         pipes' = [pipes EXCEPT ![call[t].pipe] = p],
         written' = written \/ written' = written + 1, Return(t), slots' = slots
  PROVE  PipeInv'
<1>1. /\ written \in Nat /\ PipesSound /\ CallsShaped /\ slots \in [Slot -> Nat]
      /\ \A s \in Slot : slots[s] # 0 => slots[s] \in DOMAIN pipes
  BY DEF PipeInv
<1>2. call[t].pipe \in DOMAIN pipes
  BY <1>1 DEF CallsShaped
<1>3. PipesSound' /\ DOMAIN pipes' = DOMAIN pipes
  BY <1>1, <1>2, OnePipeChanges, Zenon
<1>4. CallsShaped'
  BY <1>1, <1>3, ReturnShaped
<1>5. written' \in Nat
  BY <1>1
<1> QED BY <1>1, <1>3, <1>4, <1>5 DEF PipeInv

(***************************************************************************)
(* A call that gives up or fails only returns (pipe.cpp:89-106, 130-143).  *)
(***************************************************************************)
LEMMA ReturnStep ==
  ASSUME PipeInv, NEW t \in Thread, Return(t), UNCHANGED <<slots, pipe_count, pipes, written>>
  PROVE  PipeInv'
<1>1. CallsShaped'
  BY ReturnShaped DEF PipeInv
<1>2. PipesSound'
  BY DEF PipeInv, PipesSound
<1> QED BY <1>1, <1>2 DEF PipeInv

(***************************************************************************)
(* A changed member list of one pipe leaves all pipes sound.               *)
(***************************************************************************)
LEMMA MembersStep ==
  ASSUME PipesSound, written \in Nat, written' = written,
         NEW id \in DOMAIN pipes, NEW side \in Side, NEW list \in Seq(Member),
         pipes' = [pipes EXCEPT ![id] = [pipes[id] EXCEPT ![side] = list]]
  PROVE  PipesSound' /\ DOMAIN pipes' = DOMAIN pipes
<1> DEFINE p == [pipes[id] EXCEPT ![side] = list]
<1>1. Sound(pipes[id], written)
  BY DEF PipesSound
<1>2. Sound(p, written)
  BY <1>1, MembersSound
<1> HIDE DEF p
<1>3. Sound(p, written') /\ pipes' = [pipes EXCEPT ![id] = p]
  BY <1>2 DEF p
<1> QED BY <1>3, OnePipeChanges, Zenon

(***************************************************************************)
(* Every step keeps the invariant.                                         *)
(***************************************************************************)
LEMMA PipeInvStep == PipeInv /\ [PipeNext]_pipeVars => PipeInv'
<1> SUFFICES ASSUME PipeInv, [PipeNext]_pipeVars
             PROVE  PipeInv'
  OBVIOUS
<1>1. /\ written \in Nat /\ PipesSound /\ CallsShaped /\ slots \in [Slot -> Nat]
      /\ \A s \in Slot : slots[s] # 0 => slots[s] \in DOMAIN pipes
  BY DEF PipeInv
<1>2. ASSUME NEW name \in Name, CreatePipe(name)
      PROVE  PipeInv'
  BY <1>2, CreateStep
<1>3. ASSUME NEW name \in Name, DestroyNamed(name)
      PROVE  PipeInv'
  <2> DEFINE S == {s \in Slot : NameMatches(s, name)}
  <2>1. S # {} /\ DestroySlot(First(S))
    BY <1>3 DEF DestroyNamed
  <2>2. S \subseteq Slot /\ \A s \in S : slots[s] # 0
    BY DEF NameMatches
  <2> QED BY <2>1, <2>2, DestroyStep
<1>4. ASSUME NEW id \in PipeId, DestroyPipe(id)
      PROVE  PipeInv'
  <2>1. Slots(id) # {} /\ DestroySlot(First(Slots(id)))
    BY <1>4 DEF DestroyPipe
  <2>2. Slots(id) \subseteq Slot /\ \A s \in Slots(id) : slots[s] # 0
    BY DEF Slots
  <2> QED BY <2>1, <2>2, DestroyStep
<1>5. CASE CloseAllPipes
  BY <1>5, CloseAllStep
<1>6. ASSUME NEW t \in Thread, NEW id \in PipeId, NEW block \in BOOLEAN, NEW size \in Size,
             EnterTransfer(t, "write", id, size, block)
      PROVE  PipeInv'
  <2> DEFINE c == [Idle EXCEPT !.op = "write", !.pipe = id, !.size = size, !.block = block]
  <2>1. /\ c \in CallShape /\ c.op = "write" /\ c.pipe = id /\ c.size = size
    <3>1. Idle \in CallShape
      BY DEF Idle, CallShape, Side
    <3>2. id \in Nat
      BY DEF PipeId
    <3> QED BY <3>1, <3>2 DEF CallShape
  <2>2. Slots(id) # {} /\ call' = [call EXCEPT ![t] = c] /\ UNCHANGED <<slots, pipe_count, pipes, written>>
    BY <1>6 DEF EnterTransfer
  <2> HIDE DEF c
  <2> QED BY <2>1, <2>2, EnterStep
<1>7. ASSUME NEW t \in Thread, NEW id \in PipeId, NEW block \in BOOLEAN,
             EnterTransfer(t, "read", id, 0, block)
      PROVE  PipeInv'
  <2> DEFINE c == [Idle EXCEPT !.op = "read", !.pipe = id, !.size = 0, !.block = block]
  <2>1. /\ c \in CallShape /\ c.op = "read" /\ c.pipe = id
    <3>1. Idle \in CallShape
      BY DEF Idle, CallShape, Side
    <3>2. id \in Nat
      BY DEF PipeId
    <3> QED BY <3>1, <3>2 DEF CallShape
  <2>2. Slots(id) # {} /\ call' = [call EXCEPT ![t] = c] /\ UNCHANGED <<slots, pipe_count, pipes, written>>
    BY <1>7 DEF EnterTransfer
  <2> HIDE DEF c
  <2> QED BY <2>1, <2>2, EnterStep
<1>8. ASSUME NEW t \in Thread, NEW id \in PipeId, NEW side \in Side, NEW who \in Member,
             EnterAdd(t, id, side, who)
      PROVE  PipeInv'
  <2> DEFINE c == [Idle EXCEPT !.op = "add", !.pipe = id, !.side = side, !.who = who]
  <2>1. /\ c \in CallShape /\ c.op = "add" /\ c.pipe = id /\ c.who = who
    <3>1. Idle \in CallShape
      BY DEF Idle, CallShape, Side
    <3>2. id \in Nat
      BY DEF PipeId
    <3> QED BY <3>1, <3>2 DEF CallShape
  <2>2. Slots(id) # {} /\ call' = [call EXCEPT ![t] = c] /\ UNCHANGED <<slots, pipe_count, pipes, written>>
    BY <1>8 DEF EnterAdd
  <2> HIDE DEF c
  <2> QED BY <2>1, <2>2, EnterStep
<1>9. ASSUME NEW id \in PipeId, NEW side \in Side, NEW who \in Member, RemoveMember(id, side, who)
      PROVE  PipeInv'
  <2> DEFINE list == WithoutMember(pipes[id][side], who)
  <2>1. id \in DOMAIN pipes
    BY <1>1, <1>9 DEF RemoveMember, Slots
  <2>2. pipes[id] \in PipeShape
    BY <2>1, <1>1 DEF PipesSound, Sound
  <2>3. pipes[id][side] \in Seq(Member)
    BY <2>2 DEF PipeShape, Side
  <2>4. list \in Seq(Member)
    BY <2>3, <1>9, WithoutMemberType DEF RemoveMember
  <2>5. /\ pipes' = [pipes EXCEPT ![id] = [pipes[id] EXCEPT ![side] = list]]
        /\ slots' = slots /\ call' = call /\ written' = written
    BY <1>9 DEF RemoveMember
  <2> HIDE DEF list
  <2>6. PipesSound' /\ DOMAIN pipes' = DOMAIN pipes
    BY <2>1, <2>4, <2>5, <1>1, MembersStep
  <2>7. CallsShaped'
    BY <2>5, <2>6, <1>1 DEF CallsShaped
  <2> QED BY <2>5, <2>6, <2>7, <1>1 DEF PipeInv
<1>10. ASSUME NEW t \in Thread, Step(t)
       PROVE  PipeInv'
  <2> DEFINE id == call[t].pipe
  <2>1. CASE Write(t)
    <3> DEFINE p == Enqueue(pipes[id], [no |-> written + 1, size |-> call[t].size])
    <3>1. call[t].op = "write" /\ ~IsFull(pipes[id]) /\ written' = written + 1 /\ Return(t) /\ slots' = slots
      BY <2>1 DEF Write
    <3>2. id \in DOMAIN pipes /\ call[t].size \in Size
      BY <3>1, <1>1 DEF CallsShaped
    <3>3. pipes' = [pipes EXCEPT ![id] = p]
      BY <2>1, <3>2 DEF Write
    <3>4. Sound(p, written')
      BY <3>1, <3>2, <1>1, EnqueueSound DEF PipesSound
    <3> HIDE DEF p
    <3> QED BY <3>1, <3>3, <3>4, TransferStep
  <2>2. CASE WriteFails(t)
    BY <2>2, ReturnStep DEF WriteFails
  <2>3. CASE Read(t)
    <3> DEFINE p == Dequeue(pipes[id])
    <3>1. call[t].op = "read" /\ ~IsEmpty(pipes[id]) /\ written' = written /\ Return(t) /\ slots' = slots
      BY <2>3 DEF Read
    <3>2. id \in DOMAIN pipes
      BY <3>1, <1>1 DEF CallsShaped
    <3>3. pipes' = [pipes EXCEPT ![id] = p]
      BY <2>3, <3>2 DEF Read
    <3>4. Sound(p, written')
      BY <3>1, <3>2, <1>1, DequeueSound DEF PipesSound
    <3> HIDE DEF p
    <3> QED BY <3>1, <3>3, <3>4, TransferStep
  <2>4. CASE GiveUp(t)
    BY <2>4, ReturnStep DEF GiveUp
  <2>5. CASE Add(t)
    <3> DEFINE side == call[t].side
               list == WithMember(pipes[id][side], call[t].who)
    <3>1. call[t].op = "add" /\ written' = written /\ Return(t) /\ slots' = slots
      BY <2>5 DEF Add
    <3>2. id \in DOMAIN pipes /\ call[t].who \in Member
      BY <3>1, <1>1 DEF CallsShaped
    <3>3. side \in Side
      BY <1>1 DEF CallsShaped, CallShape
    <3>4. pipes[id] \in PipeShape
      BY <3>2, <1>1 DEF PipesSound, Sound
    <3>5. pipes[id][side] \in Seq(Member)
      BY <3>3, <3>4 DEF PipeShape, Side
    <3>6. list \in Seq(Member)
      BY <3>2, <3>5, WithMemberType
    <3>7. pipes' = [pipes EXCEPT ![id] = [pipes[id] EXCEPT ![side] = list]]
      BY <2>5 DEF Add
    <3> HIDE DEF list, side, id
    <3>8. PipesSound' /\ DOMAIN pipes' = DOMAIN pipes
      BY <3>1, <3>2, <3>3, <3>6, <3>7, <1>1, MembersStep
    <3>9. CallsShaped'
      BY <3>1, <3>8, <1>1, ReturnShaped
    <3> QED BY <3>1, <3>8, <3>9, <1>1 DEF PipeInv
  <2> QED BY <1>10, <2>1, <2>2, <2>3, <2>4, <2>5 DEF Step
<1>11. CASE UNCHANGED pipeVars
  BY <1>11 DEF pipeVars, PipeInv, PipesSound, CallsShaped
<1> QED BY <1>2, <1>3, <1>4, <1>5, <1>6, <1>7, <1>8, <1>9, <1>10, <1>11 DEF PipeNext

(***************************************************************************)
(* Messages are read in the order they were accepted, each once, for any   *)
(* threads, pipes and limits (Write and Read, pipe.cpp:82-165).            *)
(***************************************************************************)
THEOREM PipeReadInOrder == PipeSpec => []ReadInOrder
<1>1. PipeInv => ReadInOrder
  <2> SUFFICES ASSUME PipeInv, NEW id \in DOMAIN pipes
               PROVE  \A i \in DOMAIN pipes[id].queue :
                        /\ pipes[id].lastRead < pipes[id].queue[i].no
                        /\ \A j \in DOMAIN pipes[id].queue :
                             i < j => pipes[id].queue[i].no < pipes[id].queue[j].no
    BY DEF ReadInOrder
  <2>1. Sound(pipes[id], written)
    BY DEF PipeInv, PipesSound
  <2>2. DOMAIN pipes[id].queue = 1 .. Len(pipes[id].queue)
    BY <2>1, SoundFields
  <2> QED BY <2>1, <2>2 DEF Sound, InOrder
<1> QED BY <1>1, PipeInvInit, PipeInvStep, PTL DEF PipeSpec

(***************************************************************************)
(* A pipe goes past its byte limit by one message at most and never past   *)
(* its number of messages (Write, pipe.cpp:82-114).                        *)
(***************************************************************************)
THEOREM PipeOvershootBounded == PipeSpec => []OvershootBounded
<1>1. PipeInv => OvershootBounded
  <2> SUFFICES ASSUME PipeInv, NEW id \in DOMAIN pipes, pipes[id].queue # <<>>
               PROVE  /\ pipes[id].used - Last(pipes[id].queue).size < buffer_size
                      /\ pipes[id].count <= max_messages
    BY DEF OvershootBounded
  <2>1. Sound(pipes[id], written)
    BY DEF PipeInv, PipesSound
  <2>2. Len(pipes[id].queue) # 0
    BY <2>1, SoundFields
  <2>3. Last(pipes[id].queue) = pipes[id].queue[Len(pipes[id].queue)]
    BY DEF Last
  <2> QED BY <2>1, <2>2, <2>3 DEF Sound, HadRoom
<1> QED BY <1>1, PipeInvInit, PipeInvStep, PTL DEF PipeSpec

------------------------------------------------------------------------------
(***************************************************************************)
(* The accounts of a pipe.  f[k] are the bytes of its first k messages.    *)
(***************************************************************************)
BytesOfFirst(f, q) ==
  /\ f \in [0 .. Len(q) -> Nat] /\ f[0] = 0
  /\ \A k \in 1 .. Len(q) : f[k] = f[k - 1] + q[k].size

BytesAre(q, n) == \E f : BytesOfFirst(f, q) /\ f[Len(q)] = n

(***************************************************************************)
(* What the list holds is what Bytes adds up (pipe.cpp:99-108).            *)
(***************************************************************************)
LEMMA BytesAdded ==
  ASSUME NEW q \in Seq(NumberedMessage), NEW n, BytesAre(q, n)
  PROVE  Bytes(q) = n /\ n \in Nat
<1>1. PICK f : BytesOfFirst(f, q) /\ f[Len(q)] = n
  BY DEF BytesAre
<1>2. PICK l \in Nat : l = Len(q)
  OBVIOUS
<1>3. /\ f \in [0 .. l -> Nat] /\ f[0] = 0
      /\ \A k \in 1 .. l : f[k] = f[k - 1] + q[k].size
  BY <1>1, <1>2 DEF BytesOfFirst
<1> DEFINE Rec(g) == g = [k \in 0 .. l |-> IF k = 0 THEN 0 ELSE g[k - 1] + q[k].size]
           sum == CHOOSE g : Rec(g)
<1>4. Rec(f)
  <2>1. \A k \in 0 .. l : f[k] = IF k = 0 THEN 0 ELSE f[k - 1] + q[k].size
    BY <1>3
  <2>2. QED
    BY <1>3, <2>1
<1>5. Rec(sum)
  BY <1>4
<1>6. Bytes(q) = sum[l]
  BY <1>2 DEF Bytes
<1> HIDE DEF sum
<1>7. \A k \in 0 .. l : sum[k] = f[k]
  <2> DEFINE T == {k \in 0 .. l : sum[k] # f[k]}
  <2> SUFFICES ASSUME T # {} PROVE FALSE
    OBVIOUS
  <2>1. T \subseteq Nat
    OBVIOUS
  <2>2. PICK m \in T : \A i \in T : m <= i
    BY <2>1, MinimumExists, Zenon
  <2>3. m # 0
    BY <1>3, <1>5
  <2>4. m - 1 \in 0 .. l /\ m - 1 \notin T /\ m \in 1 .. l
    BY <2>2, <2>3
  <2>5. f[m] = f[m - 1] + q[m].size /\ sum[m] = sum[m - 1] + q[m].size
    BY <1>3, <1>5, <2>3, <2>4
  <2>6. QED
    BY <2>4, <2>5
<1>8. l \in 0 .. l
  OBVIOUS
<1>9. QED
  BY <1>1, <1>2, <1>3, <1>6, <1>7, <1>8

(***************************************************************************)
(* A message more, and the first one less (pipe.cpp:99-108, 150-157).      *)
(***************************************************************************)
LEMMA BytesAppended ==
  ASSUME NEW q \in Seq(NumberedMessage), NEW n, BytesAre(q, n),
         NEW m \in NumberedMessage
  PROVE  BytesAre(Append(q, m), n + m.size)
<1>1. PICK f : BytesOfFirst(f, q) /\ f[Len(q)] = n
  BY DEF BytesAre
<1>2. PICK l \in Nat : l = Len(q)
  OBVIOUS
<1>3. PICK z \in Nat : z = m.size
  BY DEF NumberedMessage
<1>4. /\ f \in [0 .. l -> Nat] /\ f[0] = 0 /\ f[l] = n /\ n \in Nat
      /\ \A k \in 1 .. l : f[k] = f[k - 1] + q[k].size
  BY <1>1, <1>2 DEF BytesOfFirst
<1>5. PICK r : r = Append(q, m)
  OBVIOUS
<1>6. Len(r) = l + 1 /\ r[l + 1] = m /\ \A k \in 1 .. l : r[k] = q[k]
  BY <1>2, <1>5
<1>7. PICK g : g = [k \in 0 .. l + 1 |-> IF k = l + 1 THEN n + z ELSE f[k]]
  OBVIOUS
<1>8. \A k \in 0 .. l + 1 : k = l + 1 \/ k \in 0 .. l
  OBVIOUS
<1>9. g \in [0 .. l + 1 -> Nat] /\ g[0] = 0 /\ g[l + 1] = n + z
  BY <1>4, <1>7, <1>8
<1>10. ASSUME NEW k \in 1 .. l + 1 PROVE g[k] = g[k - 1] + r[k].size
  <2>1. CASE k = l + 1
    BY <1>3, <1>4, <1>6, <1>7, <2>1
  <2>2. CASE k # l + 1
    <3>1. k \in 1 .. l /\ k - 1 \in 0 .. l /\ k - 1 # l + 1
      BY <2>2
    <3>2. QED
      BY <1>4, <1>6, <1>7, <2>2, <3>1
  <2>3. QED
    BY <2>1, <2>2
<1>11. BytesOfFirst(g, r) /\ g[Len(r)] = n + m.size
  BY <1>3, <1>6, <1>9, <1>10 DEF BytesOfFirst
<1>12. QED
  BY <1>5, <1>11 DEF BytesAre

(***************************************************************************)
(* Read (pipe.cpp:150-157) takes the first message: its bytes are part of  *)
(* the sum, so the counter does not go below zero.                         *)
(***************************************************************************)
LEMMA BytesTaken ==
  ASSUME NEW q \in Seq(NumberedMessage), NEW n, BytesAre(q, n), Len(q) # 0
  PROVE  BytesAre(Tail(q), n - q[1].size) /\ n - q[1].size \in Nat
<1>1. PICK f : BytesOfFirst(f, q) /\ f[Len(q)] = n
  BY DEF BytesAre
<1>2. PICK l \in Nat \ {0} : l = Len(q)
  OBVIOUS
<1>3. PICK z \in Nat : z = q[1].size
  BY <1>2, QueueElements
<1>4. /\ f \in [0 .. l -> Nat] /\ f[0] = 0 /\ f[l] = n /\ n \in Nat
      /\ \A k \in 1 .. l : f[k] = f[k - 1] + q[k].size
  BY <1>1, <1>2 DEF BytesOfFirst
<1>5. PICK r : r = Tail(q)
  OBVIOUS
<1>6. Len(r) = l - 1 /\ l - 1 \in Nat /\ \A k \in 1 .. l - 1 : r[k] = q[k + 1]
  BY <1>2, <1>5
<1>7. f[1] = z
  BY <1>2, <1>3, <1>4
<1>8. \A k \in 1 .. l : f[k] >= z
  <2> DEFINE T == {k \in 1 .. l : ~(f[k] >= z)}
  <2> SUFFICES ASSUME T # {} PROVE FALSE
    OBVIOUS
  <2>1. T \subseteq Nat
    OBVIOUS
  <2>2. PICK m \in T : \A i \in T : m <= i
    BY <2>1, MinimumExists, Zenon
  <2>3. m # 1
    BY <1>3, <1>7
  <2>4. m - 1 \in 1 .. l /\ m - 1 \notin T
    BY <1>2, <2>2, <2>3
  <2>5. f[m - 1] >= z /\ f[m] = f[m - 1] + q[m].size
    BY <1>4, <2>4
  <2>6. m \in 1 .. Len(q) /\ m - 1 \in 0 .. l
    BY <1>2, <2>4
  <2>7. q[m].size \in Nat /\ f[m - 1] \in Nat
    BY <1>4, <2>6, QueueElements
  <2>8. QED
    BY <1>3, <2>5, <2>7
<1>9. PICK g : g = [k \in 0 .. l - 1 |-> f[k + 1] - z]
  OBVIOUS
<1>10. g \in [0 .. l - 1 -> Nat]
  <2>1. ASSUME NEW k \in 0 .. l - 1 PROVE f[k + 1] - z \in Nat
    <3>1. k + 1 \in 1 .. l
      BY <1>2
    <3>2. f[k + 1] \in Nat /\ f[k + 1] >= z
      BY <1>4, <1>8, <3>1
    <3>3. QED
      BY <1>3, <3>2
  <2>2. QED
    BY <1>9, <2>1
<1>11. g[0] = 0 /\ g[l - 1] = n - z
  BY <1>2, <1>3, <1>4, <1>7, <1>9
<1>12. ASSUME NEW k \in 1 .. l - 1 PROVE g[k] = g[k - 1] + r[k].size
  <2>1. k + 1 \in 1 .. l /\ k - 1 \in 0 .. l - 1 /\ k \in 0 .. l - 1 /\ k \in 0 .. l
    BY <1>2
  <2>2. f[k + 1] = f[k] + q[k + 1].size
    <3>1. f[k + 1] = f[(k + 1) - 1] + q[k + 1].size
      BY <1>4, <2>1
    <3>2. (k + 1) - 1 = k
      BY <2>1
    <3>3. QED
      BY <3>1, <3>2
  <2>3. g[k] = f[k + 1] - z /\ g[k - 1] = f[k] - z /\ r[k] = q[k + 1]
    BY <1>6, <1>9, <2>1
  <2>4. q[k + 1].size \in Nat /\ f[k] \in Nat
    BY <1>2, <1>4, <2>1, QueueElements
  <2>5. QED
    BY <1>3, <2>2, <2>3, <2>4
<1>13. BytesOfFirst(g, r) /\ g[Len(r)] = n - z
  BY <1>6, <1>10, <1>11, <1>12 DEF BytesOfFirst
<1>14. n - z \in Nat
  BY <1>6, <1>10, <1>11
<1>15. QED
  BY <1>3, <1>5, <1>13, <1>14 DEF BytesAre

\* The sizes are those of writes, the bytes are counted, no member is listed twice.
Exact(p) ==
  /\ \A i \in 1 .. Len(p.queue) : p.queue[i].size \in Size
  /\ BytesAre(p.queue, p.used)
  /\ IsInjective(p.readers) /\ IsInjective(p.writers)

\* What the table depends on stays: whose pipe it is, and whether it is closed.
SamePipe(p, q) == q.name = p.name /\ q.closed = p.closed

(***************************************************************************)
(* A new pipe and a flushed one hold no bytes (pipe.cpp:40-63, 281-306).   *)
(***************************************************************************)
LEMMA NoBytes == BytesAre(<<>>, 0)
<1>1. PICK f : f = [k \in 0 .. 0 |-> 0]
  OBVIOUS
<1>2. Len(<<>>) = 0
  OBVIOUS
<1>3. f \in [0 .. 0 -> Nat] /\ f[0] = 0
  BY <1>1
<1>4. BytesOfFirst(f, <<>>) /\ f[Len(<<>>)] = 0
  BY <1>2, <1>3 DEF BytesOfFirst
<1>5. QED
  BY <1>4 DEF BytesAre

(***************************************************************************)
(* The constructor (pipe.cpp:40-63).                                       *)
(***************************************************************************)
LEMMA NewPipeExact ==
  ASSUME NEW name
  PROVE  /\ Exact(NewPipe(name)) /\ NewPipe(name).name = Stored(name)
         /\ NewPipe(name).closed = FALSE
<1>1. PICK p : p = NewPipe(name)
  OBVIOUS
<1>2. /\ p.queue = <<>> /\ p.used = 0 /\ p.readers = <<>> /\ p.writers = <<>>
      /\ p.name = Stored(name) /\ p.closed = FALSE
  BY <1>1 DEF NewPipe
<1>3. IsInjective(<<>>) /\ Len(<<>>) = 0
  BY DEF IsInjective
<1>4. QED
  BY <1>1, <1>2, <1>3, NoBytes DEF Exact

(***************************************************************************)
(* Close and Flush (pipe.cpp:281-306): list and counters are emptied       *)
(* together, and the member lists stay.                                    *)
(***************************************************************************)
LEMMA DestroyedExact ==
  ASSUME NEW p, NEW given \in Nat, Sound(p, given), Exact(p)
  PROVE  Exact(Destroyed(p)) /\ Destroyed(p).closed = TRUE /\ Destroyed(p).name = p.name
<1>1. p \in PipeShape
  BY DEF Sound
<1>2. PICK d : d = Destroyed(p)
  OBVIOUS
<1>3. /\ d.queue = <<>> /\ d.used = 0 /\ d.readers = p.readers /\ d.writers = p.writers
      /\ d.name = p.name /\ d.closed = TRUE
  BY <1>1, <1>2 DEF Destroyed, PipeShape
<1>4. Len(<<>>) = 0
  OBVIOUS
<1>5. QED
  BY <1>2, <1>3, <1>4, NoBytes DEF Exact

(***************************************************************************)
(* Write and Read keep a pipe's accounts (pipe.cpp:82-165).                *)
(***************************************************************************)
LEMMA EnqueueExact ==
  ASSUME NEW p, NEW given \in Nat, Sound(p, given), Exact(p), NEW size \in Size,
         NEW m, m = [no |-> given + 1, size |-> size]
  PROVE  Exact(Enqueue(p, m)) /\ SamePipe(p, Enqueue(p, m))
<1>1. /\ p \in PipeShape /\ p.queue \in Seq(NumberedMessage) /\ Len(p.queue) \in Nat
  BY SoundFields
<1>2. size \in Nat
  BY PipeConstants
<1>3. m \in NumberedMessage /\ m.size = size
  BY <1>2 DEF NumberedMessage
<1>4. PICK e : e = Enqueue(p, m)
  OBVIOUS
<1>5. /\ e.queue = Append(p.queue, m) /\ e.used = p.used + m.size
      /\ e.readers = p.readers /\ e.writers = p.writers
      /\ e.name = p.name /\ e.closed = p.closed
  BY <1>1, <1>4 DEF Enqueue, PipeShape
<1>6. BytesAre(e.queue, e.used)
  <2>1. BytesAre(p.queue, p.used)
    BY DEF Exact
  <2>2. BytesAre(Append(p.queue, m), p.used + m.size)
    BY <1>1, <1>3, <2>1, BytesAppended
  <2>3. QED
    BY <1>5, <2>2
<1>7. \A i \in 1 .. Len(e.queue) : e.queue[i].size \in Size
  <2>1. PICK n \in Nat : n = Len(p.queue)
    BY <1>1
  <2>2. /\ Len(e.queue) = n + 1 /\ e.queue[n + 1] = m
        /\ \A i \in 1 .. n : e.queue[i] = p.queue[i]
    BY <1>1, <1>3, <1>5, <2>1
  <2>3. \A i \in 1 .. n + 1 : i \in 1 .. n \/ i = n + 1
    OBVIOUS
  <2>4. QED
    BY <1>3, <2>1, <2>2, <2>3 DEF Exact
<1>8. QED
  BY <1>4, <1>5, <1>6, <1>7 DEF Exact, SamePipe

(***************************************************************************)
(* Read (pipe.cpp:116-165) takes the message and its bytes.                *)
(***************************************************************************)
LEMMA DequeueExact ==
  ASSUME NEW p, NEW given \in Nat, Sound(p, given), Exact(p), ~IsEmpty(p)
  PROVE  Exact(Dequeue(p)) /\ SamePipe(p, Dequeue(p))
<1>1. /\ p \in PipeShape /\ p.queue \in Seq(NumberedMessage) /\ Len(p.queue) \in Nat
      /\ p.count = Len(p.queue)
  BY SoundFields
<1>2. Len(p.queue) # 0 /\ Head(p.queue) = p.queue[1]
  BY <1>1 DEF IsEmpty
<1>3. PICK d : d = Dequeue(p)
  OBVIOUS
<1>4. /\ d.queue = Tail(p.queue) /\ d.used = p.used - p.queue[1].size
      /\ d.readers = p.readers /\ d.writers = p.writers
      /\ d.name = p.name /\ d.closed = p.closed
  BY <1>1, <1>2, <1>3 DEF Dequeue, PipeShape
<1>5. BytesAre(d.queue, d.used)
  <2>1. BytesAre(p.queue, p.used)
    BY DEF Exact
  <2>2. BytesAre(Tail(p.queue), p.used - p.queue[1].size)
    BY <1>1, <1>2, <2>1, BytesTaken
  <2>3. QED
    BY <1>4, <2>2
<1>6. \A i \in 1 .. Len(d.queue) : d.queue[i].size \in Size
  <2>1. PICK n \in Nat \ {0} : n = Len(p.queue)
    BY <1>1, <1>2
  <2>2. Len(d.queue) = n - 1 /\ \A i \in 1 .. n - 1 : d.queue[i] = p.queue[i + 1]
    BY <1>1, <1>2, <1>4, <2>1
  <2>3. \A i \in 1 .. n - 1 : i + 1 \in 1 .. n
    OBVIOUS
  <2>4. QED
    BY <2>1, <2>2, <2>3 DEF Exact
<1>7. QED
  BY <1>3, <1>4, <1>5, <1>6 DEF Exact, SamePipe

(***************************************************************************)
(* AddReader looks for the member first, RemoveReader takes one entry out  *)
(* (pipe.cpp:193-255): a list without repetitions stays one.               *)
(***************************************************************************)
LEMMA WithMemberOnce ==
  ASSUME NEW list \in Seq(Member), NEW who \in Member, IsInjective(list)
  PROVE  IsInjective(WithMember(list, who))
<1>1. CASE who \in Range(list)
  BY <1>1 DEF WithMember
<1>2. CASE who \notin Range(list)
  <2>1. PICK n \in Nat : n = Len(list) /\ DOMAIN list = 1 .. n
    OBVIOUS
  <2>2. PICK r : r = Append(list, who)
    OBVIOUS
  <2>3. DOMAIN r = 1 .. n + 1 /\ r[n + 1] = who /\ \A i \in 1 .. n : r[i] = list[i]
    BY <2>1, <2>2
  <2>4. \A i \in 1 .. n : list[i] # who
    BY <1>2, <2>1 DEF Range
  <2>5. \A i \in 1 .. n + 1 : i \in 1 .. n \/ i = n + 1
    OBVIOUS
  <2>6. \A i, j \in 1 .. n : list[i] = list[j] => i = j
    BY <2>1 DEF IsInjective
  <2>7. \A i, j \in 1 .. n + 1 : r[i] = r[j] => i = j
    BY <2>3, <2>4, <2>5, <2>6
  <2>8. QED
    BY <1>2, <2>2, <2>3, <2>7 DEF IsInjective, WithMember
<1>3. QED
  BY <1>1, <1>2

(***************************************************************************)
(* Taking the member at place i out moves those behind it up               *)
(* (pipe.cpp:225-255).                                                     *)
(***************************************************************************)
LEMMA WithoutAt ==
  ASSUME NEW S, NEW q \in Seq(S), NEW i \in 1 .. Len(q)
  PROVE  /\ RemoveAt(q, i) \in Seq(S)
         /\ Len(RemoveAt(q, i)) = Len(q) - 1
         /\ \A j \in 1 .. Len(q) - 1 :
              RemoveAt(q, i)[j] = IF j < i THEN q[j] ELSE q[j + 1]
<1> DEFINE front == SubSeq(q, 1, i - 1)
           back  == SubSeq(q, i + 1, Len(q))
<1>1. /\ front \in Seq(S) /\ Len(front) = i - 1
      /\ \A j \in 1 .. i - 1 : front[j] = q[j]
  OBVIOUS
<1>2. /\ back \in Seq(S) /\ Len(back) = Len(q) - i
      /\ \A j \in 1 .. Len(q) - i : back[j] = q[i + j]
  OBVIOUS
<1>3. RemoveAt(q, i) = front \o back
  BY DEF RemoveAt
<1> HIDE DEF front, back
<1>4. front \o back \in Seq(S) /\ Len(front \o back) = Len(q) - 1
  BY <1>1, <1>2
<1>5. ASSUME NEW j \in 1 .. Len(q) - 1
      PROVE  (front \o back)[j] = IF j < i THEN q[j] ELSE q[j + 1]
  <2>1. CASE j < i
    BY <1>1, <1>2, <2>1
  <2>2. CASE ~(j < i)
    <3>1. (front \o back)[j] = back[j - (i - 1)]
      BY <1>1, <1>2, <2>2
    <3>2. back[j - (i - 1)] = q[i + (j - (i - 1))]
      BY <1>2, <2>2
    <3>3. QED
      BY <2>2, <3>1, <3>2
  <2>3. QED
    BY <2>1, <2>2
<1>6. QED
  BY <1>3, <1>4, <1>5

(***************************************************************************)
(* RemoveReader and RemoveWriter (pipe.cpp:225-255) move the members       *)
(* behind the removed one up, and none of them twice.                      *)
(***************************************************************************)
LEMMA WithoutMemberOnce ==
  ASSUME NEW list \in Seq(Member), NEW who \in Range(list), IsInjective(list)
  PROVE  IsInjective(WithoutMember(list, who))
<1> DEFINE S == {i \in DOMAIN list : list[i] = who}
<1>1. S \subseteq Nat /\ S # {}
  BY DEF Range
<1>2. First(S) \in S
  BY <1>1, FirstIn, Zenon
<1>3. PICK k \in 1 .. Len(list) : k = First(S)
  <2>1. DOMAIN list = 1 .. Len(list) /\ S \subseteq DOMAIN list
    OBVIOUS
  <2>2. QED
    BY <1>2, <2>1, Zenon
<1>4. WithoutMember(list, who) = RemoveAt(list, k)
  BY <1>3 DEF WithoutMember
<1> HIDE DEF S
<1>5. PICK n \in Nat : n = Len(list) /\ DOMAIN list = 1 .. n
  OBVIOUS
<1>6. PICK r : r = RemoveAt(list, k)
  OBVIOUS
<1>7. /\ r \in Seq(Member) /\ Len(r) = n - 1
      /\ \A j \in 1 .. n - 1 : r[j] = IF j < k THEN list[j] ELSE list[j + 1]
  BY <1>5, <1>6, WithoutAt
<1>8. DOMAIN r = 1 .. n - 1
  BY <1>7
<1>9. \A i, j \in 1 .. n : list[i] = list[j] => i = j
  BY <1>5 DEF IsInjective
<1>10. ASSUME NEW i \in 1 .. n - 1, NEW j \in 1 .. n - 1, r[i] = r[j]
       PROVE  i = j
  <2>1. i \in 1 .. n /\ i + 1 \in 1 .. n /\ j \in 1 .. n /\ j + 1 \in 1 .. n
    BY <1>5
  <2>2. PICK a \in 1 .. n : r[i] = list[a] /\ a = IF i < k THEN i ELSE i + 1
    BY <1>7, <2>1
  <2>3. PICK b \in 1 .. n : r[j] = list[b] /\ b = IF j < k THEN j ELSE j + 1
    BY <1>7, <2>1
  <2>4. a = b
    BY <1>9, <1>10, <2>2, <2>3
  <2>5. QED
    BY <2>2, <2>3, <2>4
<1>11. QED
  BY <1>4, <1>6, <1>8, <1>10 DEF IsInjective

(***************************************************************************)
(* A changed member list (pipe.cpp:193-255) leaves the messages, the name  *)
(* and the closed flag alone.                                              *)
(***************************************************************************)
LEMMA MembersExact ==
  ASSUME NEW p, p \in PipeShape, Exact(p), NEW side \in Side,
         NEW list \in Seq(Member), IsInjective(list)
  PROVE  Exact([p EXCEPT ![side] = list]) /\ SamePipe(p, [p EXCEPT ![side] = list])
<1>1. PICK e : e = [p EXCEPT ![side] = list]
  OBVIOUS
<1>2. CASE side = "readers"
  <2>1. /\ e.queue = p.queue /\ e.used = p.used /\ e.readers = list /\ e.writers = p.writers
        /\ e.name = p.name /\ e.closed = p.closed
    BY <1>1, <1>2 DEF PipeShape
  <2>2. QED
    BY <1>1, <2>1 DEF Exact, SamePipe
<1>3. CASE side = "writers"
  <2>1. /\ e.queue = p.queue /\ e.used = p.used /\ e.readers = p.readers /\ e.writers = list
        /\ e.name = p.name /\ e.closed = p.closed
    BY <1>1, <1>3 DEF PipeShape
  <2>2. QED
    BY <1>1, <2>1 DEF Exact, SamePipe
<1>4. QED
  BY <1>2, <1>3 DEF Side

------------------------------------------------------------------------------
(***************************************************************************)
(* The rest of the inductive invariant: the accounts of every pipe, the    *)
(* table, and the messages that the threads inside Write may still add.    *)
(***************************************************************************)
AllExact == \A id \in DOMAIN pipes : Exact(pipes[id])

TableInv == Len(pipes) <= MaxCreated /\ TableConsistent

Writers == {t \in Thread : call[t].op = "write"}

CallsBounded ==
  /\ \A t \in Thread : call[t].pipe <= MaxCreated
  /\ IsFiniteSet(Writers) /\ written + Cardinality(Writers) <= MaxWrites

FullInv == PipeInv /\ AllExact /\ TableInv /\ CallsBounded

(***************************************************************************)
(* A step on one pipe (pipe.cpp:82-255): the others keep their accounts,   *)
(* and the table does not see it.                                          *)
(***************************************************************************)
LEMMA OneStaysExact ==
  ASSUME FullInv, NEW id \in DOMAIN pipes, NEW p, Exact(p), SamePipe(pipes[id], p),
         pipes' = [pipes EXCEPT ![id] = p], UNCHANGED <<slots, pipe_count>>
  PROVE  AllExact' /\ TableInv'
<1>1. pipes \in Seq(PipeShape)
  BY DEF FullInv, PipeInv, PipesSound
<1>2. DOMAIN pipes' = DOMAIN pipes /\ Len(pipes') = Len(pipes)
  BY <1>1
<1>3. \A i \in DOMAIN pipes : pipes'[i] = IF i = id THEN p ELSE pipes[i]
  BY <1>1
<1>4. AllExact'
  BY <1>2, <1>3 DEF FullInv, AllExact
<1>5. \A i \in DOMAIN pipes : pipes'[i].name = pipes[i].name /\ pipes'[i].closed = pipes[i].closed
  BY <1>3 DEF SamePipe
<1>6. \A s \in Slot : slots[s] # 0 => slots[s] \in DOMAIN pipes
  BY DEF FullInv, PipeInv
<1>7. TableConsistent'
  <2>1. TableConsistent
    BY DEF FullInv, TableInv
  <2>2. QED
    BY <1>5, <1>6, <2>1 DEF TableConsistent
<1>8. QED
  BY <1>2, <1>4, <1>7 DEF FullInv, TableInv

(***************************************************************************)
(* A step that touches neither the pipes nor the table.                    *)
(***************************************************************************)
LEMMA PipesUntouched ==
  ASSUME FullInv, UNCHANGED <<slots, pipe_count, pipes>>
  PROVE  AllExact' /\ TableInv'
BY DEF FullInv, AllExact, TableInv, TableConsistent

(***************************************************************************)
(* A thread that returns writes no more (pipe.cpp:99-114).                 *)
(***************************************************************************)
LEMMA ReturnBounded ==
  ASSUME FullInv, NEW t \in Thread, Return(t),
         \/ written' = written
         \/ call[t].op = "write" /\ written' = written + 1
  PROVE  CallsBounded'
<1>1. call \in [Thread -> CallShape]
  BY DEF FullInv, PipeInv, CallsShaped
<1>2. /\ \A u \in Thread : call[u].pipe <= MaxCreated
      /\ IsFiniteSet(Writers) /\ written + Cardinality(Writers) <= MaxWrites
      /\ written \in Nat /\ MaxWrites \in Nat /\ MaxCreated \in Nat
  BY PipeConstants DEF FullInv, CallsBounded, PipeInv
<1>3. call' = [call EXCEPT ![t] = Idle] /\ Idle.op = "none" /\ Idle.pipe = 0
  BY DEF Return, Idle
<1>4. \A u \in Thread : call'[u] = IF u = t THEN Idle ELSE call[u]
  BY <1>1, <1>3
<1>5. Writers' = Writers \ {t}
  BY <1>3, <1>4 DEF Writers
<1>6. \A u \in Thread : call'[u].pipe <= MaxCreated
  BY <1>2, <1>3, <1>4
<1>7. /\ IsFiniteSet(Writers \ {t}) /\ Cardinality(Writers) \in Nat
      /\ Cardinality(Writers \ {t}) = IF t \in Writers THEN Cardinality(Writers) - 1
                                      ELSE Cardinality(Writers)
  BY <1>2, FS_RemoveElement, FS_CardinalityType
<1>8. PICK c \in Nat : c = Cardinality(Writers)
  BY <1>7
<1>9. call[t].op = "write" => t \in Writers
  BY DEF Writers
<1>10. written' + Cardinality(Writers') <= MaxWrites
  <2>1. CASE t \in Writers
    <3>1. Cardinality(Writers') = c - 1
      BY <1>5, <1>7, <1>8, <2>1
    <3>2. QED
      BY <1>2, <1>8, <3>1
  <2>2. CASE t \notin Writers
    <3>1. Cardinality(Writers') = c
      BY <1>5, <1>7, <1>8, <2>2
    <3>2. written' = written
      BY <1>9, <2>2
    <3>3. QED
      BY <1>2, <1>8, <3>1, <3>2
  <2>3. QED
    BY <2>1, <2>2
<1>11. IsFiniteSet(Writers')
  BY <1>5, <1>7
<1>12. QED
  BY <1>6, <1>10, <1>11 DEF CallsBounded

(***************************************************************************)
(* A thread that enters a call (pipe.cpp:488-560): a writer still finds a  *)
(* message to write.                                                       *)
(***************************************************************************)
LEMMA EnterBounded ==
  ASSUME FullInv, NEW t \in Thread, call[t] = Idle, NEW c \in CallShape, c.pipe <= MaxCreated,
         call' = [call EXCEPT ![t] = c], UNCHANGED written,
         c.op = "write" => written + Cardinality(Writers) < MaxWrites
  PROVE  CallsBounded'
<1>1. call \in [Thread -> CallShape]
  BY DEF FullInv, PipeInv, CallsShaped
<1>2. /\ \A u \in Thread : call[u].pipe <= MaxCreated
      /\ IsFiniteSet(Writers) /\ written + Cardinality(Writers) <= MaxWrites
      /\ written \in Nat /\ MaxWrites \in Nat
  BY PipeConstants DEF FullInv, CallsBounded, PipeInv
<1>3. \A u \in Thread : call'[u] = IF u = t THEN c ELSE call[u]
  BY <1>1
<1>4. t \notin Writers
  BY DEF Writers, Idle
<1>5. Writers' = IF c.op = "write" THEN Writers \cup {t} ELSE Writers
  BY <1>3, <1>4 DEF Writers
<1>6. \A u \in Thread : call'[u].pipe <= MaxCreated
  BY <1>2, <1>3
<1>7. /\ IsFiniteSet(Writers \cup {t}) /\ Cardinality(Writers) \in Nat
      /\ Cardinality(Writers \cup {t}) = Cardinality(Writers) + 1
  BY <1>2, <1>4, FS_AddElement, FS_CardinalityType
<1>8. PICK k \in Nat : k = Cardinality(Writers)
  BY <1>7
<1>9. written' + Cardinality(Writers') <= MaxWrites /\ IsFiniteSet(Writers')
  <2>1. CASE c.op = "write"
    <3>1. Cardinality(Writers') = k + 1 /\ IsFiniteSet(Writers')
      BY <1>5, <1>7, <1>8, <2>1
    <3>2. written + k < MaxWrites
      BY <1>8, <2>1
    <3>3. QED
      BY <1>2, <3>1, <3>2
  <2>2. CASE c.op # "write"
    BY <1>2, <1>5, <2>2
  <2>3. QED
    BY <2>1, <2>2
<1>10. QED
  BY <1>6, <1>9 DEF CallsBounded

(***************************************************************************)
(* The operations of the manager leave calls and messages alone.           *)
(***************************************************************************)
LEMMA CallsUntouched ==
  ASSUME FullInv, UNCHANGED <<call, written>>
  PROVE  CallsBounded'
BY DEF FullInv, CallsBounded, Writers

\* The slots of the table that hold a pipe.
InUse(tab) == {s \in Slot : tab[s] # 0}

(***************************************************************************)
(* The slots in use are finitely many.                                     *)
(***************************************************************************)
LEMMA SlotsFinite ==
  /\ IsFiniteSet(InUse(slots)) /\ Cardinality(InUse(slots)) \in Nat
  /\ Cardinality(InUse(slots)) <= MaxPipes
<1>1. MaxPipes \in Nat /\ 1 \in Int /\ MaxPipes \in Int
  BY PipeConstants
<1>2. IsFiniteSet(Slot) /\ Cardinality(Slot) = MaxPipes
  <2>1. IsFiniteSet(1 .. MaxPipes) /\ Cardinality(1 .. MaxPipes) = IF 1 > MaxPipes THEN 0 ELSE MaxPipes - 1 + 1
    BY <1>1, FS_Interval
  <2>2. QED
    BY <1>1, <2>1 DEF Slot
<1>3. InUse(slots) \in SUBSET Slot
  BY DEF InUse
<1>4. QED
  BY <1>2, <1>3, FS_Subset, FS_CardinalityType

(***************************************************************************)
(* CreatePipe (pipe.cpp:345-376): the new pipe is in one slot, its name    *)
(* differs from the others', and it is open.                               *)
(***************************************************************************)
LEMMA CreateFull ==
  ASSUME FullInv, NEW name \in Name, CreatePipe(name)
  PROVE  AllExact' /\ TableInv'
<1> DEFINE free == {s \in Slot : slots[s] = 0}
<1>1. /\ pipes \in Seq(PipeShape) /\ slots \in [Slot -> Nat]
      /\ \A s \in Slot : slots[s] # 0 => slots[s] \in DOMAIN pipes
  BY DEF FullInv, PipeInv, PipesSound
<1>2. PICK n \in Nat : n = Len(pipes) /\ DOMAIN pipes = 1 .. n
  BY <1>1
<1>3. PICK k \in Slot : k = First(free) /\ slots[k] = 0
  <2>1. free \subseteq Nat /\ free # {}
    BY DEF Slot, CreatePipe
  <2>2. First(free) \in free
    BY <2>1, FirstIn, Zenon
  <2>3. QED
    BY <2>2
<1>4. PICK p : p = NewPipe(name)
  OBVIOUS
<1>5. Exact(p) /\ p.name = Stored(name) /\ ~p.closed /\ p \in PipeShape
  <2>1. p.closed = FALSE /\ Exact(p) /\ p.name = Stored(name)
    BY <1>4, NewPipeExact
  <2>2. p \in PipeShape
    BY <1>4 DEF NewPipe, PipeShape
  <2>3. QED
    BY <2>1, <2>2
<1>6. /\ pipes' = Append(pipes, p) /\ slots' = [slots EXCEPT ![k] = n + 1]
      /\ pipe_count' = pipe_count + 1 /\ n < MaxCreated
  BY <1>2, <1>3, <1>4 DEF CreatePipe
<1>7. \A s \in Slot : ~NameMatches(s, name)
  BY DEF CreatePipe
<1> HIDE DEF free
<1>8. /\ DOMAIN pipes' = 1 .. n + 1 /\ Len(pipes') = n + 1 /\ pipes'[n + 1] = p
      /\ \A i \in 1 .. n : pipes'[i] = pipes[i]
  BY <1>1, <1>2, <1>5, <1>6
<1>9. \A i \in 1 .. n + 1 : i \in 1 .. n \/ i = n + 1
  OBVIOUS
<1>10. AllExact'
  BY <1>2, <1>5, <1>8, <1>9 DEF FullInv, AllExact
<1>11. Len(pipes') <= MaxCreated
  BY <1>6, <1>8, PipeConstants
<1>12. slots' \in [Slot -> Nat] /\ \A s \in Slot : slots'[s] = IF s = k THEN n + 1 ELSE slots[s]
  BY <1>1, <1>6
<1>13. \A s \in Slot : slots[s] # 0 => slots[s] \in 1 .. n /\ slots[s] # n + 1
  BY <1>1, <1>2
<1>14. ASSUME NEW s \in Slot, slots[s] # 0, pipes[slots[s]].name = Stored(name)
       PROVE  Len(Stored(name)) = NameSize
  <2>1. name \in Seq(Range(name)) /\ Len(name) \in Nat /\ NameSize \in Nat
    BY PipeConstants
  <2>2. CASE Len(name) > NameSize
    BY <2>1, <2>2 DEF Stored
  <2>3. CASE ~(Len(name) > NameSize)
    <3>1. Stored(name) = name
      BY <2>3 DEF Stored
    <3>2. IsPrefix(name, name)
      BY <2>1 DEF IsPrefix
    <3>3. QED
      BY <1>7, <1>14, <3>1, <3>2 DEF NameMatches
  <2>4. QED
    BY <2>2, <2>3
<1>15. TableConsistent
  BY DEF FullInv, TableInv
<1>16. pipe_count' = Cardinality({s \in Slot : slots'[s] # 0})
  <2>1. {s \in Slot : slots'[s] # 0} = InUse(slots) \cup {k}
    BY <1>12 DEF InUse
  <2>2. k \notin InUse(slots)
    BY <1>3 DEF InUse
  <2>3. Cardinality(InUse(slots) \cup {k}) = Cardinality(InUse(slots)) + 1
    BY <2>2, SlotsFinite, FS_AddElement
  <2>4. pipe_count = Cardinality(InUse(slots))
    BY <1>15 DEF TableConsistent, InUse
  <2>5. QED
    BY <1>6, <2>1, <2>3, <2>4
<1>17. ASSUME NEW s \in Slot, slots'[s] # 0
       PROVE  /\ ~pipes'[slots'[s]].closed
              /\ s # k => slots'[s] \in 1 .. n /\ slots'[s] = slots[s]
                          /\ pipes'[slots'[s]] = pipes[slots[s]]
              /\ s = k => pipes'[slots'[s]] = p /\ slots'[s] = n + 1
  <2>1. CASE s = k
    BY <1>5, <1>8, <1>12, <2>1
  <2>2. CASE s # k
    <3>1. slots'[s] = slots[s] /\ slots[s] \in 1 .. n
      BY <1>12, <1>13, <1>17, <2>2
    <3>2. ~pipes[slots[s]].closed
      BY <1>15, <1>17, <3>1 DEF TableConsistent
    <3>3. QED
      BY <1>8, <2>2, <3>1, <3>2
  <2>3. QED
    BY <2>1, <2>2
<1>18. ASSUME NEW s \in Slot, NEW r \in Slot, s # r, slots'[s] # 0, slots'[r] # 0
       PROVE  /\ slots'[s] # slots'[r]
              /\ pipes'[slots'[s]].name = pipes'[slots'[r]].name
                   => Len(pipes'[slots'[s]].name) = NameSize
  <2>1. CASE s # k /\ r # k
    <3>1. slots[s] # 0 /\ slots[r] # 0
      BY <1>12, <1>18, <2>1
    <3>2. /\ slots[s] # slots[r]
          /\ pipes[slots[s]].name = pipes[slots[r]].name
               => Len(pipes[slots[s]].name) = NameSize
      BY <1>15, <1>18, <3>1 DEF TableConsistent
    <3>3. QED
      BY <1>17, <1>18, <2>1, <3>2
  <2>2. CASE s = k
    <3>1. slots[r] # 0 /\ slots'[r] = slots[r] /\ pipes'[slots'[r]] = pipes[slots[r]]
      BY <1>12, <1>17, <1>18, <2>2
    <3>2. slots'[s] = n + 1 /\ pipes'[slots'[s]].name = Stored(name)
      BY <1>5, <1>17, <1>18, <2>2
    <3>3. QED
      BY <1>13, <1>14, <3>1, <3>2
  <2>3. CASE r = k
    <3>1. slots[s] # 0 /\ slots'[s] = slots[s] /\ pipes'[slots'[s]] = pipes[slots[s]]
      BY <1>12, <1>17, <1>18, <2>3
    <3>2. slots'[r] = n + 1 /\ pipes'[slots'[r]].name = Stored(name)
      BY <1>5, <1>17, <1>18, <2>3
    <3>3. QED
      BY <1>13, <1>14, <3>1, <3>2
  <2>4. QED
    BY <2>1, <2>2, <2>3
<1>19. TableConsistent'
  BY <1>16, <1>17, <1>18 DEF TableConsistent
<1>20. QED
  BY <1>10, <1>11, <1>19 DEF TableInv

(***************************************************************************)
(* DestroyPipe (pipe.cpp:378-406): the pipe leaves its only slot, and the  *)
(* open pipes of the others stay open.                                     *)
(***************************************************************************)
LEMMA DestroyFull ==
  ASSUME FullInv, NEW S, S \subseteq Slot, S # {}, \A s \in S : slots[s] # 0,
         DestroySlot(First(S))
  PROVE  AllExact' /\ TableInv'
<1>1. /\ pipes \in Seq(PipeShape) /\ slots \in [Slot -> Nat] /\ written \in Nat
      /\ \A s \in Slot : slots[s] # 0 => slots[s] \in DOMAIN pipes
      /\ \A i \in DOMAIN pipes : Sound(pipes[i], written) /\ Exact(pipes[i])
  BY DEF FullInv, PipeInv, PipesSound, AllExact
<1>2. First(S) \in S
  <2>1. S \subseteq Nat
    BY DEF Slot
  <2> QED BY <2>1, FirstIn, Zenon
<1>3. PICK k \in Slot : k = First(S) /\ slots[k] # 0
  BY <1>2
<1>4. PICK id \in DOMAIN pipes : id = slots[k]
  BY <1>1, <1>3
<1>5. PICK p : p = Destroyed(pipes[id])
  OBVIOUS
<1>6. Exact(p) /\ p.name = pipes[id].name
  BY <1>1, <1>5, DestroyedExact
<1>7. /\ pipes' = [pipes EXCEPT ![id] = p] /\ slots' = [slots EXCEPT ![k] = 0]
      /\ pipe_count' = pipe_count - 1
  BY <1>3, <1>4, <1>5 DEF DestroySlot
<1>8. /\ DOMAIN pipes' = DOMAIN pipes /\ Len(pipes') = Len(pipes)
      /\ \A i \in DOMAIN pipes : pipes'[i] = IF i = id THEN p ELSE pipes[i]
  BY <1>1, <1>7
<1>9. AllExact'
  BY <1>1, <1>6, <1>8 DEF AllExact
<1>10. \A s \in Slot : slots'[s] = IF s = k THEN 0 ELSE slots[s]
  BY <1>1, <1>7
<1>11. TableConsistent
  BY DEF FullInv, TableInv
<1>12. pipe_count' = Cardinality({s \in Slot : slots'[s] # 0})
  <2>1. {s \in Slot : slots'[s] # 0} = InUse(slots) \ {k}
    BY <1>10 DEF InUse
  <2>2. k \in InUse(slots)
    BY <1>3 DEF InUse
  <2>3. Cardinality(InUse(slots) \ {k}) = Cardinality(InUse(slots)) - 1
    BY <2>2, SlotsFinite, FS_RemoveElement
  <2>4. pipe_count = Cardinality(InUse(slots))
    BY <1>11 DEF TableConsistent, InUse
  <2>5. QED
    BY <1>7, <2>1, <2>3, <2>4
<1>13. ASSUME NEW s \in Slot, slots'[s] # 0
       PROVE  slots'[s] = slots[s] /\ slots[s] # 0 /\ pipes'[slots'[s]] = pipes[slots[s]]
  <2>1. s # k /\ slots'[s] = slots[s] /\ slots[s] # 0
    BY <1>10, <1>13
  <2>2. slots[s] # id /\ slots[s] \in DOMAIN pipes
    BY <1>1, <1>3, <1>4, <1>11, <2>1 DEF TableConsistent
  <2>3. QED
    BY <1>8, <2>1, <2>2
<1>14. TableConsistent'
  BY <1>11, <1>12, <1>13 DEF TableConsistent
<1>15. QED
  BY <1>8, <1>9, <1>14 DEF FullInv, TableInv

(***************************************************************************)
(* CloseAllPipes (pipe.cpp:440-450) empties the table.                     *)
(***************************************************************************)
LEMMA CloseAllFull ==
  ASSUME FullInv, CloseAllPipes
  PROVE  AllExact' /\ TableInv'
<1>1. /\ pipes \in Seq(PipeShape) /\ written \in Nat
      /\ \A i \in DOMAIN pipes : Sound(pipes[i], written) /\ Exact(pipes[i])
  BY DEF FullInv, PipeInv, PipesSound, AllExact
<1>2. /\ pipes' = [id \in DOMAIN pipes |->
                     IF Slots(id) # {} THEN Destroyed(pipes[id]) ELSE pipes[id]]
      /\ slots' = [s \in Slot |-> 0] /\ pipe_count' = 0
  BY DEF CloseAllPipes
<1>3. PICK n \in Nat : n = Len(pipes) /\ DOMAIN pipes = 1 .. n
  BY <1>1
<1>4. DOMAIN pipes' = 1 .. n /\ Len(pipes') = n
  BY <1>2, <1>3
<1>5. ASSUME NEW id \in DOMAIN pipes PROVE Exact(pipes'[id])
  <2>1. Exact(pipes[id]) /\ Exact(Destroyed(pipes[id]))
    BY <1>1, DestroyedExact
  <2>2. pipes'[id] = Destroyed(pipes[id]) \/ pipes'[id] = pipes[id]
    BY <1>2
  <2>3. QED
    BY <2>1, <2>2
<1>6. AllExact'
  BY <1>3, <1>4, <1>5 DEF AllExact
<1>7. \A s \in Slot : slots'[s] = 0
  BY <1>2
<1>8. pipe_count' = Cardinality({s \in Slot : slots'[s] # 0})
  <2>1. {s \in Slot : slots'[s] # 0} = {}
    BY <1>7
  <2>2. QED
    BY <1>2, <2>1, FS_EmptySet
<1>9. TableConsistent'
  BY <1>7, <1>8 DEF TableConsistent
<1>10. Len(pipes) <= MaxCreated
  BY DEF FullInv, TableInv
<1>11. QED
  BY <1>3, <1>4, <1>6, <1>9, <1>10 DEF TableInv

(***************************************************************************)
(* The initial state: no pipes, an empty table, no thread inside a call.   *)
(***************************************************************************)
LEMMA FullInvInit == PipeInit => FullInv
<1> SUFFICES ASSUME PipeInit PROVE FullInv
  OBVIOUS
<1>1. PipeInv
  BY PipeInvInit
<1>2. pipes = <<>> /\ DOMAIN pipes = {} /\ Len(pipes) = 0 /\ written = 0 /\ pipe_count = 0
  BY DEF PipeInit
<1>3. \A s \in Slot : slots[s] = 0
  BY DEF PipeInit
<1>4. \A t \in Thread : call[t].op = "none" /\ call[t].pipe = 0
  BY DEF PipeInit, Idle
<1>5. Writers = {} /\ IsFiniteSet(Writers) /\ Cardinality(Writers) = 0
  <2>1. Writers = {}
    BY <1>4 DEF Writers
  <2>2. QED
    BY <2>1, FS_EmptySet
<1>6. CallsBounded
  BY <1>2, <1>4, <1>5, PipeConstants DEF CallsBounded
<1>7. {s \in Slot : slots[s] # 0} = {}
  BY <1>3
<1>8. TableInv
  <2>1. Cardinality({s \in Slot : slots[s] # 0}) = 0
    BY <1>7, FS_EmptySet
  <2>2. TableConsistent
    BY <1>2, <1>3, <2>1 DEF TableConsistent
  <2>3. Len(pipes) <= MaxCreated
    BY <1>2, PipeConstants
  <2>4. QED
    BY <2>2, <2>3 DEF TableInv
<1>9. AllExact
  BY <1>2 DEF AllExact
<1>10. QED
  BY <1>1, <1>6, <1>8, <1>9 DEF FullInv

(***************************************************************************)
(* What a thread does inside a call (pipe.cpp:82-255) keeps accounts,      *)
(* table and calls.                                                        *)
(***************************************************************************)
LEMMA CallFull ==
  ASSUME FullInv, NEW t \in Thread, Step(t)
  PROVE  AllExact' /\ TableInv' /\ CallsBounded'
<1> DEFINE id == call[t].pipe
<1>1. /\ written \in Nat /\ PipesSound /\ CallsShaped /\ AllExact
  BY DEF FullInv, PipeInv
<1>2. CASE Write(t)
  <2>1. /\ call[t].op = "write" /\ written' = written + 1 /\ Return(t)
        /\ UNCHANGED <<slots, pipe_count>>
    BY <1>2 DEF Write
  <2>2. id \in DOMAIN pipes /\ call[t].size \in Size
    BY <1>1, <2>1 DEF CallsShaped
  <2>3. PICK m : m = [no |-> written + 1, size |-> call[t].size]
    OBVIOUS
  <2>4. PICK p : p = Enqueue(pipes[id], m)
    OBVIOUS
  <2>5. pipes' = [pipes EXCEPT ![id] = p]
    BY <1>2, <2>2, <2>3, <2>4 DEF Write
  <2>6. Sound(pipes[id], written) /\ Exact(pipes[id])
    BY <1>1, <2>2 DEF PipesSound, AllExact
  <2>7. Exact(p) /\ SamePipe(pipes[id], p)
    BY <1>1, <2>2, <2>3, <2>4, <2>6, EnqueueExact, Zenon
  <2>8. AllExact' /\ TableInv'
    BY <2>1, <2>2, <2>5, <2>7, OneStaysExact, Zenon
  <2>9. CallsBounded'
    BY <2>1, ReturnBounded
  <2>10. QED
    BY <2>8, <2>9
<1>3. CASE WriteFails(t)
  BY <1>3, PipesUntouched, ReturnBounded DEF WriteFails
<1>4. CASE Read(t)
  <2>1. /\ call[t].op = "read" /\ ~IsEmpty(pipes[id]) /\ written' = written /\ Return(t)
        /\ UNCHANGED <<slots, pipe_count>>
    BY <1>4 DEF Read
  <2>2. id \in DOMAIN pipes
    BY <1>1, <2>1 DEF CallsShaped
  <2>3. PICK p : p = Dequeue(pipes[id])
    OBVIOUS
  <2>4. pipes' = [pipes EXCEPT ![id] = p]
    BY <1>4, <2>2, <2>3 DEF Read
  <2>5. Sound(pipes[id], written) /\ Exact(pipes[id])
    BY <1>1, <2>2 DEF PipesSound, AllExact
  <2>6. Exact(p) /\ SamePipe(pipes[id], p)
    BY <1>1, <2>1, <2>3, <2>5, DequeueExact, Zenon
  <2>7. AllExact' /\ TableInv'
    BY <2>1, <2>2, <2>4, <2>6, OneStaysExact, Zenon
  <2>8. CallsBounded'
    BY <2>1, ReturnBounded
  <2>9. QED
    BY <2>7, <2>8
<1>5. CASE GiveUp(t)
  BY <1>5, PipesUntouched, ReturnBounded DEF GiveUp
<1>6. CASE Add(t)
  <2>1. /\ call[t].op = "add" /\ written' = written /\ Return(t)
        /\ UNCHANGED <<slots, pipe_count>>
    BY <1>6 DEF Add
  <2>2. id \in DOMAIN pipes /\ call[t].who \in Member
    BY <1>1, <2>1 DEF CallsShaped
  <2>3. PICK side \in Side : side = call[t].side
    BY <1>1 DEF CallsShaped, CallShape
  <2>4. pipes[id] \in PipeShape /\ Exact(pipes[id])
    BY <1>1, <2>2 DEF PipesSound, Sound, AllExact
  <2>5. pipes[id][side] \in Seq(Member) /\ IsInjective(pipes[id][side])
    BY <2>3, <2>4 DEF PipeShape, Side, Exact
  <2>6. PICK list \in Seq(Member) : list = WithMember(pipes[id][side], call[t].who)
    BY <2>2, <2>5, WithMemberType
  <2>7. IsInjective(list)
    BY <2>2, <2>5, <2>6, WithMemberOnce
  <2>8. PICK p : p = [pipes[id] EXCEPT ![side] = list]
    OBVIOUS
  <2>9. pipes' = [pipes EXCEPT ![id] = p]
    BY <1>6, <2>3, <2>6, <2>8 DEF Add
  <2>10. Exact(p) /\ SamePipe(pipes[id], p)
    BY <2>4, <2>7, <2>8, MembersExact, Zenon
  <2>11. AllExact' /\ TableInv'
    BY <2>1, <2>2, <2>9, <2>10, OneStaysExact, Zenon
  <2>12. CallsBounded'
    BY <2>1, ReturnBounded
  <2>13. QED
    BY <2>11, <2>12
<1>7. QED
  BY <1>2, <1>3, <1>4, <1>5, <1>6 DEF Step

(***************************************************************************)
(* RemoveReader and RemoveWriter (pipe.cpp:225-255).                       *)
(***************************************************************************)
LEMMA RemoveFull ==
  ASSUME FullInv, NEW id \in PipeId, NEW side \in Side, NEW who \in Member,
         RemoveMember(id, side, who)
  PROVE  AllExact' /\ TableInv'
<1>1. PipesSound /\ AllExact
  BY DEF FullInv, PipeInv
<1>2. id \in DOMAIN pipes
  BY DEF FullInv, PipeInv, RemoveMember, Slots
<1>3. pipes[id] \in PipeShape /\ Exact(pipes[id])
  BY <1>1, <1>2 DEF PipesSound, Sound, AllExact
<1>4. pipes[id][side] \in Seq(Member) /\ IsInjective(pipes[id][side])
  BY <1>3 DEF PipeShape, Side, Exact
<1>5. who \in Range(pipes[id][side])
  BY DEF RemoveMember
<1>6. PICK list \in Seq(Member) : list = WithoutMember(pipes[id][side], who)
  BY <1>4, <1>5, WithoutMemberType
<1>7. IsInjective(list)
  BY <1>4, <1>5, <1>6, WithoutMemberOnce
<1>8. PICK p : p = [pipes[id] EXCEPT ![side] = list]
  OBVIOUS
<1>9. pipes' = [pipes EXCEPT ![id] = p] /\ UNCHANGED <<slots, pipe_count>>
  BY <1>6, <1>8 DEF RemoveMember
<1>10. Exact(p) /\ SamePipe(pipes[id], p)
  BY <1>3, <1>7, <1>8, MembersExact, Zenon
<1>11. QED
  BY <1>2, <1>9, <1>10, OneStaysExact, Zenon

(***************************************************************************)
(* Every step keeps the whole invariant: one case per operation.           *)
(***************************************************************************)
LEMMA FullInvStep == FullInv /\ [PipeNext]_pipeVars => FullInv'
<1> SUFFICES ASSUME FullInv, [PipeNext]_pipeVars PROVE FullInv'
  OBVIOUS
<1>1. PipeInv'
  BY PipeInvStep DEF FullInv
<1> SUFFICES AllExact' /\ TableInv' /\ CallsBounded'
  BY <1>1 DEF FullInv
<1>2. ASSUME NEW name \in Name, CreatePipe(name)
      PROVE  AllExact' /\ TableInv' /\ CallsBounded'
  <2>1. UNCHANGED <<call, written>>
    BY <1>2 DEF CreatePipe
  <2> QED BY <1>2, <2>1, CreateFull, CallsUntouched
<1>3. ASSUME NEW name \in Name, DestroyNamed(name)
      PROVE  AllExact' /\ TableInv' /\ CallsBounded'
  <2> DEFINE S == {s \in Slot : NameMatches(s, name)}
  <2>1. S # {} /\ DestroySlot(First(S))
    BY <1>3 DEF DestroyNamed
  <2>2. S \subseteq Slot /\ \A s \in S : slots[s] # 0
    BY DEF NameMatches
  <2>3. UNCHANGED <<call, written>>
    BY <2>1 DEF DestroySlot
  <2> HIDE DEF S
  <2> QED BY <2>1, <2>2, <2>3, DestroyFull, CallsUntouched
<1>4. ASSUME NEW id \in PipeId, DestroyPipe(id)
      PROVE  AllExact' /\ TableInv' /\ CallsBounded'
  <2>1. Slots(id) # {} /\ DestroySlot(First(Slots(id)))
    BY <1>4 DEF DestroyPipe
  <2>2. Slots(id) \subseteq Slot /\ \A s \in Slots(id) : slots[s] # 0
    BY DEF Slots
  <2>3. UNCHANGED <<call, written>>
    BY <2>1 DEF DestroySlot
  <2> QED BY <2>1, <2>2, <2>3, DestroyFull, CallsUntouched
<1>5. CASE CloseAllPipes
  <2>1. UNCHANGED <<call, written>>
    BY <1>5 DEF CloseAllPipes
  <2> QED BY <1>5, <2>1, CloseAllFull, CallsUntouched
<1>6. ASSUME NEW t \in Thread, NEW id \in PipeId, NEW block \in BOOLEAN, NEW size \in Size,
             EnterTransfer(t, "write", id, size, block)
      PROVE  AllExact' /\ TableInv' /\ CallsBounded'
  <2>1. PICK c : c = [Idle EXCEPT !.op = "write", !.pipe = id, !.size = size, !.block = block]
    OBVIOUS
  <2>2. c \in CallShape /\ c.op = "write" /\ c.pipe <= MaxCreated
    <3>1. Idle \in CallShape
      BY DEF Idle, CallShape, Side
    <3>2. id \in Nat /\ id <= MaxCreated
      BY PipeConstants DEF PipeId
    <3> QED BY <2>1, <3>1, <3>2 DEF CallShape
  <2>3. /\ call[t] = Idle /\ call' = [call EXCEPT ![t] = c]
        /\ UNCHANGED <<slots, pipe_count, pipes>> /\ UNCHANGED written
        /\ written + Cardinality(Writers) < MaxWrites
    BY <1>6, <2>1 DEF EnterTransfer, Writers
  <2>4. CallsBounded'
    BY <2>2, <2>3, EnterBounded, Zenon
  <2> QED BY <2>3, <2>4, PipesUntouched
<1>7. ASSUME NEW t \in Thread, NEW id \in PipeId, NEW block \in BOOLEAN,
             EnterTransfer(t, "read", id, 0, block)
      PROVE  AllExact' /\ TableInv' /\ CallsBounded'
  <2>1. PICK c : c = [Idle EXCEPT !.op = "read", !.pipe = id, !.size = 0, !.block = block]
    OBVIOUS
  <2>2. c \in CallShape /\ c.op # "write" /\ c.pipe <= MaxCreated
    <3>1. Idle \in CallShape
      BY DEF Idle, CallShape, Side
    <3>2. id \in Nat /\ id <= MaxCreated
      BY PipeConstants DEF PipeId
    <3> QED BY <2>1, <3>1, <3>2 DEF CallShape
  <2>3. /\ call[t] = Idle /\ call' = [call EXCEPT ![t] = c]
        /\ UNCHANGED <<slots, pipe_count, pipes>> /\ UNCHANGED written
    BY <1>7, <2>1 DEF EnterTransfer
  <2>4. CallsBounded'
    BY <2>2, <2>3, EnterBounded, Zenon
  <2> QED BY <2>3, <2>4, PipesUntouched
<1>8. ASSUME NEW t \in Thread, NEW id \in PipeId, NEW side \in Side, NEW who \in Member,
             EnterAdd(t, id, side, who)
      PROVE  AllExact' /\ TableInv' /\ CallsBounded'
  <2>1. PICK c : c = [Idle EXCEPT !.op = "add", !.pipe = id, !.side = side, !.who = who]
    OBVIOUS
  <2>2. c \in CallShape /\ c.op # "write" /\ c.pipe <= MaxCreated
    <3>1. Idle \in CallShape
      BY DEF Idle, CallShape, Side
    <3>2. id \in Nat /\ id <= MaxCreated
      BY PipeConstants DEF PipeId
    <3> QED BY <2>1, <3>1, <3>2 DEF CallShape
  <2>3. /\ call[t] = Idle /\ call' = [call EXCEPT ![t] = c]
        /\ UNCHANGED <<slots, pipe_count, pipes>> /\ UNCHANGED written
    BY <1>8, <2>1 DEF EnterAdd
  <2>4. CallsBounded'
    BY <2>2, <2>3, EnterBounded, Zenon
  <2> QED BY <2>3, <2>4, PipesUntouched
<1>9. ASSUME NEW id \in PipeId, NEW side \in Side, NEW who \in Member, RemoveMember(id, side, who)
      PROVE  AllExact' /\ TableInv' /\ CallsBounded'
  <2>1. UNCHANGED <<call, written>>
    BY <1>9 DEF RemoveMember
  <2> QED BY <1>9, <2>1, RemoveFull, CallsUntouched
<1>10. ASSUME NEW t \in Thread, Step(t)
       PROVE  AllExact' /\ TableInv' /\ CallsBounded'
  BY <1>10, CallFull
<1>11. CASE UNCHANGED pipeVars
  <2>1. UNCHANGED <<slots, pipe_count, pipes>> /\ UNCHANGED <<call, written>>
    BY <1>11 DEF pipeVars
  <2> QED BY <2>1, PipesUntouched, CallsUntouched
<1> QED BY <1>2, <1>3, <1>4, <1>5, <1>6, <1>7, <1>8, <1>9, <1>10, <1>11 DEF PipeNext

(***************************************************************************)
(* A sound and exact pipe has the types of PipeRecord: its message numbers *)
(* were given out, and its bytes are a sum.                                *)
(***************************************************************************)
LEMMA RecordTyped ==
  ASSUME NEW p, NEW given \in 0 .. MaxWrites, Sound(p, given), Exact(p)
  PROVE  /\ p \in PipeRecord /\ p.count = Len(p.queue) /\ p.used = Bytes(p.queue)
         /\ IsInjective(p.readers) /\ IsInjective(p.writers)
<1>1. /\ p \in PipeShape /\ p.queue \in Seq(NumberedMessage) /\ Len(p.queue) \in Nat
      /\ p.count = Len(p.queue) /\ p.lastRead \in Nat
      /\ \A i \in 1 .. Len(p.queue) : p.queue[i].no \in Nat
  BY SoundFields
<1>2. p.used = Bytes(p.queue) /\ p.used \in Nat
  <2>1. BytesAre(p.queue, p.used)
    BY DEF Exact
  <2>2. QED
    BY <1>1, <2>1, BytesAdded
<1>3. MaxWrites \in Nat /\ given \in Nat /\ given <= MaxWrites
  BY PipeConstants
<1>4. p.lastRead \in 0 .. MaxWrites
  BY <1>1, <1>3 DEF Sound, InOrder
<1>5. ASSUME NEW i \in 1 .. Len(p.queue) PROVE p.queue[i] \in Message
  <2>1. p.lastRead < p.queue[i].no /\ p.queue[i].no <= given
    BY DEF Sound, InOrder
  <2>2. p.queue[i].no \in 1 .. MaxWrites
    BY <1>1, <1>3, <2>1
  <2>3. p.queue[i].size \in Size
    BY DEF Exact
  <2>4. p.queue[i] \in NumberedMessage
    BY <1>1
  <2>5. QED
    BY <2>2, <2>3, <2>4 DEF NumberedMessage, Message
<1>6. p.queue \in Seq(Message)
  <2>1. p.queue = [i \in 1 .. Len(p.queue) |-> p.queue[i]]
    BY <1>1
  <2>2. p.queue \in [1 .. Len(p.queue) -> Message]
    BY <1>5, <2>1
  <2>3. QED
    BY <1>1, <2>2
<1>7. p \in PipeRecord
  BY <1>1, <1>2, <1>4, <1>6 DEF PipeShape, PipeRecord
<1>8. QED
  BY <1>1, <1>2, <1>7 DEF Exact

(***************************************************************************)
(* Counters, member lists and the table agree with what they count and     *)
(* list, for any threads, names, sizes, limits and number of pipes; only   *)
(* names that fill a pipe's field may occur twice                         *)
(* (Pipe and PipeManager, pipe.cpp:40-51, 82-450).                         *)
(***************************************************************************)
THEOREM PipeAccountsAgree == PipeSpec => []PipesConsistent
<1>1. FullInv => PipesConsistent
  <2> SUFFICES ASSUME FullInv PROVE PipesConsistent
    OBVIOUS
  <2>1. /\ written \in Nat /\ pipes \in Seq(PipeShape) /\ slots \in [Slot -> Nat]
        /\ \A s \in Slot : slots[s] # 0 => slots[s] \in DOMAIN pipes
        /\ call \in [Thread -> CallShape] /\ Len(pipes) <= MaxCreated /\ TableConsistent
        /\ \A id \in DOMAIN pipes : Sound(pipes[id], written) /\ Exact(pipes[id])
    BY DEF FullInv, PipeInv, PipesSound, CallsShaped, TableInv, AllExact
  <2>2. /\ MaxWrites \in Nat /\ MaxCreated \in Nat /\ MaxPipes \in Nat
        /\ Len(pipes) \in Nat /\ DOMAIN pipes = 1 .. Len(pipes)
    BY <2>1, PipeConstants
  <2>3. written \in 0 .. MaxWrites
    <3>1. IsFiniteSet(Writers) /\ written + Cardinality(Writers) <= MaxWrites
      BY DEF FullInv, CallsBounded
    <3>2. PICK n \in Nat : n = Cardinality(Writers)
      BY <3>1, FS_CardinalityType
    <3>3. written + n <= MaxWrites
      BY <3>1, <3>2
    <3>4. QED
      BY <2>1, <2>2, <3>3
  <2>4. \A id \in DOMAIN pipes :
          /\ pipes[id] \in PipeRecord /\ pipes[id].count = Len(pipes[id].queue)
          /\ pipes[id].used = Bytes(pipes[id].queue)
          /\ IsInjective(pipes[id].readers) /\ IsInjective(pipes[id].writers)
    BY <2>1, <2>3, RecordTyped
  <2>5. AccountsExact
    BY <2>4 DEF AccountsExact
  <2>6. MembersOnce
    BY <2>4 DEF MembersOnce, Side
  <2>7. slots \in [Slot -> 0 .. MaxCreated]
    BY <2>1, <2>2
  <2>8. pipe_count \in 0 .. MaxPipes
    BY <2>1, <2>2, SlotsFinite DEF TableConsistent, InUse
  <2>9. pipes \in Seq(PipeRecord)
    <3>1. pipes = [i \in 1 .. Len(pipes) |-> pipes[i]]
      BY <2>1, <2>2
    <3>2. pipes \in [1 .. Len(pipes) -> PipeRecord]
      BY <2>2, <2>4, <3>1
    <3>3. QED
      BY <2>2, <3>2
  <2>10. \A t \in Thread : call[t] \in [op : {"none", "write", "read", "add"},
            pipe : 0 .. MaxCreated, size : Size \cup {0}, block : BOOLEAN,
            who : Member \cup {0}, side : Side]
    <3>1. SUFFICES ASSUME NEW t \in Thread
                   PROVE  call[t] \in [op : {"none", "write", "read", "add"},
                            pipe : 0 .. MaxCreated, size : Size \cup {0}, block : BOOLEAN,
                            who : Member \cup {0}, side : Side]
      OBVIOUS
    <3>2. call[t] \in CallShape
      BY <2>1
    <3>3. call[t].pipe \in Nat /\ call[t].pipe <= MaxCreated
      BY <3>2 DEF CallShape, FullInv, CallsBounded
    <3>4. call[t].pipe \in 0 .. MaxCreated
      BY <2>2, <3>3
    <3>5. QED
      BY <3>2, <3>4 DEF CallShape
  <2>11. PipeTypeOK
    BY <2>1, <2>3, <2>7, <2>8, <2>9, <2>10 DEF PipeTypeOK
  <2>12. QED
    BY <2>1, <2>5, <2>6, <2>11 DEF PipesConsistent
<1>2. QED
  BY <1>1, FullInvInit, FullInvStep, PTL DEF PipeSpec
=============================================================================

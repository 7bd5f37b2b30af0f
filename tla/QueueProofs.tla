----------------------------- MODULE QueueProofs -----------------------------
(***************************************************************************)
(* Proofs about the kernel's two bounded queues.  MessageQueue, for any    *)
(* callers, receivers and capacity; then InputEventQueue, for a ring of    *)
(* any length and wherever the main context is interrupted: until an       *)
(* unread slot is overwritten, the count promises no event that is not     *)
(* there and events come out in order.                                     *)
(***************************************************************************)
EXTENDS MessageQueue, InputEventQueue, FiniteSetTheorems, WellFoundedInduction, TLAPS

(***************************************************************************)
(* A non-empty set of natural numbers has a smallest element: the first    *)
(* matching message (message_queue.cpp:88-103) is one.                     *)
(***************************************************************************)
LEMMA MinimumExists ==
  ASSUME NEW T, T \subseteq Nat, T # {}
  PROVE  \E m \in T : \A n \in T : m <= n
<1> DEFINE Less == OpToRel(<, Nat)
<1>1. IsWellFoundedOn(Less, Nat)
  BY NatLessThanWellFounded
<1>2. \E x \in T : \A y \in T : ~ (<<y, x>> \in Less)
  <2> HIDE DEF Less
  <2> QED BY <1>1, WFMin
<1>3. PICK x \in T : \A y \in T : ~ (<<y, x>> \in Less)
  BY <1>2
<1>4. Less = {p \in Nat \X Nat : p[1] < p[2]}
  BY DEF OpToRel
<1>5. \A y \in T : x <= y
  <2> HIDE DEF Less
  <2>1. \A y \in T : ~ (y < x)
    BY <1>3, <1>4
  <2> QED BY <2>1
<1>6. QED
  BY <1>5

\* Identifiers grow along the list.
Ordered == \A i, j \in DOMAIN msgs : i < j => msgs[i].id < msgs[j].id

\* Every identifier seen so far is below the next one.
IdsBelow ==
  /\ \A i \in DOMAIN msgs : msgs[i].id < next_message_id
  /\ \A x \in received : x.id < next_message_id
  /\ \A f \in flushed : f < next_message_id

(***************************************************************************)
(* The inductive invariant: the checked properties, and the order of the   *)
(* identifiers they follow from.                                           *)
(***************************************************************************)
QueueInv ==
  /\ TypeOK /\ ListConsistent /\ NoOvertaking /\ TakenOnce
  /\ Ordered /\ IdsBelow

(***************************************************************************)
(* Unlinking place i (message_queue.cpp:166-173): the elements before it   *)
(* keep their place and the others move up by one.                         *)
(***************************************************************************)
LEMMA RemoveAtElements ==
  ASSUME NEW S, NEW q \in Seq(S), NEW i \in 1 .. Len(q)
  PROVE  /\ RemoveAt(q, i) \in Seq(S)
         /\ Len(RemoveAt(q, i)) = Len(q) - 1
         /\ \A j \in 1 .. Len(q) - 1 :
              RemoveAt(q, i)[j] = IF j < i THEN q[j] ELSE q[j + 1]
<1> DEFINE front == SubSeq(q, 1, i - 1)
           back  == SubSeq(q, i + 1, Len(q))
<1>1. /\ front \in Seq(S) /\ Len(front) = i - 1
      /\ \A j \in 1 .. i - 1 : front[j] = q[j]
  OBVIOUS
<1>2. /\ back \in Seq(S) /\ Len(back) = Len(q) - i
      /\ \A j \in 1 .. Len(q) - i : back[j] = q[i + j]
  OBVIOUS
<1>3. RemoveAt(q, i) = front \o back
  BY DEF RemoveAt
<1> HIDE DEF front, back
<1>4. front \o back \in Seq(S) /\ Len(front \o back) = Len(q) - 1
  BY <1>1, <1>2
<1>5. ASSUME NEW j \in 1 .. Len(q) - 1
      PROVE  (front \o back)[j] = IF j < i THEN q[j] ELSE q[j + 1]
  <2>1. CASE j < i
    BY <1>1, <1>2, <2>1
  <2>2. CASE ~(j < i)
    <3>1. (front \o back)[j] = back[j - (i - 1)]
      BY <1>1, <1>2, <2>2
    <3>2. back[j - (i - 1)] = q[i + (j - (i - 1))]
      BY <1>2, <2>2
    <3>3. QED
      BY <2>2, <3>1, <3>2
  <2>3. QED
    BY <2>1, <2>2
<1>6. QED
  BY <1>3, <1>4, <1>5

(***************************************************************************)
(* FindMatchingMessage returns the first match, and 0 only without one     *)
(* (message_queue.cpp:88-103).                                             *)
(***************************************************************************)
LEMMA FirstMatch ==
  ASSUME NEW S, NEW q \in Seq(S), NEW r, FindMatchingMessage(q, r) > 0
  PROVE  LET i == FindMatchingMessage(q, r)
         IN /\ i \in 1 .. Len(q)
            /\ Matches(q[i].to, r)
            /\ \A j \in 1 .. Len(q) : Matches(q[j].to, r) => i <= j
<1> DEFINE hits == {i \in DOMAIN q : Matches(q[i].to, r)}
<1>1. hits # {}
  BY DEF FindMatchingMessage
<1>2. \E i \in hits : \A j \in hits : i <= j
  <2>1. hits \subseteq Nat
    OBVIOUS
  <2>2. QED
    BY <1>1, <2>1, MinimumExists
<1>3. QED
  BY <1>2 DEF FindMatchingMessage

(***************************************************************************)
(* The identifiers of a typed state are numbers the prover can compare     *)
(* (message_queue.hpp:24, message_queue.cpp:63, 117).                      *)
(***************************************************************************)
LEMMA IdsAreNumbers ==
  ASSUME TypeOK
  PROVE  /\ DOMAIN msgs = 1 .. Len(msgs) /\ Len(msgs) \in Nat
         /\ \A i \in 1 .. Len(msgs) : msgs[i] \in Message
         /\ \A i \in 1 .. Len(msgs) : msgs[i].id \in Id /\ msgs[i].id \in Nat
         /\ \A x \in received : x.id \in Nat
         /\ \A f \in flushed : f \in Nat
         /\ next_message_id \in Nat
<1> USE QueueAssumptions
<1>1. msgs \in Seq(Message)
  BY DEF TypeOK
<1>2. DOMAIN msgs = 1 .. Len(msgs) /\ Len(msgs) \in Nat
  BY <1>1
<1>3. \A i \in 1 .. Len(msgs) : msgs[i] \in Message
  BY <1>1
<1>4. \A m \in Message : m.id \in Id
  BY DEF Message
<1>5. Id \subseteq Nat
  BY DEF Id
<1>6. \A x \in received : x.id \in Id
  BY DEF TypeOK
<1>7. flushed \subseteq Nat /\ next_message_id \in Nat
  BY <1>5 DEF TypeOK
<1>8. QED
  BY <1>2, <1>3, <1>4, <1>5, <1>6, <1>7

(***************************************************************************)
(* Send adds the largest identifier behind the last message                *)
(* (message_queue.cpp:117-130).                                            *)
(***************************************************************************)
LEMMA SendPreserves ==
  ASSUME QueueInv, NEW c \in Caller, Send(c)
  PROVE  QueueInv'
<1> USE QueueAssumptions
<1> DEFINE m == [id |-> next_message_id, to |-> call[c].peer]
<1>1. m \in Message /\ call[c].peer \in Receiver
  BY DEF QueueInv, TypeOK, Send, Call, Idle, Message
<1>2. msgs' = Append(msgs, m) /\ message_tail' = m.id
  BY DEF QueueInv, ListConsistent, Send, Link
<1>3. /\ msgs \in Seq(Message) /\ DOMAIN msgs = 1 .. Len(msgs)
      /\ msgs' \in Seq(Message) /\ Len(msgs') = Len(msgs) + 1
      /\ DOMAIN msgs' = 1 .. Len(msgs) + 1
      /\ \A i \in 1 .. Len(msgs) : msgs'[i] = msgs[i] /\ msgs[i] \in Message
      /\ msgs'[Len(msgs) + 1] = m
  BY <1>1, <1>2 DEF QueueInv, TypeOK
<1>4. /\ next_message_id' = next_message_id + 1 /\ received' = received
      /\ flushed' = flushed /\ is_closed' = is_closed
      /\ message_count' = message_count + 1 /\ call' = [call EXCEPT ![c] = Idle]
      /\ next_message_id \in Id /\ message_count < max_messages
  BY DEF Send, Return, IsFull, QueueInv, TypeOK
<1>5. m.id = next_message_id /\ m.id \in Id
  BY <1>4
<1> HIDE DEF m
<1>6. TypeOK'
  BY <1>2, <1>3, <1>4, <1>5 DEF QueueInv, TypeOK, Id, Call
<1>7. ListConsistent'
  BY <1>2, <1>3, <1>4 DEF QueueInv, ListConsistent
<1>8. /\ Len(msgs) \in Nat /\ next_message_id \in Nat
      /\ \A i \in 1 .. Len(msgs) : msgs[i].id \in Nat
      /\ \A x \in received : x.id \in Nat
      /\ \A f \in flushed : f \in Nat
  BY IdsAreNumbers DEF QueueInv
<1>9. \A j \in DOMAIN msgs' :
        \/ j \in DOMAIN msgs /\ msgs'[j] = msgs[j]
        \/ j = Len(msgs) + 1 /\ msgs'[j] = m
  BY <1>3, <1>8
<1>10. Ordered'
  BY <1>3, <1>5, <1>8, <1>9 DEF QueueInv, Ordered, IdsBelow
<1>11. IdsBelow'
  BY <1>3, <1>4, <1>5, <1>8, <1>9 DEF QueueInv, IdsBelow
<1>12. NoOvertaking'
  BY <1>4, <1>5, <1>9 DEF QueueInv, NoOvertaking, IdsBelow
<1>13. TakenOnce'
  BY <1>4, <1>5, <1>8, <1>9 DEF QueueInv, TakenOnce, IdsBelow
<1>14. QED
  BY <1>6, <1>7, <1>10, <1>11, <1>12, <1>13 DEF QueueInv

(***************************************************************************)
(* Receive takes the first match out of the list (message_queue.cpp:       *)
(* 147-178): what is left of its matches is younger.                       *)
(***************************************************************************)
LEMMA ReceivePreserves ==
  ASSUME QueueInv, NEW c \in Caller, Receive(c)
  PROVE  QueueInv'
<1> USE QueueAssumptions
<1> DEFINE r == call[c].peer
           i == FindMatchingMessage(msgs, r)
           x == [id |-> msgs[i].id, by |-> r]
<1>1. msgs \in Seq(Message) /\ i > 0 /\ r \in Receiver
  BY DEF QueueInv, TypeOK, Receive, Call, Idle
<1>2. /\ i \in 1 .. Len(msgs) /\ Matches(msgs[i].to, r)
      /\ \A j \in 1 .. Len(msgs) : Matches(msgs[j].to, r) => i <= j
  BY <1>1, FirstMatch
<1>3. /\ msgs' = RemoveAt(msgs, i) /\ received' = received \cup {x}
      /\ message_tail' = TailAfter(msgs, i) /\ message_count' = message_count - 1
      /\ call' = [call EXCEPT ![c] = Idle] /\ next_message_id' = next_message_id
      /\ is_closed' = is_closed /\ flushed' = flushed
  BY DEF Receive, Return
<1> HIDE DEF i
<1>4. /\ DOMAIN msgs = 1 .. Len(msgs) /\ Len(msgs) \in Nat
      /\ msgs' \in Seq(Message) /\ Len(msgs') = Len(msgs) - 1
      /\ DOMAIN msgs' = 1 .. Len(msgs) - 1
      /\ \A j \in 1 .. Len(msgs) - 1 : msgs'[j] = IF j < i THEN msgs[j] ELSE msgs[j + 1]
      /\ \A j \in 1 .. Len(msgs) : msgs[j] \in Message /\ msgs[j].id \in Id /\ msgs[j].id \in Nat
  <2>1. TypeOK
    BY DEF QueueInv
  <2>2. msgs' \in Seq(Message) => DOMAIN msgs' = 1 .. Len(msgs')
    OBVIOUS
  <2>3. QED
    BY <1>1, <1>2, <1>3, <2>1, <2>2, RemoveAtElements, IdsAreNumbers
<1>5. /\ msgs[i].id \in Id /\ x \in [id : Id, by : Receiver]
      /\ x.id = msgs[i].id /\ x.by = r
  BY <1>1, <1>2, <1>4
<1> HIDE DEF x, r
\* old(j): the place that the message now at j had before.
<1> DEFINE old(j) == IF j < i THEN j ELSE j + 1
<1>6. \A j \in DOMAIN msgs' : old(j) \in DOMAIN msgs /\ old(j) # i /\ msgs'[j] = msgs[old(j)]
  <2> SUFFICES ASSUME NEW j \in 1 .. Len(msgs) - 1
               PROVE  old(j) \in 1 .. Len(msgs) /\ old(j) # i /\ msgs'[j] = msgs[old(j)]
    BY <1>4
  <2>1. old(j) \in 1 .. Len(msgs) /\ old(j) # i
    BY <1>2, <1>4
  <2>2. msgs'[j] = msgs[old(j)]
    BY <1>4
  <2>3. QED
    BY <2>1, <2>2
<1>7. Ordered'
  <2> SUFFICES ASSUME NEW j \in DOMAIN msgs', NEW k \in DOMAIN msgs', j < k
               PROVE  msgs'[j].id < msgs'[k].id
    BY DEF Ordered
  <2>1. old(j) < old(k)
    BY <1>2, <1>4
  <2>2. QED
    BY <1>6, <2>1 DEF QueueInv, Ordered
<1> HIDE DEF old
<1>8. IdsBelow'
  BY <1>2, <1>3, <1>4, <1>5, <1>6 DEF QueueInv, IdsBelow
<1>9. ListConsistent'
  <2>1. message_tail = msgs[Len(msgs)].id /\ message_count = Len(msgs)
    BY <1>2, <1>4 DEF QueueInv, ListConsistent
  <2>2. CASE i = Len(msgs)
    <3>1. message_tail' = IF i > 1 THEN msgs[i - 1].id ELSE 0
      BY <1>3, <2>1, <2>2 DEF TailAfter
    <3>2. CASE i = 1
      BY <1>3, <1>4, <2>1, <2>2, <3>1, <3>2 DEF ListConsistent
    <3>3. CASE i > 1
      <4>1. msgs' # <<>> /\ msgs'[Len(msgs')] = msgs[i - 1]
        BY <1>2, <1>4, <2>2, <3>3
      <4>2. QED
        BY <1>3, <1>4, <2>1, <3>1, <3>3, <4>1 DEF ListConsistent
    <3>4. QED
      BY <1>2, <3>2, <3>3
  <2>3. CASE i # Len(msgs)
    <3>1. i < Len(msgs) /\ msgs[i].id < msgs[Len(msgs)].id
      BY <1>2, <1>4, <2>3 DEF QueueInv, Ordered
    <3>2. message_tail' = message_tail
      BY <1>3, <1>4, <1>5, <2>1, <3>1 DEF TailAfter
    <3>3. msgs' # <<>> /\ msgs'[Len(msgs')] = msgs[Len(msgs)]
      BY <1>2, <1>4, <3>1
    <3>4. QED
      BY <1>3, <1>4, <2>1, <3>2, <3>3 DEF ListConsistent
  <2>4. QED
    BY <2>2, <2>3
<1>10. TypeOK'
  <2>1. message_count' \in 0 .. max_messages /\ message_count' = Len(msgs')
    BY <1>2, <1>3, <1>4 DEF QueueInv, TypeOK, ListConsistent
  <2>2. message_tail' \in Id \cup {0}
    BY <1>4, <1>9 DEF ListConsistent, Message
  <2>3. QED
    BY <1>3, <1>4, <1>5, <2>1, <2>2 DEF QueueInv, TypeOK, Call
<1>11. NoOvertaking'
  <2>1. ASSUME NEW j \in DOMAIN msgs', Matches(msgs'[j].to, r)
        PROVE  x.id < msgs'[j].id
    <3> DEFINE k == old(j)
    <3>1. k \in DOMAIN msgs /\ k # i /\ msgs'[j] = msgs[k]
      BY <1>6
    <3> HIDE DEF k
    <3>2. i < k
      BY <1>2, <1>4, <2>1, <3>1
    <3>3. QED
      BY <1>2, <1>4, <1>5, <3>1, <3>2 DEF QueueInv, Ordered
  <2>2. QED
    BY <1>3, <1>5, <1>6, <2>1 DEF QueueInv, NoOvertaking
<1>12. TakenOnce'
  <2>1. \A y \in received : y.id # x.id
    BY <1>2, <1>4, <1>5 DEF QueueInv, TakenOnce
  <2>2. \A j \in DOMAIN msgs' : msgs'[j].id # x.id
    <3> SUFFICES ASSUME NEW j \in DOMAIN msgs' PROVE msgs'[j].id # x.id
      OBVIOUS
    <3>1. old(j) \in 1 .. Len(msgs) /\ old(j) # i /\ msgs'[j] = msgs[old(j)]
      BY <1>4, <1>6
    <3>2. old(j) < i \/ i < old(j)
      BY <1>2, <3>1
    <3>3. msgs[old(j)].id # msgs[i].id
      BY <1>2, <1>4, <3>1, <3>2 DEF QueueInv, Ordered
    <3>4. QED
      BY <1>5, <3>1, <3>3
  <2>3. QED
    BY <1>3, <1>6, <2>1, <2>2 DEF QueueInv, TakenOnce
<1>13. QED
  BY <1>7, <1>8, <1>9, <1>10, <1>11, <1>12 DEF QueueInv

(***************************************************************************)
(* Every step of every caller keeps the inductive invariant.               *)
(***************************************************************************)
LEMMA StepPreserves ==
  QueueInv /\ [Next]_vars => QueueInv'
<1> SUFFICES ASSUME QueueInv, [Next]_vars PROVE QueueInv'
  OBVIOUS
<1> USE QueueAssumptions
<1> USE DEF QueueInv
<1>1. ASSUME NEW c \in Caller, NEW op \in {"send", "receive"}, NEW peer \in Receiver,
             NEW block \in BOOLEAN, Enter(c, op, peer, block)
      PROVE  QueueInv'
  <2>1. call' \in [Caller -> Call]
    BY <1>1 DEF TypeOK, Enter, Call
  <2>2. QED
    BY <1>1, <2>1 DEF Enter, TypeOK, ListConsistent, NoOvertaking, TakenOnce, Ordered, IdsBelow
<1>2. ASSUME NEW c \in Caller, SendFails(c) PROVE QueueInv'
  <2>1. call' \in [Caller -> Call] /\ next_message_id' \in 1 .. MaxSends + 1
    BY <1>2 DEF TypeOK, SendFails, Return, Call, Id
  <2>2. IdsBelow'
    BY <1>2, IdsAreNumbers DEF SendFails, IdsBelow
  <2>3. QED
    BY <1>2, <2>1, <2>2 DEF SendFails, TypeOK, ListConsistent, NoOvertaking, TakenOnce, Ordered
<1>3. ASSUME NEW c \in Caller, GiveUp(c) PROVE QueueInv'
  <2>1. call' \in [Caller -> Call]
    BY <1>3 DEF TypeOK, GiveUp, Return, Call
  <2>2. QED
    BY <1>3, <2>1 DEF GiveUp, TypeOK, ListConsistent, NoOvertaking, TakenOnce, Ordered, IdsBelow
<1>4. CASE Close
  BY <1>4 DEF Close, TypeOK, ListConsistent, NoOvertaking, TakenOnce, Ordered, IdsBelow
<1>5. CASE Flush
  <2>1. /\ \A i \in DOMAIN msgs : msgs[i].id \in Id
        /\ msgs' = <<>> /\ DOMAIN msgs' = {} /\ Len(msgs') = 0
    BY <1>5, IdsAreNumbers DEF Flush
  <2>2. flushed' \subseteq Id /\ IdsBelow'
    BY <1>5, <2>1, IdsAreNumbers DEF Flush, TypeOK, IdsBelow
  <2>3. TypeOK'
    <3>1. msgs' \in Seq(Message)
      BY <2>1
    <3>2. QED
      BY <1>5, <2>2, <3>1 DEF Flush, TypeOK
  <2>4. QED
    BY <1>5, <2>1, <2>2, <2>3 DEF Flush, ListConsistent, NoOvertaking, TakenOnce, Ordered
<1>6. CASE UNCHANGED vars
  BY <1>6 DEF vars, TypeOK, ListConsistent, NoOvertaking, TakenOnce, Ordered, IdsBelow
<1>7. QED
  BY <1>1, <1>2, <1>3, <1>4, <1>5, <1>6, SendPreserves, ReceivePreserves DEF Next, Step

(***************************************************************************)
(* For any callers, receivers and capacity, the list, its counter and its  *)
(* tail agree, no receiver overtakes and no message is handed out twice.   *)
(***************************************************************************)
THEOREM QueueInvariant == Spec => []QueueInv
<1>1. Init => QueueInv
  <2> SUFFICES ASSUME Init PROVE QueueInv
    OBVIOUS
  <2>1. msgs = <<>> /\ DOMAIN msgs = {} /\ Len(msgs) = 0 /\ msgs \in Seq(Message)
    BY DEF Init
  <2>2. TypeOK
    <3>1. call \in [Caller -> Call] /\ next_message_id \in 1 .. MaxSends + 1
      BY QueueAssumptions DEF Init, Call
    <3>2. message_count \in 0 .. max_messages
      BY QueueAssumptions DEF Init
    <3>3. is_closed \in BOOLEAN
      BY DEF Init
    <3>4. QED
      BY <2>1, <3>1, <3>2, <3>3 DEF Init, TypeOK
  <2>3. QED
    BY <2>1, <2>2 DEF Init, QueueInv, ListConsistent, NoOvertaking, TakenOnce, Ordered, IdsBelow
<1>2. QED
  BY <1>1, StepPreserves, PTL DEF Spec

(***************************************************************************)
(* The type invariant of the queue (message_queue.cpp:60-76, 105-229).     *)
(***************************************************************************)
THEOREM QueueTypeCorrect == Spec => []TypeOK
  BY QueueInvariant, PTL DEF QueueInv

(***************************************************************************)
(* message_count and message_tail stay true to the list                    *)
(* (message_queue.cpp:117-132, 160-178, 217-229).                          *)
(***************************************************************************)
THEOREM QueueListConsistent == Spec => []ListConsistent
  BY QueueInvariant, PTL DEF QueueInv

(***************************************************************************)
(* Messages for one receiver are taken in the order they were sent         *)
(* (message_queue.cpp:88-103, 136-178).                                    *)
(***************************************************************************)
THEOREM QueueNoOvertaking == Spec => []NoOvertaking
  BY QueueInvariant, PTL DEF QueueInv

(***************************************************************************)
(* No message is handed out twice or after a flush                         *)
(* (message_queue.cpp:117, 166-178, 219-224).                              *)
(***************************************************************************)
THEOREM QueueTakenOnce == Spec => []TakenOnce
  BY QueueInvariant, PTL DEF QueueInv

------------------------------------------------------------------------------
\* How far slot i is ahead of slot r, going forward around the ring.
Ahead(r, i) == IF i >= r THEN i - r ELSE (i - r) + MAX_EVENTS

\* The slots from r up to w, none when they are equal.
Between(r, w) == {i \in Slot : Ahead(r, i) < Ahead(r, w)}

\* The unread slots are those from the reader up to the writer.
InRing(F, r, w) == F = Between(r, w) \/ (F = Slot /\ w = r)

\* A polled Enqueue has stored its event and not yet moved write_idx_.
Stored == pc \in {"poll index", "poll next"}

\* What the main context holds fits what it does next.
Loaded ==
  /\ pc \in {"copy", "load"} => count_ >= 1
  /\ pc = "store" => tmp >= 1
  /\ pc \in {"poll slot", "poll write", "poll index", "poll next", "poll load",
             "poll store"} => count_ <= MAX_EVENTS
  /\ pc = "poll store" => tmp <= MAX_EVENTS
  /\ pc \in {"poll write", "poll next"} => tmp \in Slot

\* The unread slots lie between the indices.
RingInv ==
  /\ pc = "clear write" => read_idx_ = 0
  /\ pc # "clear write" /\ ~Stored => InRing(fresh, read_idx_, write_idx_)
  /\ Stored => write_idx_ \in fresh /\ fresh \ {write_idx_} = Between(read_idx_, write_idx_)
  /\ pc = "poll write" => tmp = write_idx_ \/ tmp \in fresh
  /\ pc = "poll next" => tmp = write_idx_

\* The count is at most what waits, less or more by the step the main context
\* is in the middle of.
CountInv ==
  LET n == Cardinality(fresh)
  IN /\ pc \in {"idle", "copy", "poll slot", "poll write"} => count_ <= n
     /\ pc = "load" => count_ <= n + 1
     /\ pc = "store" => tmp <= n + 1
     /\ pc \in {"poll index", "poll next", "poll load"} => count_ + 1 <= n
     /\ pc = "poll store" => tmp + 1 <= n

\* The event Dequeue holds is newer than all it returned before.
OutInv ==
  /\ \A i, j \in DOMAIN delivered : i < j => delivered[i] < delivered[j]
  /\ \A i \in DOMAIN delivered : delivered[i] <= last
  /\ pc \in {"load", "store"} =>
       /\ out <= last /\ \A i \in DOMAIN delivered : delivered[i] < out

\* Unread events are newer than what was taken out, and newer the further ahead.
OrderInv ==
  /\ \A i, j \in fresh :
       Ahead(read_idx_, i) < Ahead(read_idx_, j) => events_[i] < events_[j]
  /\ \A i \in fresh : events_[i] <= last
  /\ \A i \in fresh, k \in DOMAIN delivered : delivered[k] < events_[i]
  /\ pc \in {"load", "store"} => \A i \in fresh : out < events_[i]

Sound ==
  /\ RingInv /\ CountInv /\ OutInv
  /\ pc # "clear write" => OrderInv

EventQueueInv == RingTypeOK /\ Loaded /\ (~overrun => Sound)

------------------------------------------------------------------------------
(***************************************************************************)
(* The slot after a slot (event_queue.cpp:16, 28).                         *)
(***************************************************************************)
LEMMA NextIndex ==
  ASSUME NEW i \in Slot
  PROVE  next(i) \in Slot /\ next(i) = IF i = MAX_EVENTS - 1 THEN 0 ELSE i + 1
<1> USE QueueConstants DEF Slot
<1>1. CASE i = MAX_EVENTS - 1
  <2>1. i + 1 = MAX_EVENTS
    BY <1>1
  <2>2. MAX_EVENTS % MAX_EVENTS = 0
    OBVIOUS
  <2>3. QED
    BY <1>1, <2>1, <2>2 DEF next
<1>2. CASE i # MAX_EVENTS - 1
  <2>1. i + 1 \in 0 .. MAX_EVENTS - 1
    BY <1>2
  <2>2. (i + 1) % MAX_EVENTS = i + 1
    BY <2>1
  <2>3. QED
    BY <1>2, <2>1, <2>2 DEF next
<1>3. QED
  BY <1>1, <1>2

(***************************************************************************)
(* Going forward from a slot reaches every other one once.                 *)
(***************************************************************************)
LEMMA AheadOnce ==
  ASSUME NEW r \in Slot, NEW i \in Slot
  PROVE  /\ Ahead(r, i) \in 0 .. MAX_EVENTS - 1
         /\ Ahead(r, i) = 0 <=> i = r
         /\ \A j \in Slot : Ahead(r, i) = Ahead(r, j) => i = j
BY QueueConstants DEF Slot, Ahead

(***************************************************************************)
(* Storing an event in the writer's slot and moving write_idx_             *)
(* (event_queue.cpp:15-17).                                                *)
(***************************************************************************)
LEMMA WriterMoves ==
  ASSUME NEW r \in Slot, NEW w \in Slot
  PROVE  /\ w \notin Between(r, w)
         /\ InRing(Between(r, w) \cup {w}, r, next(w))
<1>1. w \notin Between(r, w)
  BY AheadOnce DEF Between
<1>2. next(w) \in Slot /\ next(w) = IF w = MAX_EVENTS - 1 THEN 0 ELSE w + 1
  BY NextIndex
<1>3. CASE next(w) = r
  <2>1. Ahead(r, w) = MAX_EVENTS - 1
    BY <1>2, <1>3, QueueConstants DEF Slot, Ahead
  <2>2. \A i \in Slot : i = w \/ Ahead(r, i) < Ahead(r, w)
    <3> SUFFICES ASSUME NEW i \in Slot, i # w PROVE Ahead(r, i) < Ahead(r, w)
      OBVIOUS
    <3>1. Ahead(r, i) \in 0 .. MAX_EVENTS - 1 /\ Ahead(r, i) # Ahead(r, w)
      BY AheadOnce
    <3>2. QED
      BY <2>1, <3>1, QueueConstants
  <2>3. Between(r, w) \cup {w} = Slot
    BY <2>2 DEF Between
  <2>4. QED
    BY <1>1, <1>3, <2>3 DEF InRing
<1>4. CASE next(w) # r
  <2>1. Ahead(r, next(w)) = Ahead(r, w) + 1
    BY <1>2, <1>4, QueueConstants DEF Slot, Ahead
  <2>2. \A i \in Slot : Ahead(r, i) < Ahead(r, next(w)) <=> Ahead(r, i) < Ahead(r, w) \/ i = w
    <3> SUFFICES ASSUME NEW i \in Slot
                 PROVE  Ahead(r, i) < Ahead(r, next(w)) <=> Ahead(r, i) < Ahead(r, w) \/ i = w
      OBVIOUS
    <3>1. /\ Ahead(r, i) \in Int /\ Ahead(r, w) \in Int
          /\ Ahead(r, i) = Ahead(r, w) <=> i = w
      BY AheadOnce
    <3>2. QED
      BY <2>1, <3>1
  <2>3. Between(r, w) \cup {w} = Between(r, next(w))
    BY <2>2 DEF Between
  <2>4. QED
    BY <1>1, <2>3 DEF InRing
<1>5. QED
  BY <1>3, <1>4, <1>1

(***************************************************************************)
(* Taking the event in the reader's slot and moving read_idx_              *)
(* (event_queue.cpp:26-28).                                                *)
(***************************************************************************)
LEMMA ReaderMoves ==
  ASSUME NEW r \in Slot, NEW w \in Slot, NEW F, InRing(F, r, w), F # {}
  PROVE  /\ r \in F /\ \A i \in F \ {r} : Ahead(r, r) < Ahead(r, i)
         /\ InRing(F \ {r}, next(r), w)
         /\ \A i, j \in F \ {r} : Ahead(next(r), i) < Ahead(next(r), j)
                                    => Ahead(r, i) < Ahead(r, j)
<1>1. F \subseteq Slot
  BY DEF InRing, Between
<1>2. next(r) \in Slot /\ next(r) = IF r = MAX_EVENTS - 1 THEN 0 ELSE r + 1
  BY NextIndex
<1>3. \A i \in Slot : Ahead(next(r), i) = IF i = r THEN MAX_EVENTS - 1 ELSE Ahead(r, i) - 1
  BY <1>2, QueueConstants DEF Slot, Ahead
<1>4. \A i \in Slot : Ahead(r, i) \in 0 .. MAX_EVENTS - 1 /\ (Ahead(r, i) = 0 <=> i = r)
  BY AheadOnce
<1>5. r \in F
  <2>1. CASE F = Slot
    BY <2>1
  <2>2. CASE F = Between(r, w)
    <3>1. PICK i \in Slot : Ahead(r, i) < Ahead(r, w)
      BY <2>2 DEF Between
    <3>2. Ahead(r, r) < Ahead(r, w)
      BY <1>4, <3>1, QueueConstants
    <3>3. QED
      BY <2>2, <3>2 DEF Between
  <2>3. QED
    BY <2>1, <2>2 DEF InRing
<1>6. \A i \in F \ {r} : Ahead(r, r) < Ahead(r, i)
  BY <1>1, <1>4, QueueConstants
<1>7. \A i, j \in F \ {r} : Ahead(next(r), i) < Ahead(next(r), j)
                              => Ahead(r, i) < Ahead(r, j)
  BY <1>1, <1>3, <1>4, QueueConstants
<1>8. F \ {r} = Between(next(r), w)
  <2>1. CASE F = Slot /\ w = r
    <3>1. \A i \in Slot : i # r <=> Ahead(next(r), i) < Ahead(next(r), w)
      BY <1>3, <1>4, <2>1, QueueConstants
    <3>2. QED
      BY <2>1, <3>1 DEF Between
  <2>2. CASE F = Between(r, w)
    <3>1. Ahead(r, r) < Ahead(r, w) /\ w # r
      BY <1>5, <2>2, AheadOnce DEF Between
    <3>2. \A i \in Slot : (Ahead(r, i) < Ahead(r, w) /\ i # r)
                            <=> Ahead(next(r), i) < Ahead(next(r), w)
      BY <1>3, <1>4, <3>1, QueueConstants
    <3>3. QED
      BY <2>2, <3>2 DEF Between
  <2>3. QED
    BY <2>1, <2>2 DEF InRing
<1>9. QED
  BY <1>5, <1>6, <1>7, <1>8 DEF InRing

(***************************************************************************)
(* The unread slots can be counted, and one more or less counts as one     *)
(* (event_queue.cpp:17, 29).                                               *)
(***************************************************************************)
LEMMA CountOne ==
  ASSUME NEW F, F \subseteq Slot, NEW i \in Slot
  PROVE  /\ Cardinality(F) \in Nat
         /\ i \notin F => Cardinality(F \cup {i}) = Cardinality(F) + 1
         /\ i \in F => Cardinality(F \ {i}) = Cardinality(F) - 1
         /\ Cardinality(F) > 0 => F # {}
<1>1. IsFiniteSet(Slot)
  BY QueueConstants, FS_Interval DEF Slot
<1>2. IsFiniteSet(F)
  BY <1>1, FS_Subset
<1>3. Cardinality(F) \in Nat
  BY <1>2, FS_CardinalityType
<1>4. i \notin F => Cardinality(F \cup {i}) = Cardinality(F) + 1
  BY <1>2, FS_AddElement
<1>5. i \in F => Cardinality(F \ {i}) = Cardinality(F) - 1
  BY <1>2, FS_RemoveElement
<1>6. Cardinality(F) > 0 => F # {}
  BY FS_EmptySet
<1>7. QED
  BY <1>3, <1>4, <1>5, <1>6

(***************************************************************************)
(* Every step keeps the indices in the ring and what the main context has  *)
(* loaded fit to be stored (event_queue.cpp:10-43).                        *)
(***************************************************************************)
LEMMA TypeStep ==
  ASSUME RingTypeOK, Loaded, [RingNext]_ringVars
  PROVE  RingTypeOK' /\ Loaded'
<1>a. /\ write_idx_ \in Slot /\ read_idx_ \in Slot /\ last \in Event \cup {0}
      /\ count_ \in 0 .. MAX_EVENTS + 1 /\ tmp \in 0 .. MAX_EVENTS + 1
  BY DEF RingTypeOK
<1>b. 0 \in Slot /\ 0 \in 0 .. MAX_EVENTS + 1
  BY QueueConstants DEF Slot
<1>0. write_idx_ \in Slot /\ read_idx_ \in Slot /\ 0 \in Slot
  BY <1>a, <1>b
<1>1. next(write_idx_) \in Slot /\ next(read_idx_) \in Slot
      /\ (tmp \in Slot => next(tmp) \in Slot)
  BY <1>0, NextIndex
<1>2. last < Accepted => last + 1 \in Event
  BY <1>a, QueueConstants DEF Event
<1>3. CASE Enqueue
  <2>1. events_' \in [Slot -> Event \cup {0}] /\ fresh' \subseteq Slot /\ overrun' \in BOOLEAN
    BY <1>0, <1>2, <1>3 DEF Enqueue, Write, RingTypeOK
  <2>2. /\ count_' = count_ + 1 /\ count_ < MAX_EVENTS
        /\ last' \in Event \cup {0} /\ write_idx_' \in Slot
        /\ UNCHANGED <<read_idx_, pc, tmp, out, delivered>>
    BY <1>1, <1>2, <1>3 DEF Enqueue, main
  <2>n. count_' \in 0 .. MAX_EVENTS + 1 /\ count_' <= MAX_EVENTS /\ count_' >= 1
    BY <1>a, <2>2, QueueConstants
  <2>3. RingTypeOK'
    BY <2>1, <2>2, <2>n DEF RingTypeOK
  <2>4. Loaded'
    BY <2>2, <2>n DEF Loaded
  <2>5. QED
    BY <2>3, <2>4
<1>4. CASE Dequeue
  <2>1. CASE DequeueTest
    <3>1. count_ >= 1
      BY <1>a, <2>1, QueueConstants DEF DequeueTest
    <3>2. QED
      BY <2>1, <3>1 DEF DequeueTest, RingTypeOK, Loaded, ring
  <2>2. CASE DequeueCopy
    <3>1. events_[read_idx_] \in Event \cup {0}
      BY <1>0 DEF RingTypeOK
    <3>2. QED
      BY <1>1, <2>2, <3>1 DEF DequeueCopy, RingTypeOK, Loaded
  <2>3. CASE DequeueLoad
    BY <2>3 DEF DequeueLoad, RingTypeOK, Loaded, ring
  <2>4. CASE DequeueStore
    <3>1. delivered' \in Seq(Event \cup {0})
      BY <2>4 DEF DequeueStore, RingTypeOK
    <3>2. count_' \in 0 .. MAX_EVENTS + 1
      BY <1>a, <2>4, QueueConstants DEF DequeueStore, Loaded
    <3>3. QED
      BY <1>b, <2>4, <3>1, <3>2 DEF DequeueStore, RingTypeOK, Loaded
  <2>5. QED
    BY <1>4, <2>1, <2>2, <2>3, <2>4 DEF Dequeue
<1>5. CASE Clear
  BY <1>b, <1>5 DEF Clear, ClearRead, ClearWrite, ClearCount, RingTypeOK, Loaded
<1>6. CASE Poll
  <2>1. CASE PollTest
    <3>0. count_ < MAX_EVENTS
      BY <2>1 DEF PollTest
    <3>1. count_ <= MAX_EVENTS
      BY <1>a, <3>0, QueueConstants
    <3>2. QED
      BY <2>1, <3>1 DEF PollTest, RingTypeOK, Loaded, ring
  <2>2. CASE PollSlot
    <3>1. write_idx_ \in 0 .. MAX_EVENTS + 1
      BY <1>0, QueueConstants DEF Slot
    <3>2. QED
      BY <1>0, <2>2, <3>1 DEF PollSlot, RingTypeOK, Loaded, ring
  <2>3. CASE PollWrite
    <3>1. /\ events_' \in [Slot -> Event \cup {0}] /\ fresh' \subseteq Slot
          /\ overrun' \in BOOLEAN
      BY <1>2, <2>3 DEF PollWrite, Write, RingTypeOK, Loaded
    <3>2. QED
      BY <1>2, <2>3, <3>1 DEF PollWrite, RingTypeOK, Loaded
  <2>4. CASE PollIndexLoad
    <3>1. write_idx_ \in 0 .. MAX_EVENTS + 1
      BY <1>0, QueueConstants DEF Slot
    <3>2. QED
      BY <1>0, <2>4, <3>1 DEF PollIndexLoad, RingTypeOK, Loaded, ring
  <2>5. CASE PollIndexStore
    BY <1>1, <2>5 DEF PollIndexStore, RingTypeOK, Loaded
  <2>6. CASE PollLoad
    BY <2>6 DEF PollLoad, RingTypeOK, Loaded, ring
  <2>7. CASE PollStore
    <3>1. tmp <= MAX_EVENTS /\ count_' = tmp + 1
      BY <2>7 DEF PollStore, Loaded
    <3>2. count_' \in 0 .. MAX_EVENTS + 1
      BY <1>a, <3>1, QueueConstants
    <3>3. QED
      BY <1>b, <2>7, <3>2 DEF PollStore, RingTypeOK, Loaded
  <2>8. QED
    BY <1>6, <2>1, <2>2, <2>3, <2>4, <2>5, <2>6, <2>7 DEF Poll
<1>7. CASE UNCHANGED ringVars
  BY <1>7 DEF ringVars, ring, main, RingTypeOK, Loaded
<1>8. QED
  BY <1>3, <1>4, <1>5, <1>6, <1>7 DEF RingNext

\* The types that the lemmas below use.
Typed ==
  /\ write_idx_ \in Slot /\ read_idx_ \in Slot /\ fresh \subseteq Slot
  /\ count_ \in Nat /\ tmp \in Nat /\ out \in Nat /\ last \in Nat
  /\ events_ \in [Slot -> Nat] /\ delivered \in Seq(Nat)

(***************************************************************************)
(* The type invariant gives them.                                          *)
(***************************************************************************)
LEMMA TypesUsed == RingTypeOK => Typed
<1> SUFFICES ASSUME RingTypeOK PROVE Typed
  OBVIOUS
<1>1. Event \cup {0} \subseteq Nat
  BY QueueConstants DEF Event
<1>2. /\ count_ \in 0 .. MAX_EVENTS + 1 /\ tmp \in 0 .. MAX_EVENTS + 1
      /\ out \in Event \cup {0} /\ last \in Event \cup {0}
      /\ events_ \in [Slot -> Event \cup {0}] /\ delivered \in Seq(Event \cup {0})
      /\ write_idx_ \in Slot /\ read_idx_ \in Slot /\ fresh \subseteq Slot
  BY DEF RingTypeOK
<1>3. count_ \in Nat /\ tmp \in Nat
  BY <1>2, QueueConstants
<1>4. events_ \in [Slot -> Nat] /\ out \in Nat /\ last \in Nat
  BY <1>1, <1>2
<1>5. delivered \in Seq(Nat)
  BY <1>1, <1>2
<1>6. QED
  BY <1>2, <1>3, <1>4, <1>5 DEF Typed

(***************************************************************************)
(* A new event in a slot that holds no unread one is the newest, and goes  *)
(* in front of no other when its slot is the writer's                      *)
(* (event_queue.cpp:15-17).                                                *)
(***************************************************************************)
LEMMA StoreOrdered ==
  ASSUME Typed, OrderInv, OutInv, NEW w \in Slot \ fresh,
         \A i \in fresh : Ahead(read_idx_, i) < Ahead(read_idx_, w),
         Write(w, last + 1), last' = last + 1, delivered' = delivered,
         UNCHANGED <<read_idx_, out>>,
         pc' \in {"load", "store"} => pc \in {"load", "store"}
  PROVE  OrderInv' /\ OutInv'
<1>1. /\ events_' = [events_ EXCEPT ![w] = last + 1]
      /\ fresh' = fresh \cup {w}
  BY DEF Write
<1>2. /\ events_'[w] = last + 1 /\ last' = last + 1 /\ last \in Nat /\ out \in Nat
      /\ \A i \in fresh : events_'[i] = events_[i] /\ i \in Slot
      /\ \A i \in Slot : events_[i] \in Nat
      /\ \A k \in DOMAIN delivered : delivered[k] \in Nat
  BY <1>1 DEF Typed
<1>3. OutInv'
  BY <1>2 DEF OutInv
<1>4. \A i, j \in fresh' :
        Ahead(read_idx_, i) < Ahead(read_idx_, j) => events_'[i] < events_'[j]
  <2> SUFFICES ASSUME NEW i \in fresh', NEW j \in fresh',
                      Ahead(read_idx_, i) < Ahead(read_idx_, j)
               PROVE  events_'[i] < events_'[j]
    OBVIOUS
  <2>1. CASE i \in fresh /\ j \in fresh
    BY <1>2, <2>1 DEF OrderInv
  <2>2. CASE i \in fresh /\ j = w
    BY <1>2, <2>2 DEF OrderInv
  <2>3. CASE i = w
    <3>1. /\ Ahead(read_idx_, w) \in Int
          /\ \A x \in Slot : Ahead(read_idx_, x) \in Int
      BY AheadOnce DEF Typed
    <3>2. ~(Ahead(read_idx_, w) < Ahead(read_idx_, j))
      BY <1>1, <1>2, <3>1
    <3>3. QED
      BY <2>3, <3>2
  <2>4. QED
    BY <1>1, <2>1, <2>2, <2>3
<1>5. \A i \in fresh' : events_'[i] <= last'
  BY <1>1, <1>2 DEF OrderInv
<1>6. \A i \in fresh', k \in DOMAIN delivered : delivered[k] < events_'[i]
  BY <1>1, <1>2 DEF OrderInv, OutInv
<1>7. pc \in {"load", "store"} => \A i \in fresh' : out < events_'[i]
  BY <1>1, <1>2 DEF OrderInv, OutInv
<1>8. QED
  BY <1>3, <1>4, <1>5, <1>6, <1>7 DEF OrderInv

(***************************************************************************)
(* An interrupt's Enqueue, wherever it falls (event_queue.cpp:10-18).      *)
(***************************************************************************)
LEMMA EnqueueSound ==
  ASSUME Typed, Typed', Sound, Enqueue, ~overrun'
  PROVE  Sound'
<1>1. /\ write_idx_ \notin fresh /\ fresh' = fresh \cup {write_idx_}
      /\ write_idx_' = next(write_idx_) /\ count_' = count_ + 1
      /\ Write(write_idx_, last + 1) /\ last' = last + 1
      /\ UNCHANGED <<read_idx_, pc, tmp, out, delivered>>
  BY DEF Enqueue, Write, main
<1>2. ~Stored
  BY <1>1 DEF Sound, RingInv
<1>3. Cardinality(fresh') = Cardinality(fresh) + 1 /\ Cardinality(fresh) \in Nat
  BY <1>1, CountOne DEF Typed
<1>4. count_ \in Nat /\ tmp \in Nat
  BY DEF Typed
<1>5. CountInv'
  <2>1. PICK n \in Nat : n = Cardinality(fresh)
    BY <1>3
  <2>2. /\ pc \in {"idle", "copy", "poll slot", "poll write"} => count_ <= n
        /\ pc = "load" => count_ <= n + 1
        /\ pc = "store" => tmp <= n + 1
        /\ pc = "poll load" => count_ + 1 <= n
        /\ pc = "poll store" => tmp + 1 <= n
    BY <2>1 DEF Sound, CountInv
  <2>3. /\ count_ <= n => count_' <= n + 1
        /\ count_ <= n + 1 => count_' <= (n + 1) + 1
        /\ tmp <= n + 1 => tmp' <= (n + 1) + 1
        /\ count_ + 1 <= n => count_' + 1 <= n + 1
        /\ tmp + 1 <= n => tmp' + 1 <= n + 1
    BY <1>1, <1>4
  <2>4. Cardinality(fresh') = n + 1 /\ pc' = pc
    BY <1>1, <1>3, <2>1
  <2>5. ~(pc = "poll index" \/ pc = "poll next")
    BY <1>2 DEF Stored
  <2>6. QED
    BY <2>2, <2>3, <2>4, <2>5 DEF CountInv
<1>6. CASE pc = "clear write"
  <2>1. RingInv'
    BY <1>1, <1>6 DEF Sound, RingInv, Stored
  <2>2. OutInv'
    <3>0. OutInv
      BY DEF Sound
    <3>1. /\ last' = last + 1 /\ last \in Nat /\ out \in Nat
          /\ \A k \in DOMAIN delivered : delivered[k] \in Nat
      BY <1>1 DEF Typed
    <3>2. QED
      BY <1>1, <3>0, <3>1 DEF OutInv
  <2>3. QED
    BY <1>1, <1>5, <1>6, <2>1, <2>2 DEF Sound
<1>7. CASE pc # "clear write"
  <2>1. fresh = Between(read_idx_, write_idx_)
    BY <1>1, <1>2, <1>7 DEF Sound, RingInv, InRing, Typed
  <2>2. InRing(fresh', read_idx_, next(write_idx_))
    BY <1>1, <2>1, WriterMoves DEF Typed
  <2>3. RingInv'
    BY <1>1, <1>2, <2>2 DEF Sound, RingInv, Stored
  <2>4. \A i \in fresh : Ahead(read_idx_, i) < Ahead(read_idx_, write_idx_)
    BY <2>1 DEF Between
  <2>5. OrderInv' /\ OutInv'
    <3>1. PICK w \in Slot \ fresh : w = write_idx_
      BY <1>1 DEF Typed
    <3>2. QED
      BY <1>1, <1>7, <2>4, <3>1, StoreOrdered DEF Sound
  <2>6. QED
    BY <1>5, <2>3, <2>5 DEF Sound
<1>8. QED
  BY <1>6, <1>7

(***************************************************************************)
(* A polled Enqueue stores its event: it loaded the writer's slot, and an  *)
(* interrupt that took the slot since has left it unread                   *)
(* (event_queue.cpp:15).                                                   *)
(***************************************************************************)
LEMMA PollWriteSound ==
  ASSUME Typed, Sound, PollWrite, ~overrun'
  PROVE  Sound'
<1>1. /\ pc = "poll write" /\ pc' = "poll index"
      /\ tmp \notin fresh /\ fresh' = fresh \cup {tmp}
      /\ Write(tmp, last + 1) /\ last' = last + 1
      /\ UNCHANGED <<write_idx_, read_idx_, count_, tmp, out, delivered>>
  BY DEF PollWrite, Write
<1>2. tmp = write_idx_
  BY <1>1 DEF Sound, RingInv
<1>3. PICK w \in Slot \ fresh : w = write_idx_
  BY <1>1, <1>2 DEF Typed
<1>4. fresh = Between(read_idx_, w)
  BY <1>1, <1>3 DEF Sound, RingInv, InRing, Stored
<1>5. RingInv'
  BY <1>1, <1>2, <1>3, <1>4 DEF RingInv, Stored
<1>6. CountInv'
  <2>1. Cardinality(fresh') = Cardinality(fresh) + 1 /\ Cardinality(fresh) \in Nat
    BY <1>1, <1>2, <1>3, CountOne DEF Typed
  <2>2. count_ <= Cardinality(fresh) /\ count_ \in Nat
    BY <1>1 DEF Sound, CountInv, Typed
  <2>c. count_' = count_
    BY <1>1
  <2>3. count_' + 1 <= Cardinality(fresh')
    BY <2>1, <2>2, <2>c
  <2>4. QED
    BY <1>1, <2>3 DEF CountInv
<1>7. OrderInv' /\ OutInv'
  <2>1. \A i \in fresh : Ahead(read_idx_, i) < Ahead(read_idx_, w)
    BY <1>4 DEF Between
  <2>2. OrderInv /\ OutInv
    BY <1>1 DEF Sound
  <2>3. QED
    BY <1>1, <1>2, <1>3, <2>1, <2>2, StoreOrdered
<1>8. QED
  BY <1>5, <1>6, <1>7 DEF Sound

(***************************************************************************)
(* A polled Enqueue moves write_idx_ past its event (event_queue.cpp:16).  *)
(***************************************************************************)
LEMMA PollIndexSound ==
  ASSUME Typed, Sound, PollIndexStore
  PROVE  Sound'
<1>1. /\ pc = "poll next" /\ pc' = "poll load" /\ write_idx_' = next(tmp)
      /\ UNCHANGED <<events_, read_idx_, count_, tmp, out, last, delivered, fresh>>
  BY DEF PollIndexStore
<1>2. /\ tmp = write_idx_ /\ write_idx_ \in fresh
      /\ fresh \ {write_idx_} = Between(read_idx_, write_idx_)
  BY <1>1 DEF Sound, RingInv, Stored
<1>3. InRing(fresh, read_idx_, next(write_idx_))
  <2>1. fresh = Between(read_idx_, write_idx_) \cup {write_idx_}
    BY <1>2
  <2>2. QED
    BY <2>1, WriterMoves DEF Typed
<1>4. RingInv'
  BY <1>1, <1>2, <1>3 DEF RingInv, Stored
<1>5. CountInv' /\ OutInv' /\ OrderInv'
  BY <1>1 DEF Sound, CountInv, OutInv, OrderInv
<1>6. QED
  BY <1>4, <1>5 DEF Sound

(***************************************************************************)
(* Dequeue copies the oldest unread event: the count it tested promised    *)
(* one (event_queue.cpp:24-28).                                            *)
(***************************************************************************)
LEMMA DequeueCopySound ==
  ASSUME Typed, Loaded, Sound, DequeueCopy
  PROVE  Sound'
<1>1. /\ pc = "copy" /\ pc' = "load" /\ out' = events_[read_idx_]
      /\ read_idx_' = next(read_idx_) /\ fresh' = fresh \ {read_idx_}
      /\ UNCHANGED <<events_, write_idx_, count_, tmp, last, delivered>>
  BY DEF DequeueCopy
<1>2. PICK r \in Slot : r = read_idx_
  BY DEF Typed
<1>3. fresh # {} /\ InRing(fresh, r, write_idx_)
  <2>1. count_ >= 1 /\ count_ <= Cardinality(fresh) /\ count_ \in Nat
    BY <1>1 DEF Loaded, Sound, CountInv, Typed
  <2>c. Cardinality(fresh) \in Nat
    BY <1>2, CountOne DEF Typed
  <2>2. Cardinality(fresh) > 0
    BY <2>1, <2>c
  <2>3. fresh # {}
    BY <1>2, <2>2, CountOne DEF Typed
  <2>4. QED
    BY <1>1, <1>2, <2>3 DEF Sound, RingInv, Stored
<1>4. /\ r \in fresh /\ \A i \in fresh \ {r} : Ahead(r, r) < Ahead(r, i)
      /\ InRing(fresh \ {r}, next(r), write_idx_)
      /\ \A i, j \in fresh \ {r} : Ahead(next(r), i) < Ahead(next(r), j)
                                     => Ahead(r, i) < Ahead(r, j)
  BY <1>2, <1>3, ReaderMoves DEF Typed
<1>5. RingInv'
  BY <1>1, <1>2, <1>4 DEF RingInv, Stored
<1>6. CountInv'
  <2>1. Cardinality(fresh') = Cardinality(fresh) - 1 /\ Cardinality(fresh) \in Nat
    BY <1>1, <1>2, <1>4, CountOne DEF Typed
  <2>2. count_ <= Cardinality(fresh) /\ count_ \in Nat
    BY <1>1 DEF Sound, CountInv, Typed
  <2>3. count_' <= Cardinality(fresh') + 1
    BY <1>1, <2>1, <2>2
  <2>4. QED
    BY <1>1, <2>3 DEF CountInv
<1>7. OrderInv /\ OutInv
  BY <1>1 DEF Sound
<1>8. OutInv'
  BY <1>1, <1>2, <1>4, <1>7 DEF OutInv, OrderInv
<1>9. OrderInv'
  <2>1. \A i, j \in fresh' : Ahead(read_idx_', i) < Ahead(read_idx_', j)
                               => events_'[i] < events_'[j]
    BY <1>1, <1>2, <1>4, <1>7 DEF OrderInv
  <2>2. \A i \in fresh' : out' < events_'[i]
    BY <1>1, <1>2, <1>4, <1>7 DEF OrderInv
  <2>3. QED
    BY <1>1, <1>7, <2>1, <2>2 DEF OrderInv
<1>10. QED
  BY <1>5, <1>6, <1>8, <1>9 DEF Sound

(***************************************************************************)
(* Dequeue stores the count it loaded, less one, and returns the event;    *)
(* events of interrupts in between are not counted (event_queue.cpp:29).   *)
(***************************************************************************)
LEMMA DequeueStoreSound ==
  ASSUME Typed, Sound, DequeueStore
  PROVE  Sound'
<1>1. /\ pc = "store" /\ pc' = "idle" /\ count_' = tmp - 1
      /\ delivered' = Append(delivered, out)
      /\ UNCHANGED <<events_, write_idx_, read_idx_, last, fresh>>
  BY DEF DequeueStore
<1>2. RingInv'
  BY <1>1 DEF Sound, RingInv, Stored
<1>3. CountInv'
  <2>1. tmp <= Cardinality(fresh) + 1 /\ tmp \in Nat /\ Cardinality(fresh) \in Nat
    <3>1. Cardinality(fresh) \in Nat
      BY CountOne DEF Typed
    <3>2. QED
      BY <1>1, <3>1 DEF Sound, CountInv, Typed
  <2>2. count_' <= Cardinality(fresh')
    BY <1>1, <2>1
  <2>3. QED
    BY <1>1, <2>2 DEF CountInv
<1>4. PICK n \in Nat : n = Len(delivered)
  BY DEF Typed
<1>5. /\ DOMAIN delivered = 1 .. n /\ DOMAIN delivered' = 1 .. n + 1
      /\ \A i \in 1 .. n : delivered'[i] = delivered[i]
      /\ delivered'[n + 1] = out
  BY <1>1, <1>4 DEF Typed
<1>6. OutInv /\ OrderInv
  BY <1>1 DEF Sound
<1>7. /\ \A i, j \in 1 .. n : i < j => delivered[i] < delivered[j]
      /\ \A i \in 1 .. n : delivered[i] <= last /\ delivered[i] < out
      /\ out <= last
  BY <1>1, <1>5, <1>6 DEF OutInv
<1>8. OutInv'
  <2>1. \A i \in 1 .. n + 1 : i \in 1 .. n \/ i = n + 1
    OBVIOUS
  <2>2. ASSUME NEW i \in 1 .. n + 1, NEW j \in 1 .. n + 1, i < j
        PROVE  delivered'[i] < delivered'[j]
    <3>1. i \in 1 .. n
      BY <2>2
    <3>2. QED
      BY <1>5, <1>7, <2>1, <2>2, <3>1
  <2>3. \A i \in 1 .. n + 1 : delivered'[i] <= last'
    BY <1>1, <1>5, <1>7, <2>1
  <2>4. QED
    BY <1>1, <1>5, <2>2, <2>3 DEF OutInv
<1>9. OrderInv'
  <2>1. \A i \in fresh : \A k \in 1 .. n : delivered[k] < events_[i]
    BY <1>5, <1>6 DEF OrderInv
  <2>2. \A i \in fresh : out < events_[i]
    BY <1>1, <1>6 DEF OrderInv
  <2>3. \A i \in fresh', k \in DOMAIN delivered' : delivered'[k] < events_'[i]
    <3>1. \A k \in 1 .. n + 1 : k \in 1 .. n \/ k = n + 1
      OBVIOUS
    <3>2. QED
      BY <1>1, <1>5, <2>1, <2>2, <3>1
  <2>4. QED
    BY <1>1, <1>6, <2>3 DEF OrderInv
<1>10. QED
  BY <1>2, <1>3, <1>8, <1>9 DEF Sound

(***************************************************************************)
(* The steps that load, test or clear (event_queue.cpp:10-43): a Clear     *)
(* that is over has left an empty ring, or one that only holds what came   *)
(* after it.                                                               *)
(***************************************************************************)
LEMMA QuietSound ==
  ASSUME Typed, Sound,
         \/ DequeueTest \/ DequeueLoad \/ Clear
         \/ PollTest \/ PollSlot \/ PollIndexLoad \/ PollLoad \/ PollStore
         \/ UNCHANGED ringVars
  PROVE  Sound'
<1>0. Cardinality(fresh) \in Nat /\ count_ \in Nat /\ tmp \in Nat
  BY CountOne DEF Typed
<1>1. CASE \/ DequeueTest \/ DequeueLoad \/ PollTest \/ PollSlot \/ PollIndexLoad
           \/ PollLoad \/ PollStore \/ UNCHANGED ringVars
  <2>1. UNCHANGED <<events_, read_idx_, write_idx_, last, delivered, fresh>>
    BY <1>1 DEF DequeueTest, DequeueLoad, PollTest, PollSlot, PollIndexLoad, PollLoad,
       PollStore, ringVars, ring, main
  <2>2. /\ pc' \in {"load", "store"} => pc \in {"load", "store"} /\ out' = out
        /\ pc' = "clear write" => pc = "clear write"
    BY <1>1 DEF DequeueTest, DequeueLoad, PollTest, PollSlot, PollIndexLoad, PollLoad,
       PollStore, ringVars, ring, main
  <2>3. OutInv'
    BY <2>1, <2>2 DEF Sound, OutInv
  <2>4. pc' # "clear write" => OrderInv'
    <3>1. pc' # "clear write" => pc # "clear write"
      BY <1>1 DEF DequeueTest, DequeueLoad, PollTest, PollSlot, PollIndexLoad, PollLoad,
         PollStore, ringVars, main
    <3>2. QED
      BY <2>1, <2>2, <3>1 DEF Sound, OrderInv
  <2>5. RingInv'
    BY <1>1, <2>1 DEF Sound, RingInv, Stored, DequeueTest, DequeueLoad, PollTest, PollSlot,
       PollIndexLoad, PollLoad, PollStore, ringVars, main
  <2>6. CountInv'
    <3>1. PICK n \in Nat : n = Cardinality(fresh)
      BY <1>0
    <3>2. /\ pc \in {"idle", "copy", "poll slot", "poll write"} => count_ <= n
          /\ pc = "load" => count_ <= n + 1
          /\ pc = "store" => tmp <= n + 1
          /\ pc \in {"poll index", "poll next", "poll load"} => count_ + 1 <= n
          /\ pc = "poll store" => tmp + 1 <= n
      BY <3>1 DEF Sound, CountInv
    <3>3. /\ pc' \in {"idle", "copy", "poll slot", "poll write"} => count_' <= n
          /\ pc' = "load" => count_' <= n + 1
          /\ pc' = "store" => tmp' <= n + 1
          /\ pc' \in {"poll index", "poll next", "poll load"} => count_' + 1 <= n
          /\ pc' = "poll store" => tmp' + 1 <= n
      BY <1>1, <3>2 DEF DequeueTest, DequeueLoad, PollTest, PollSlot, PollIndexLoad,
         PollLoad, PollStore, ringVars, ring, main
    <3>4. QED
      BY <2>1, <3>1, <3>3 DEF CountInv
  <2>7. QED
    BY <2>3, <2>4, <2>5, <2>6 DEF Sound
<1>2. CASE ClearRead
  <2>1. pc' = "clear write" /\ read_idx_' = 0 /\ UNCHANGED <<last, delivered>>
    BY <1>2 DEF ClearRead
  <2>2. RingInv' /\ CountInv'
    BY <2>1 DEF RingInv, CountInv, Stored
  <2>3. OutInv'
    BY <2>1 DEF Sound, OutInv
  <2>4. QED
    BY <2>1, <2>2, <2>3 DEF Sound
<1>3. CASE ClearWrite
  <2>1. /\ pc' = "clear count" /\ fresh' = {} /\ write_idx_' = 0
        /\ UNCHANGED <<read_idx_, last, delivered>>
    BY <1>3 DEF ClearWrite
  <2>2. read_idx_' = 0
    BY <1>3, <2>1 DEF ClearWrite, Sound, RingInv
  <2>3. RingInv' /\ CountInv' /\ OrderInv'
    <3>1. Between(read_idx_', write_idx_') = {}
      <4>1. Ahead(0, 0) = 0 /\ \A i \in Slot : ~(Ahead(0, i) < 0)
        BY QueueConstants DEF Ahead, Slot
      <4>2. QED
        BY <2>1, <2>2, <4>1 DEF Between
    <3>2. QED
      BY <2>1, <2>2, <3>1 DEF RingInv, CountInv, OrderInv, Stored, InRing
  <2>4. OutInv'
    BY <2>1 DEF Sound, OutInv
  <2>5. QED
    BY <2>1, <2>3, <2>4 DEF Sound
<1>4. CASE ClearCount
  <2>1. /\ pc = "clear count" /\ pc' = "idle" /\ count_' = 0
        /\ UNCHANGED <<events_, read_idx_, write_idx_, last, delivered, fresh>>
    BY <1>4 DEF ClearCount
  <2>2. RingInv' /\ OutInv' /\ OrderInv'
    BY <2>1 DEF Sound, RingInv, OutInv, OrderInv, Stored
  <2>3. CountInv'
    <3>0. count_' = 0 /\ Cardinality(fresh') = Cardinality(fresh)
      BY <2>1
    <3>1. count_' <= Cardinality(fresh')
      BY <1>0, <3>0
    <3>2. QED
      BY <2>1, <3>1 DEF CountInv
  <2>4. QED
    BY <2>2, <2>3 DEF Sound
<1>5. QED
  BY <1>1, <1>2, <1>3, <1>4 DEF Clear

(***************************************************************************)
(* The inductive invariant of the queue: unread events lie between the     *)
(* indices in the order they came, and the count is no more than there     *)
(* are, at every point where an interrupt can fall (event_queue.cpp:10-43).*)
(***************************************************************************)
THEOREM EventQueueInvariant == RingSpec => []EventQueueInv
<1>1. RingInit => EventQueueInv
  <2> SUFFICES ASSUME RingInit PROVE EventQueueInv
    OBVIOUS
  <2>1. 0 \in Slot /\ 0 \in 0 .. MAX_EVENTS + 1
    BY QueueConstants DEF Slot
  <2>2. RingTypeOK
    BY <2>1 DEF RingInit, RingTypeOK
  <2>3. Loaded
    BY DEF RingInit, Loaded
  <2>4. Between(0, 0) = {}
    <3>1. Ahead(0, 0) = 0 /\ \A i \in Slot : ~(Ahead(0, i) < 0)
      BY QueueConstants DEF Ahead, Slot
    <3>2. QED
      BY <3>1 DEF Between
  <2>5. RingInv /\ OutInv /\ OrderInv
    BY <2>4 DEF RingInit, RingInv, OutInv, OrderInv, InRing, Stored
  <2>6. CountInv
    <3>1. Cardinality({}) = 0
      BY FS_EmptySet
    <3>2. count_ <= Cardinality(fresh)
      BY <3>1 DEF RingInit
    <3>3. QED
      BY <3>2 DEF RingInit, CountInv
  <2>7. QED
    BY <2>2, <2>3, <2>5, <2>6 DEF EventQueueInv, Sound
<1>2. EventQueueInv /\ [RingNext]_ringVars => EventQueueInv'
  <2> SUFFICES ASSUME EventQueueInv, [RingNext]_ringVars PROVE EventQueueInv'
    OBVIOUS
  <2>1. RingTypeOK' /\ Loaded'
    BY TypeStep DEF EventQueueInv
  <2>2. Typed /\ Typed'
    <3>1. RingTypeOK
      BY DEF EventQueueInv
    <3>2. Typed
      BY <3>1, TypesUsed
    <3>3. (RingTypeOK => Typed)'
      BY TypesUsed, PTL
    <3>4. QED
      BY <2>1, <3>2, <3>3
  <2>3. ASSUME ~overrun' PROVE Sound'
    <3>1. ~overrun
      BY <2>3 DEF RingNext, ringVars, Enqueue, Write, Dequeue, DequeueTest, DequeueCopy, DequeueLoad,
         DequeueStore, Clear, ClearRead, ClearWrite, ClearCount, Poll, PollTest, PollSlot,
         PollWrite, PollIndexLoad, PollIndexStore, PollLoad, PollStore
    <3>2. Sound /\ Loaded
      BY <3>1 DEF EventQueueInv
    <3>3. CASE Enqueue
      BY <2>2, <2>3, <3>2, <3>3, EnqueueSound
    <3>4. CASE Dequeue
      BY <2>2, <3>2, <3>4, DequeueCopySound, DequeueStoreSound, QuietSound DEF Dequeue
    <3>5. CASE Poll
      BY <2>2, <2>3, <3>2, <3>5, PollWriteSound, PollIndexSound, QuietSound DEF Poll
    <3>6. CASE Clear \/ UNCHANGED ringVars
      BY <2>2, <3>2, <3>6, QuietSound
    <3>7. QED
      BY <3>3, <3>4, <3>5, <3>6 DEF RingNext
  <2>4. QED
    BY <2>1, <2>3 DEF EventQueueInv
<1>3. QED
  BY <1>1, <1>2, PTL DEF RingSpec

(***************************************************************************)
(* Events come out in the order they were stored, as long as no unread     *)
(* slot was overwritten (event_queue.cpp:10-43).                           *)
(***************************************************************************)
THEOREM EventsInOrder == RingSpec => []DeliveredInOrder
<1>1. EventQueueInv => DeliveredInOrder
  BY DEF EventQueueInv, Sound, OutInv, DeliveredInOrder
<1>2. QED
  BY <1>1, EventQueueInvariant, PTL

(***************************************************************************)
(* Between two calls of the consumer the count promises no event that is   *)
(* not waiting, and the indices stay in the ring (event_queue.cpp:11-30).  *)
(***************************************************************************)
THEOREM CountNeverAhead == RingSpec => []NeverOvercounted
<1>1. EventQueueInv => NeverOvercounted
  BY DEF EventQueueInv, Sound, CountInv, NeverOvercounted
<1>2. QED
  BY <1>1, EventQueueInvariant, PTL
=============================================================================

---------------------------- MODULE MessageQueue ----------------------------
(***************************************************************************)
(* One queue of the kernel's message passing (process/message_queue.cpp)   *)
(* and its callers.  What a call does under queue_mutex is one step; the   *)
(* test of is_closed before the lock, and every turn of a wait loop        *)
(* (ConditionVariable::Wait unlocks, yields and locks), are steps of their *)
(* own.  Payloads and message types are left out.                          *)
(***************************************************************************)
EXTENDS Integers, Sequences, SequencesExt, FiniteSets

CONSTANTS
  Caller,        (* the threads that use the queue                          *)
  Receiver,      (* receiver identifiers; 0 stands for any receiver         *)
  max_messages,
  MaxSends       (* how many identifiers are handed out (bounds the model)  *)

ASSUME QueueAssumptions ==
  /\ Receiver \subseteq Nat
  /\ max_messages \in Nat \ {0}
  /\ MaxSends \in Nat

VARIABLES
  msgs,             (* the list from message_head: id and receiver of each  *)
  message_tail,     (* the identifier of the tail message, 0 for nullptr    *)
  message_count,
  next_message_id,
  is_closed,
  call,             (* the call each thread is in                           *)
  received,         (* history: who took which message                      *)
  flushed           (* history: the messages dropped by Flush               *)

vars == <<msgs, message_tail, message_count, next_message_id, is_closed, call,
          received, flushed>>

Id      == 1 .. MaxSends
Message == [id : Id, to : Receiver]
Idle    == [op |-> "none", peer |-> 0, block |-> FALSE]
Call    == [op : {"send", "receive"}, peer : Receiver, block : BOOLEAN] \cup {Idle}

IsFull == message_count >= max_messages

Matches(to, receiver_id) == receiver_id = 0 \/ to = 0 \/ to = receiver_id

\* Faulty variant: the whole list is walked, and the last match kept.
FindLastMessage(q, receiver_id) ==
  LET hits == {i \in DOMAIN q : Matches(q[i].to, receiver_id)}
  IN IF hits = {} THEN 0 ELSE CHOOSE i \in hits : \A j \in hits : j <= i

\* The place of the first message for a receiver, 0 when there is none.
FindMatchingMessage(q, receiver_id) ==
  LET hits == {i \in DOMAIN q : Matches(q[i].to, receiver_id)}
  IN IF hits = {} THEN 0 ELSE CHOOSE i \in hits : \A j \in hits : i <= j

\* Link m behind the tail: it joins the list only where the tail is its end.
Link(q, m) ==
  IF q = <<>> \/ q[Len(q)].id = message_tail THEN Append(q, m) ELSE q

\* Faulty variant: the tail stays at a message that was taken.
TailKept(q, i) == message_tail

\* The tail after message i was taken: its predecessor, if it was the tail.
TailAfter(q, i) ==
  IF message_tail # q[i].id THEN message_tail
  ELSE IF i > 1 THEN q[i - 1].id ELSE 0

Return(c) == call' = [call EXCEPT ![c] = Idle]

------------------------------------------------------------------------------
Init ==
  /\ msgs = <<>> /\ message_tail = 0 /\ message_count = 0
  /\ next_message_id = 1
  /\ is_closed = FALSE
  /\ call = [c \in Caller |-> Idle]
  /\ received = {} /\ flushed = {}

\* The bound: an identifier is left for every send under way and one more.
IdLeft == next_message_id + Cardinality({d \in Caller : call[d].op = "send"}) <= MaxSends

\* A call up to the lock; on a closed queue it returns at once.
Enter(c, op, peer, block) ==
  /\ call[c] = Idle /\ ~is_closed
  /\ op = "send" => IdLeft
  /\ call' = [call EXCEPT ![c] = [op |-> op, peer |-> peer, block |-> block]]
  /\ UNCHANGED <<msgs, message_tail, message_count, next_message_id, is_closed,
                 received, flushed>>

\* Faulty variant: the identifier is taken from the number of messages.
SendReusingIds(c) ==
  /\ call[c].op = "send" /\ ~IsFull /\ next_message_id \in Id
  /\ LET m == [id |-> message_count + 1, to |-> call[c].peer]
     IN msgs' = Link(msgs, m) /\ message_tail' = m.id
  /\ next_message_id' = next_message_id + 1
  /\ message_count' = message_count + 1
  /\ Return(c)
  /\ UNCHANGED <<is_closed, received, flushed>>

Send(c) ==
  /\ call[c].op = "send" /\ ~IsFull /\ next_message_id \in Id
  /\ LET m == [id |-> next_message_id, to |-> call[c].peer]
     IN msgs' = Link(msgs, m) /\ message_tail' = m.id
  /\ next_message_id' = next_message_id + 1
  /\ message_count' = message_count + 1
  /\ Return(c)
  /\ UNCHANGED <<is_closed, received, flushed>>

\* No memory for the message or its payload.
SendFails(c) ==
  /\ call[c].op = "send" /\ ~IsFull /\ next_message_id \in Id
  /\ next_message_id' = next_message_id + 1
  /\ Return(c)
  /\ UNCHANGED <<msgs, message_tail, message_count, is_closed, received, flushed>>

Receive(c) ==
  LET i == FindMatchingMessage(msgs, call[c].peer)
  IN /\ call[c].op = "receive" /\ i > 0
     /\ received' = received \cup {[id |-> msgs[i].id, by |-> call[c].peer]}
     /\ msgs' = RemoveAt(msgs, i)
     /\ message_tail' = TailAfter(msgs, i)
     /\ message_count' = message_count - 1
     /\ Return(c)
     /\ UNCHANGED <<next_message_id, is_closed, flushed>>

\* Nothing to do for this call now.
Stuck(c) ==
  \/ call[c].op = "send" /\ IsFull
  \/ call[c].op = "receive" /\ FindMatchingMessage(msgs, call[c].peer) = 0

\* Faulty variant: a waiting call does not look at is_closed.
GiveUpOpen(c) ==
  /\ Stuck(c) /\ ~call[c].block
  /\ Return(c)
  /\ UNCHANGED <<msgs, message_tail, message_count, next_message_id, is_closed,
                 received, flushed>>

\* The wait loop ends without a message; otherwise the call waits for a turn.
GiveUp(c) ==
  /\ Stuck(c) /\ (~call[c].block \/ is_closed)
  /\ Return(c)
  /\ UNCHANGED <<msgs, message_tail, message_count, next_message_id, is_closed,
                 received, flushed>>

Close ==
  /\ is_closed' = TRUE
  /\ UNCHANGED <<msgs, message_tail, message_count, next_message_id, call,
                 received, flushed>>

Flush ==
  /\ msgs' = <<>> /\ message_tail' = 0 /\ message_count' = 0
  /\ flushed' = flushed \cup {msgs[i].id : i \in DOMAIN msgs}
  /\ UNCHANGED <<next_message_id, is_closed, call, received>>

Step(c) == Send(c) \/ SendFails(c) \/ Receive(c) \/ GiveUp(c)

Next ==
  \/ \E c \in Caller, op \in {"send", "receive"}, peer \in Receiver, block \in BOOLEAN :
       Enter(c, op, peer, block)
  \/ \E c \in Caller : Step(c)
  \/ Close
  \/ Flush

Spec == Init /\ [][Next]_vars

------------------------------------------------------------------------------
(***************************************************************************)
(* Type invariant of the queue's fields and its callers.                   *)
(***************************************************************************)
TypeOK ==
  /\ msgs \in Seq(Message)
  /\ message_tail \in Id \cup {0}
  /\ message_count \in 0 .. max_messages
  /\ next_message_id \in 1 .. MaxSends + 1
  /\ is_closed \in BOOLEAN
  /\ call \in [Caller -> Call]
  /\ received \subseteq [id : Id, by : Receiver]
  /\ flushed \subseteq Id

(***************************************************************************)
(* Taking messages out of the middle, at the head and at the tail of the   *)
(* list, failed sends and flushes leave message_count and message_tail     *)
(* true to the list (message_queue.cpp:117-132, 160-178, 217-229), so no   *)
(* later Send loses its message behind a stale tail.                       *)
(***************************************************************************)
ListConsistent ==
  /\ message_count = Len(msgs)
  /\ message_tail = IF msgs = <<>> THEN 0 ELSE msgs[Len(msgs)].id

(***************************************************************************)
(* A receiver never overtakes: once a message was taken for a receiver, no *)
(* older message that this receiver matches is left in the queue, whatever *)
(* other receivers took between (message_queue.cpp:88-103, 136-178).       *)
(***************************************************************************)
NoOvertaking ==
  \A x \in received : \A i \in DOMAIN msgs :
    Matches(msgs[i].to, x.by) => x.id < msgs[i].id

(***************************************************************************)
(* A message is handed out once: an identifier was taken by one receiver   *)
(* at most, and a taken or flushed message is not in the queue any more    *)
(* (message_queue.cpp:117, 166-178, 219-224).                              *)
(***************************************************************************)
TakenOnce ==
  /\ \A x, y \in received : x.id = y.id => x = y
  /\ \A i \in DOMAIN msgs :
       msgs[i].id \notin flushed /\ \A x \in received : x.id # msgs[i].id

(***************************************************************************)
(* Closing the queue sets every caller free, whatever the queue holds and  *)
(* whoever else waits: the next turn of a caller ends its call, so nobody  *)
(* on a closed queue waits for another caller                              *)
(* (message_queue.cpp:113-116, 149-156, 210-215).                          *)
(***************************************************************************)
CloseReleasesCallers ==
  is_closed => \A c \in Caller : call[c] # Idle => ENABLED (Step(c) /\ Return(c))
=============================================================================

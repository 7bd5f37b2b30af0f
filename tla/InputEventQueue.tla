--------------------------- MODULE InputEventQueue ---------------------------
(***************************************************************************)
(* The ring of input events (input/event_queue.cpp) between the keyboard   *)
(* and mouse interrupts and the window manager's tick.  The interrupts do  *)
(* not nest, so an Enqueue of theirs is one step; the main context can be  *)
(* interrupted between any two accesses, so Dequeue, Clear and an Enqueue  *)
(* of the polling fallback are one step per access of shared memory:       *)
(* `--count_' loads and stores.  Events are numbered as they are stored.   *)
(***************************************************************************)
EXTENDS Integers, Sequences, SequencesExt, FiniteSets

CONSTANTS
  MAX_EVENTS,  (* 256 in the code                           *)
  Accepted     (* how many events are stored (bounds the model)   *)

ASSUME QueueConstants == MAX_EVENTS \in Nat \ {0} /\ Accepted \in Nat

VARIABLES
  events_,     (* the event in each slot, 0 before the first     *)
  write_idx_,
  read_idx_,
  count_,
  pc,          (* what the main context does next                *)
  tmp,         (* the value it has loaded                        *)
  out,         (* the event Dequeue has copied                   *)
  last,        (* the number of the last event stored            *)
  delivered,   (* the events Dequeue returned, in order          *)
  fresh,       (* history: slots written and not read since      *)
  overrun      (* history: a fresh slot was written again        *)

ring == <<events_, write_idx_, read_idx_, count_>>
main == <<pc, tmp, out>>
ringVars == <<ring, main, last, delivered, fresh, overrun>>

Slot == 0 .. MAX_EVENTS - 1
Event == 1 .. Accepted

next(i) == (i + 1) % MAX_EVENTS

RingInit ==
  /\ events_ = [i \in Slot |-> 0]
  /\ write_idx_ = 0 /\ read_idx_ = 0 /\ count_ = 0
  /\ pc = "idle" /\ tmp = 0 /\ out = 0
  /\ last = 0 /\ delivered = <<>>
  /\ fresh = {} /\ overrun = FALSE

\* Store event e in slot i.
Write(i, e) ==
  /\ events_' = [events_ EXCEPT ![i] = e]
  /\ fresh' = fresh \cup {i}
  /\ overrun' = (overrun \/ i \in fresh)

\* Enqueue in an interrupt; a full queue drops the event.
Enqueue ==
  /\ last < Accepted /\ count_ < MAX_EVENTS
  /\ Write(write_idx_, last + 1)
  /\ last' = last + 1
  /\ write_idx_' = next(write_idx_)
  /\ count_' = count_ + 1
  /\ UNCHANGED <<read_idx_, main, delivered>>

------------------------------------------------------------------------------
(***************************************************************************)
(* Dequeue, called by DispatchQueuedInputEvents in the main context.       *)
(***************************************************************************)
DequeueTest ==
  /\ pc = "idle" /\ count_ > 0
  /\ pc' = "copy"
  /\ UNCHANGED <<ring, tmp, out, last, delivered, fresh, overrun>>

\* Faulty variant: the event is copied after the index has moved.
DequeueCopyLate ==
  /\ pc = "copy"
  /\ out' = events_[next(read_idx_)]
  /\ read_idx_' = next(read_idx_)
  /\ fresh' = fresh \ {read_idx_}
  /\ pc' = "load"
  /\ UNCHANGED <<events_, write_idx_, count_, tmp, last, delivered, overrun>>

\* Only the main context writes read_idx_.
DequeueCopy ==
  /\ pc = "copy"
  /\ out' = events_[read_idx_]
  /\ read_idx_' = next(read_idx_)
  /\ fresh' = fresh \ {read_idx_}
  /\ pc' = "load"
  /\ UNCHANGED <<events_, write_idx_, count_, tmp, last, delivered, overrun>>

DequeueLoad ==
  /\ pc = "load"
  /\ tmp' = count_
  /\ pc' = "store"
  /\ UNCHANGED <<ring, out, last, delivered, fresh, overrun>>

\* Faulty variant: the loaded count is stored back.
DequeueStoreKept ==
  /\ pc = "store"
  /\ count_' = tmp
  /\ delivered' = Append(delivered, out)
  /\ pc' = "idle" /\ tmp' = 0 /\ out' = 0
  /\ UNCHANGED <<events_, write_idx_, read_idx_, last, fresh, overrun>>

DequeueStore ==
  /\ pc = "store"
  /\ count_' = tmp - 1
  /\ delivered' = Append(delivered, out)
  /\ pc' = "idle" /\ tmp' = 0 /\ out' = 0
  /\ UNCHANGED <<events_, write_idx_, read_idx_, last, fresh, overrun>>

Dequeue == DequeueTest \/ DequeueCopy \/ DequeueLoad \/ DequeueStore

(***************************************************************************)
(* Clear, in the main context: three stores.                               *)
(***************************************************************************)
ClearRead ==
  /\ pc = "idle"
  /\ read_idx_' = 0
  /\ pc' = "clear write"
  /\ UNCHANGED <<events_, write_idx_, count_, tmp, out, last, delivered, fresh, overrun>>

ClearWrite ==
  /\ pc = "clear write"
  /\ write_idx_' = 0
  /\ fresh' = {}
  /\ pc' = "clear count"
  /\ UNCHANGED <<events_, read_idx_, count_, tmp, out, last, delivered, overrun>>

ClearCount ==
  /\ pc = "clear count"
  /\ count_' = 0
  /\ pc' = "idle"
  /\ UNCHANGED <<events_, write_idx_, read_idx_, tmp, out, last, delivered, fresh, overrun>>

Clear == ClearRead \/ ClearWrite \/ ClearCount

(***************************************************************************)
(* Enqueue by a driver's PollOnce, which the window manager calls in the   *)
(* main context while no interrupt of that device was seen.                *)
(***************************************************************************)
PollTest ==
  /\ pc = "idle" /\ count_ < MAX_EVENTS
  /\ pc' = "poll slot"
  /\ UNCHANGED <<ring, tmp, out, last, delivered, fresh, overrun>>

PollSlot ==
  /\ pc = "poll slot"
  /\ tmp' = write_idx_
  /\ pc' = "poll write"
  /\ UNCHANGED <<ring, out, last, delivered, fresh, overrun>>

PollWrite ==
  /\ pc = "poll write" /\ last < Accepted
  /\ Write(tmp, last + 1)
  /\ last' = last + 1
  /\ pc' = "poll index"
  /\ UNCHANGED <<write_idx_, read_idx_, count_, tmp, out, delivered>>

PollIndexLoad ==
  /\ pc = "poll index"
  /\ tmp' = write_idx_
  /\ pc' = "poll next"
  /\ UNCHANGED <<ring, out, last, delivered, fresh, overrun>>

PollIndexStore ==
  /\ pc = "poll next"
  /\ write_idx_' = next(tmp)
  /\ pc' = "poll load"
  /\ UNCHANGED <<events_, read_idx_, count_, tmp, out, last, delivered, fresh, overrun>>

PollLoad ==
  /\ pc = "poll load"
  /\ tmp' = count_
  /\ pc' = "poll store"
  /\ UNCHANGED <<ring, out, last, delivered, fresh, overrun>>

PollStore ==
  /\ pc = "poll store"
  /\ count_' = tmp + 1
  /\ pc' = "idle" /\ tmp' = 0
  /\ UNCHANGED <<events_, write_idx_, read_idx_, out, last, delivered, fresh, overrun>>

Poll ==
  PollTest \/ PollSlot \/ PollWrite \/ PollIndexLoad \/ PollIndexStore
  \/ PollLoad \/ PollStore

------------------------------------------------------------------------------
\* Interrupting devices, a polled one, and every operation of the consumer.
RingNext == Enqueue \/ Dequeue \/ Clear \/ Poll

RingSpec == RingInit /\ [][RingNext]_ringVars

(***************************************************************************)
(* Type invariant: indices stay in the ring.  A polled Enqueue that an     *)
(* interrupt filled the ring under counts one event more than fits.        *)
(***************************************************************************)
RingTypeOK ==
  /\ events_ \in [Slot -> Event \cup {0}]
  /\ write_idx_ \in Slot /\ read_idx_ \in Slot
  /\ count_ \in 0 .. MAX_EVENTS + 1 /\ tmp \in 0 .. MAX_EVENTS + 1
  /\ pc \in {"idle", "copy", "load", "store", "clear write", "clear count",
            "poll slot", "poll write", "poll index", "poll next",
            "poll load", "poll store"}
  /\ out \in Event \cup {0} /\ last \in Event \cup {0}
  /\ delivered \in Seq(Event \cup {0})
  /\ fresh \subseteq Slot /\ overrun \in BOOLEAN

(***************************************************************************)
(* Events come out in the order in which they were stored, wherever        *)
(* Dequeue, Clear and a polled Enqueue were interrupted, as long as no     *)
(* unread slot was overwritten (event_queue.cpp:10-43).                    *)
(***************************************************************************)
DeliveredInOrder ==
  ~overrun => \A i, j \in DOMAIN delivered : i < j => delivered[i] < delivered[j]

(***************************************************************************)
(* A lost update of count_ can only hide events: between two calls of the  *)
(* consumer count_ never promises more events than wait in unread slots,   *)
(* so a Dequeue returns no slot a second time (event_queue.cpp:11-18,      *)
(* 24-30), as long as no unread slot was overwritten; the indices stay in  *)
(* the ring.                                                               *)
(***************************************************************************)
NeverOvercounted ==
  /\ RingTypeOK
  /\ pc = "idle" /\ ~overrun => count_ <= Cardinality(fresh)

(***************************************************************************)
(* "Get number of pending events" (event_queue.hpp:67), "Thread-safe for   *)
(* single producer (drivers) + single consumer" (event_queue.hpp:49):      *)
(* between two calls of the consumer count_ is the number of slots written *)
(* and not read since.                                                     *)
(***************************************************************************)
CountExact == pc = "idle" => count_ = Cardinality(fresh)
=============================================================================

------------------------------ MODULE Scheduler ------------------------------
(***************************************************************************)
(* The process scheduler of the kernel (process/scheduler.cpp), at the     *)
(* level of its linked lists: five ready queues with head and tail         *)
(* pointers, the list of sleeping tasks and the current task, all threaded *)
(* through the one `next' field of the thread control blocks.              *)
(*                                                                         *)
(* A public operation of the class is one action: the scheduler is entered *)
(* from the main context or from the timer interrupt, never from both at   *)
(* once in this model.                                                     *)
(***************************************************************************)
EXTENDS Integers, Sequences, SequencesExt, FiniteSets

CONSTANTS
  MaxTasks,    (* how many task identifiers are handed out (bounds the model) *)
  Priorities,  (* the priorities clients use, a subset of the five            *)
  SleepTimes,  (* the milliseconds passed to SleepTask                        *)
  TickModulus  (* the width of the tick counter: 2^32 in the code             *)

\* milliseconds * 100 fits 32 bits.
MaxMilliseconds == 42949672

ASSUME SchedulerConstants ==
  /\ MaxTasks \in Nat \ {0}
  /\ Priorities \subseteq 0 .. 4
  /\ SleepTimes \subseteq 0 .. MaxMilliseconds
  /\ TickModulus \in Nat \ {0}

VARIABLES
  s,                   (* the lists and the fields of the control blocks *)
  next_task_id,
  current_tick,
  scheduling_enabled,
  tainted              (* history: a call that edits a linked task happened *)

vars == <<s, next_task_id, current_tick, scheduling_enabled, tainted>>

Task  == 1 .. MaxTasks
Null  == 0
Level == 0 .. 4

TaskState == {"NONE", "READY", "RUNNING", "BLOCKED", "SLEEPING", "SUSPENDED",
              "TERMINATED"}

(***************************************************************************)
(* ThreadFactory::CalculateTimeSlice; Schedule and OnTimerTick repeat the  *)
(* same table.                                                             *)
(***************************************************************************)
CalculateTimeSlice(p) == <<20, 15, 10, 5, 3>>[p + 1]

(***************************************************************************)
(* Reading the lists.  The walk stops after MaxTasks nodes, so it is       *)
(* defined on a cyclic list too.                                           *)
(***************************************************************************)
ListOf(next, h) ==
  LET walk[k \in 0 .. MaxTasks] ==
        IF k = 0 THEN (IF h = Null THEN <<>> ELSE <<h>>)
        ELSE LET l == walk[k - 1]
             IN IF Len(l) < k \/ next[l[k]] = Null THEN l ELSE Append(l, next[l[k]])
  IN IF h = Null THEN <<>> ELSE walk[MaxTasks]

Ends(next, h) == Len(ListOf(next, h)) <= MaxTasks

ReadyList(q, p) == ListOf(q.next, q.ready_queues[p])
SleepList(q)    == ListOf(q.next, q.sleeping_tasks)

Linked(q) == (UNION {ToSet(ReadyList(q, p)) : p \in Level}) \cup ToSet(SleepList(q))

(***************************************************************************)
(* The private helpers, as functions of the scheduler's state.             *)
(***************************************************************************)
\* Faulty variant: a task joins its queue in front.
AddToReadyQueueFront(q, t) ==
  LET p     == q.priority[t]
      first == q.ready_queues[p] = Null
  IN [q EXCEPT !.state[t] = "READY",
               !.next[t] = q.ready_queues[p],
               !.ready_queues[p] = t,
               !.ready_queue_tails[p] = IF first THEN t ELSE @]

AddToReadyQueue(q, t) ==
  LET p     == q.priority[t]
      first == q.ready_queues[p] = Null
      unlinked == [q.next EXCEPT ![t] = Null]
  IN [q EXCEPT !.state[t] = "READY",
               !.next = IF first THEN unlinked
                        ELSE [unlinked EXCEPT ![q.ready_queue_tails[p]] = t],
               !.ready_queues[p] = IF first THEN t ELSE @,
               !.ready_queue_tails[p] = t]

NonEmpty(q) == {p \in Level : q.ready_queues[p] # Null}

\* Faulty variant: the levels are scanned from the lowest priority.
TopLevelReversed(q) == CHOOSE p \in NonEmpty(q) : \A r \in NonEmpty(q) : p >= r

TopLevel(q) == CHOOSE p \in NonEmpty(q) : \A r \in NonEmpty(q) : p <= r

\* The task GetHighestPriorityTask returns, and the lists it leaves behind.
HighestPriorityTask(q) ==
  IF NonEmpty(q) = {} THEN Null ELSE q.ready_queues[TopLevel(q)]

\* Faulty variant: the tail of a queue that became empty is not reset.
TailKept(rest, tail) == tail

\* The tail pointer of a queue whose head was taken, leaving rest.
TailAfterPop(rest, tail) == IF rest = Null THEN Null ELSE tail

GetHighestPriorityTask(q) ==
  IF NonEmpty(q) = {} THEN q
  ELSE LET p    == TopLevel(q)
           t    == q.ready_queues[p]
           rest == q.next[t]
       IN [q EXCEPT !.ready_queues[p] = rest,
                    !.ready_queue_tails[p] = TailAfterPop(rest, @),
                    !.next[t] = Null]

(***************************************************************************)
(* One turn of ProcessSleepingTasks' loop; prev is the task whose `next'   *)
(* field `current' points to, Null for the list's head.  sleep_until is    *)
(* overwritten before it is read again, so it is cleared here.             *)
(***************************************************************************)
WakeIfDue(tick, acc, t) ==
  LET q == acc.q
      after == q.next[t]
      cut == IF acc.prev = Null THEN [q EXCEPT !.sleeping_tasks = after]
             ELSE [q EXCEPT !.next[acc.prev] = after]
  IN IF tick >= q.sleep_until[t]
     THEN [q |-> AddToReadyQueue([cut EXCEPT !.sleep_until[t] = 0], t),
           prev |-> acc.prev]
     ELSE [q |-> q, prev |-> t]

\* The loop; after k turns it has looked at the first k sleepers.
ProcessSleepingTasks(q, tick) ==
  LET list == SleepList(q)
      turn[k \in 0 .. Len(list)] ==
        IF k = 0 THEN [q |-> q, prev |-> Null] ELSE WakeIfDue(tick, turn[k - 1], list[k])
  IN turn[Len(list)].q

\* Make t, just taken off its queue, the current task with a fresh slice.
Dispatch(q, t) ==
  [q EXCEPT !.current_task = t, !.state[t] = "RUNNING",
            !.time_slice = CalculateTimeSlice(q.priority[t])]

Idle(q) == [q EXCEPT !.current_task = Null, !.time_slice = 0]

\* Faulty variant: the task that gives up the CPU is not put back.
NoRequeue(q) == q

RequeueCurrent(q) ==
  IF q.current_task # Null /\ q.state[q.current_task] = "RUNNING"
  THEN AddToReadyQueue(q, q.current_task) ELSE q

PickNext(q) ==
  LET t == HighestPriorityTask(q)
  IN IF t # Null THEN Dispatch(GetHighestPriorityTask(q), t)
     ELSE IF q.current_task # Null /\ q.state[q.current_task] = "READY"
          THEN [q EXCEPT !.state[q.current_task] = "RUNNING"]
          ELSE Idle(q)

\* Faulty variant: the current task is queued before the sleepers that are due.
ScheduleFromSwapped(q) ==
  IF scheduling_enabled
  THEN PickNext(ProcessSleepingTasks(RequeueCurrent(q), current_tick))
  ELSE q

\* Schedule(): also the tail of every operation that gives up the CPU.
ScheduleFrom(q) ==
  IF scheduling_enabled
  THEN PickNext(RequeueCurrent(ProcessSleepingTasks(q, current_tick)))
  ELSE q

\* ThreadFactory::DestroyThread and ~Thread: the stack goes back to the heap.
\* The block itself stays readable: the kernel's operator delete does nothing.
Destroy(q, t) == [q EXCEPT !.state[t] = "TERMINATED", !.stack_base[t] = FALSE]

\* TerminateCurrentTask(): the task is destroyed after the next was chosen.
Terminate(q) == Destroy(ScheduleFrom(Idle(q)), q.current_task)

FindTask(q, t) == IF t = q.current_task \/ t \in Linked(q) THEN t ELSE Null

Found(t) == FindTask(s, t) # Null /\ s.state[t] # "TERMINATED"

------------------------------------------------------------------------------
Init ==
  /\ s = [ready_queues      |-> [p \in Level |-> Null],
          ready_queue_tails |-> [p \in Level |-> Null],
          sleeping_tasks    |-> Null,
          current_task      |-> Null,
          time_slice        |-> 0,
          state             |-> [t \in Task |-> "NONE"],
          next              |-> [t \in Task |-> Null],
          priority          |-> [t \in Task |-> 0],
          stack_base        |-> [t \in Task |-> FALSE],
          sleep_until       |-> [t \in Task |-> 0]]
  /\ next_task_id = 1
  /\ current_tick = 0
  /\ scheduling_enabled = FALSE
  /\ tainted = FALSE

\* An operation that changes only the lists and the control blocks.
Lists(q) == s' = q /\ UNCHANGED <<next_task_id, current_tick, scheduling_enabled>>

CreateTask(p) ==
  /\ next_task_id \in Task
  /\ s' = AddToReadyQueue([s EXCEPT !.priority[next_task_id] = p,
                                     !.stack_base[next_task_id] = TRUE], next_task_id)
  /\ next_task_id' = next_task_id + 1
  /\ UNCHANGED <<current_tick, scheduling_enabled, tainted>>

\* No memory for the control block or its stack: the identifier is used up.
CreateTaskFails ==
  /\ next_task_id \in Task
  /\ next_task_id' = next_task_id + 1
  /\ UNCHANGED <<s, current_tick, scheduling_enabled, tainted>>

Schedule == Lists(ScheduleFrom(s)) /\ UNCHANGED tainted

Yield ==
  /\ scheduling_enabled /\ s.current_task # Null
  /\ Lists(ScheduleFrom([s EXCEPT !.time_slice = 0]))
  /\ UNCHANGED tainted

TerminateCurrentTask ==
  /\ s.current_task # Null
  /\ Lists(Terminate(s))
  /\ UNCHANGED tainted

BlockCurrentTask ==
  /\ s.current_task # Null
  /\ Lists(ScheduleFrom([s EXCEPT !.state[s.current_task] = "BLOCKED"]))
  /\ UNCHANGED tainted

UnblockTask(t) ==
  /\ Found(t) /\ s.state[t] = "BLOCKED"
  /\ Lists(AddToReadyQueue(s, t))
  /\ tainted' = TRUE

\* The queue is popped by the test itself; the popped task is not kept.
OnTimerTick ==
  LET c == s.current_task
      slice == IF s.time_slice > 0 THEN s.time_slice - 1 ELSE 0
      ticked == [s EXCEPT !.time_slice = slice]
      requeued == AddToReadyQueue(GetHighestPriorityTask(ticked), c)
  IN /\ scheduling_enabled
     /\ current_tick' = (current_tick + 1) % TickModulus
     /\ s' = IF c = Null THEN s
             ELSE IF slice = 0 /\ NonEmpty(s) # {}
                  THEN Dispatch(GetHighestPriorityTask(requeued),
                                HighestPriorityTask(requeued))
                  ELSE ticked
     /\ UNCHANGED <<next_task_id, scheduling_enabled, tainted>>

EnablePreemption ==
  /\ scheduling_enabled' = TRUE
  /\ UNCHANGED <<s, next_task_id, current_tick, tainted>>

DisablePreemption ==
  /\ scheduling_enabled' = FALSE
  /\ UNCHANGED <<s, next_task_id, current_tick, tainted>>

SuspendTask(t) ==
  LET q == [s EXCEPT !.state[t] = "SUSPENDED"]
  IN /\ Found(t)
     /\ Lists(IF t = s.current_task THEN ScheduleFrom(q) ELSE q)
     /\ UNCHANGED tainted

ResumeTask(t) ==
  /\ Found(t) /\ s.state[t] = "SUSPENDED"
  /\ Lists(AddToReadyQueue(s, t))
  /\ tainted' = TRUE

\* A task other than the current one is destroyed where it stands in its list.
KillTask(t) ==
  /\ Found(t)
  /\ Lists(IF t = s.current_task THEN Terminate(s)
           ELSE Destroy(s, t))
  /\ UNCHANGED tainted

SleepTicks(ms) == IF (ms * 100) \div 1000 = 0 THEN 1 ELSE (ms * 100) \div 1000

WakeTick(ms) == (current_tick + SleepTicks(ms)) % TickModulus

SleepTask(t, ms) ==
  LET q == [s EXCEPT !.state[t] = "SLEEPING",
                     !.sleep_until[t] = WakeTick(ms),
                     !.next[t] = s.sleeping_tasks,
                     !.sleeping_tasks = t]
  IN /\ Found(t)
     /\ Lists(IF t = s.current_task THEN ScheduleFrom(Idle(q)) ELSE q)
     /\ tainted' = (t # s.current_task)

SetTaskPriority(t, p) ==
  /\ Found(t)
  /\ Lists([s EXCEPT !.priority[t] = p])
  /\ UNCHANGED tainted

\* Behaviours are followed up to the first tainting call: after it two lists can
\* share nodes or a list can loop, and a walk of a looping list never returns.
Next ==
  /\ ~tainted
  /\ \/ \E p \in Priorities : CreateTask(p)
     \/ CreateTaskFails
     \/ Schedule
     \/ Yield
     \/ TerminateCurrentTask
     \/ BlockCurrentTask
     \/ \E t \in Task : UnblockTask(t)
     \/ OnTimerTick
     \/ EnablePreemption
     \/ DisablePreemption
     \/ \E t \in Task : SuspendTask(t)
     \/ \E t \in Task : ResumeTask(t)
     \/ \E t \in Task : KillTask(t)
     \/ \E t \in Task, ms \in SleepTimes : SleepTask(t, ms)
     \/ \E t \in Task, p \in Priorities : SetTaskPriority(t, p)

Spec == Init /\ [][Next]_vars

------------------------------------------------------------------------------
(***************************************************************************)
(* Type invariant: pointers are Null or a task, states and counters are in *)
(* range.                                                                  *)
(***************************************************************************)
TypeOK ==
  /\ s \in [ready_queues : [Level -> Task \cup {Null}],
            ready_queue_tails : [Level -> Task \cup {Null}],
            sleeping_tasks : Task \cup {Null},
            current_task : Task \cup {Null},
            time_slice : 0 .. 20,
            state : [Task -> TaskState],
            next : [Task -> Task \cup {Null}],
            priority : [Task -> Level],
            stack_base : [Task -> BOOLEAN],
            sleep_until : [Task -> 0 .. TickModulus - 1]]
  /\ next_task_id \in 1 .. MaxTasks + 1
  /\ current_tick \in 0 .. TickModulus - 1
  /\ scheduling_enabled \in BOOLEAN
  /\ tainted \in BOOLEAN

ListsEnd(q) ==
  /\ \A p \in Level : Ends(q.next, q.ready_queues[p])
  /\ Ends(q.next, q.sleeping_tasks)

TailsCorrect(q) ==
  \A p \in Level :
    q.ready_queue_tails[p] =
      IF ReadyList(q, p) = <<>> THEN Null ELSE Last(ReadyList(q, p))

\* Every task is in at most one list, once, and the current task in none.
OnePlace(q) ==
  /\ IsInjective(SleepList(q)) /\ \A p \in Level : IsInjective(ReadyList(q, p))
  /\ \A p \in Level : ToSet(ReadyList(q, p)) \cap ToSet(SleepList(q)) = {}
  /\ \A p, r \in Level : p # r => ToSet(ReadyList(q, p)) \cap ToSet(ReadyList(q, r)) = {}
  /\ q.current_task \notin Linked(q)

(***************************************************************************)
(* The lists keep their shape (scheduler.cpp:80-131, 133-261): each ready  *)
(* queue and the sleeping list ends, no task is linked twice or both       *)
(* linked and current, and each tail pointer names the last task -- for    *)
(* every sequence of calls up to the first one that links a task that is   *)
(* linked or current already (resume, unblock or sleep of such a task).    *)
(* The record keeps its type throughout.                                   *)
(***************************************************************************)
ListsIntact ==
  /\ TypeOK
  /\ ~tainted => ListsEnd(s) /\ TailsCorrect(s) /\ OnePlace(s)

(***************************************************************************)
(* Only the current task is in state RUNNING, whatever way the CPU changed *)
(* hands (scheduler.cpp:141-144, 160, 237, 243, 332-336).                  *)
(***************************************************************************)
OneRunning == \A t \in Task : s.state[t] = "RUNNING" => t = s.current_task

\* The level of the queue t is linked in, or will be put in.
QueuedAt(t) ==
  IF \E p \in Level : t \in ToSet(ReadyList(s, p))
  THEN CHOOSE p \in Level : t \in ToSet(ReadyList(s, p))
  ELSE s.priority[t]

(***************************************************************************)
(* A task that gets the CPU leaves no task waiting in a queue above its    *)
(* own, sleepers that became ready in the same call included               *)
(* (scheduler.cpp:101-117, 133-148, 241).                                  *)
(***************************************************************************)
StrictPriority ==
  [][LET t == s'.current_task
     IN t # Null /\ t # s.current_task
          => \A p \in Level : p < QueuedAt(t) => s'.ready_queues[p] = Null]_vars

(***************************************************************************)
(* Sleepers that are due join the queues before the task that gives up the *)
(* CPU does (scheduler.cpp:137-143), so a Schedule or Yield that leaves    *)
(* the CPU to its caller has woken only tasks of lower levels.             *)
(***************************************************************************)
WokenGoFirst ==
  [][LET t == s.current_task
     IN (Schedule \/ Yield) /\ t # Null /\ s'.current_task = t
          => \A w \in ToSet(SleepList(s)) \ ToSet(SleepList(s')) :
               s.priority[w] > s.priority[t]]_vars

\* What RunQueues makes of the linked lists.
Abstract ==
  INSTANCE RunQueues WITH
    None <- Null,
    ready <- [p \in Level |-> ReadyList(s, p)],
    sleeping <- SleepList(s),
    running <- s.current_task,
    level <- s.priority,
    broken <- tainted

(***************************************************************************)
(* What a preempting tick does to the queues, which RunQueues does not     *)
(* allow: the test at scheduler.cpp:232 takes the head off the highest     *)
(* queue and forgets it, before the current task is put back and the next  *)
(* is chosen.                                                              *)
(***************************************************************************)
TickDropsHead ==
  LET ready == [p \in Level |-> ReadyList(s, p)]
      full  == {p \in Level : ready[p] # <<>>}
      top   == CHOOSE p \in full : \A r \in full : p <= r
      rest  == [ready EXCEPT ![top] = Tail(@)]
  IN /\ OnTimerTick
     /\ s.current_task # Null /\ full # {}
     /\ Abstract!TakeHead([rest EXCEPT ![s.priority[s.current_task]] = Append(@, s.current_task)])
     /\ SleepList(s') = SleepList(s) /\ s'.priority = s.priority /\ tainted' = tainted

(***************************************************************************)
(* The linked lists implement the abstract run queues in every step of     *)
(* every operation but one: a tick that preempts loses one task, the head  *)
(* of the highest queue, and does nothing else that RunQueues forbids      *)
(* (scheduler.cpp:48-400).                                                 *)
(***************************************************************************)
RunQueuesButForDrops ==
  Abstract!Init /\ [][Abstract!Next \/ TickDropsHead]_(Abstract!vars)

(***************************************************************************)
(* "Round-robin scheduler" (scheduler.hpp:29) and "if time slice expired   *)
(* and there are other tasks ready, preempt" (scheduler.cpp:231): the      *)
(* linked lists implement the abstract run queues, in which a task that is *)
(* ready stays in its queue until it gets the CPU.                         *)
(***************************************************************************)
ImplementsRunQueues == Abstract!Spec
=============================================================================

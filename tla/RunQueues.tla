------------------------------ MODULE RunQueues ------------------------------
(***************************************************************************)
(* What the scheduler promises about who runs next, without pointers,      *)
(* control blocks, slices or clocks: every priority level is a FIFO queue, *)
(* the CPU goes to the head of the highest non-empty level, and a task is  *)
(* moved between the CPU, one queue and the sleepers in one step.          *)
(***************************************************************************)
EXTENDS Integers, Sequences, SequencesExt

CONSTANTS Task, Level, None

VARIABLES
  ready,     (* the queue of each level               *)
  sleeping,  (* the sleepers, last to fall asleep first *)
  running,   (* the task on the CPU, None when idle   *)
  level,     (* the level a task is queued at next    *)
  broken     (* the lists are no longer meaningful    *)

vars == <<ready, sleeping, running, level, broken>>

Init ==
  /\ ready = [p \in Level |-> <<>>]
  /\ sleeping = <<>>
  /\ running = None
  /\ level = [t \in Task |-> 0]
  /\ broken = FALSE

Placed == {running} \cup ToSet(sleeping) \cup UNION {ToSet(ready[p]) : p \in Level}

Arrive(t, p) ==
  /\ level' = [level EXCEPT ![t] = p]
  /\ t \notin Placed
  /\ ready' = [ready EXCEPT ![p] = Append(@, t)]
  /\ UNCHANGED <<sleeping, running, broken>>

\* Those of the tasks of z that are in W, in the order of z.
Among(z, W) ==
  LET found[k \in 0 .. Len(z)] ==
        IF k = 0 THEN <<>>
        ELSE IF z[k] \in W THEN Append(found[k - 1], z[k]) ELSE found[k - 1]
  IN found[Len(z)]

\* The queues once those of the sleepers z that are in W have joined them, in
\* list order.
Awake(z, W) == [p \in Level |-> ready[p] \o Among(z, {t \in W : level[t] = p})]

Asleep(z, W) == Among(z, ToSet(z) \ W)

\* The CPU is given to the head of the highest non-empty queue of q.
TakeHead(q) ==
  LET full == {p \in Level : q[p] # <<>>}
      top  == CHOOSE p \in full : \A r \in full : p <= r
  IN IF full = {}
     THEN running' = None /\ ready' = q
     ELSE running' = Head(q[top]) /\ ready' = [q EXCEPT ![top] = Tail(@)]

\* The running task goes to the back of its queue, or leaves the CPU for good
\* (blocked, suspended, finished), or falls asleep; any sleepers may wake first.
\* A timer preemption is the first of these.
SwitchRequeue ==
  \E W \in SUBSET ToSet(sleeping) :
    /\ running # None
    /\ sleeping' = Asleep(sleeping, W)
    /\ TakeHead([Awake(sleeping, W) EXCEPT ![level[running]] = Append(@, running)])
    /\ UNCHANGED <<level, broken>>

SwitchLeave ==
  \E W \in SUBSET ToSet(sleeping) :
    /\ sleeping' = Asleep(sleeping, W)
    /\ TakeHead(Awake(sleeping, W))
    /\ UNCHANGED <<level, broken>>

SwitchSleep ==
  LET z == <<running>> \o sleeping
  IN /\ running # None
     /\ \/ sleeping' = z /\ running' = None /\ UNCHANGED ready
        \/ \E W \in SUBSET ToSet(z) :
             sleeping' = Asleep(z, W) /\ TakeHead(Awake(z, W))
     /\ UNCHANGED <<level, broken>>

\* The running task goes away while nothing may be dispatched.
Vacate == running' = None /\ UNCHANGED <<ready, sleeping, level, broken>>

\* A change of level does not move a queued task.
Relevel(t, p) ==
  /\ level' = [level EXCEPT ![t] = p]
  /\ UNCHANGED <<ready, sleeping, running, broken>>

Break == broken' = TRUE

Next ==
  \/ \E t \in Task, p \in Level : Arrive(t, p) \/ Relevel(t, p)
  \/ SwitchRequeue
  \/ SwitchLeave
  \/ SwitchSleep
  \/ Vacate
  \/ Break

Spec == Init /\ [][Next]_vars
=============================================================================

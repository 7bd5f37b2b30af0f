-------------------------------- MODULE Pipe --------------------------------
(***************************************************************************)
(* The kernel's named pipes (process/pipe.cpp): the manager's table and    *)
(* the pipes in it, used by threads through PipeAPI.  What a call does     *)
(* under a mutex is one step.  What it does before is a step of its own:   *)
(* the lookup in the table, the tests of is_closed and of the permissions, *)
(* the test of a member list's length; and so is every turn of a wait      *)
(* loop.  Payloads, and the bytes a reader's buffer cuts off, are left     *)
(* out.  A deleted pipe keeps its memory: operator delete does nothing.    *)
(***************************************************************************)
EXTENDS Integers, Sequences, SequencesExt, FiniteSets

CONSTANTS
  Thread,        (* the threads that call PipeAPI; their task ids        *)
  Member,        (* the threads that are given permissions               *)
  Name,          (* pipe names, as sequences of characters               *)
  NameSize,      (* characters of a name that a pipe keeps: 31           *)
  Size,          (* sizes of the messages written                        *)
  MaxPipes,      (* length of pipes[]: 64 in the code                    *)
  MaxMembers,    (* length of readers[] and writers[]: 8 in the code     *)
  buffer_size,
  max_messages,
  MaxCreated,    (* pipes created in a behaviour (bounds the model)      *)
  MaxWrites      (* messages written in a behaviour (bounds the model)   *)

ASSUME PipeConstants ==
  /\ Member \subseteq Thread
  /\ Size \subseteq Nat \ {0}
  /\ NameSize \in Nat
  /\ \A name \in Name : name \in Seq(Range(name))
  /\ MaxPipes \in Nat /\ MaxMembers \in Nat
  /\ buffer_size \in Nat /\ max_messages \in Nat
  /\ MaxCreated \in Nat /\ MaxWrites \in Nat

VARIABLES
  slots,       (* pipes[]: the id of the pipe in each slot, 0 for nullptr *)
  pipe_count,
  pipes,       (* every pipe created so far, by id                        *)
  call,        (* the call each thread is in                              *)
  written      (* history: messages accepted so far, which numbers them   *)

pipeVars == <<slots, pipe_count, pipes, call, written>>

Slot == 1 .. MaxPipes
PipeId == 1 .. MaxCreated
Side == {"readers", "writers"}
Message == [no : 1 .. MaxWrites, size : Size]

Idle == [op |-> "none", pipe |-> 0, size |-> 0, block |-> FALSE, who |-> 0, side |-> "readers"]

\* The constructor keeps as much of the name as fits.
Stored(name) == IF Len(name) > NameSize THEN SubSeq(name, 1, NameSize) ELSE name

NewPipe(name) ==
  [name |-> Stored(name), queue |-> <<>>, count |-> 0, used |-> 0, closed |-> FALSE,
   readers |-> <<>>, writers |-> <<>>, lastRead |-> 0]

PipeInit ==
  /\ slots = [s \in Slot |-> 0] /\ pipe_count = 0
  /\ pipes = <<>>
  /\ call = [t \in Thread |-> Idle]
  /\ written = 0

\* FindPipeIndex by id.
Slots(id) == {s \in Slot : slots[s] # 0 /\ slots[s] = id}

\* FindPipeIndex by name compares only as many characters as the name looked
\* for has: a pipe whose name starts with it matches too, and no pipe has a name
\* longer than a pipe keeps.
NameMatches(s, name) == slots[s] # 0 /\ IsPrefix(name, pipes[slots[s]].name)

First(S) == CHOOSE s \in S : \A r \in S : s <= r

Return(t) == call' = [call EXCEPT ![t] = Idle]

------------------------------------------------------------------------------
(***************************************************************************)
(* The manager.  The length of the table is tested before the lock; the    *)
(* search for a free slot under it decides.                                *)
(***************************************************************************)
CreatePipe(name) ==
  LET free == {s \in Slot : slots[s] = 0}
  IN /\ Len(pipes) < MaxCreated /\ free # {}
     /\ ~\E s \in Slot : NameMatches(s, name)
     /\ pipes' = Append(pipes, NewPipe(name))
     /\ slots' = [slots EXCEPT ![First(free)] = Len(pipes) + 1]
     /\ pipe_count' = pipe_count + 1
     /\ UNCHANGED <<call, written>>

\* Faulty variant: the queue is flushed and its counters are not.
FlushedHalf(p) == [p EXCEPT !.queue = <<>>, !.closed = TRUE]

\* ~Pipe: Close and Flush.
Destroyed(p) == [p EXCEPT !.queue = <<>>, !.count = 0, !.used = 0, !.closed = TRUE]

DestroySlot(s) ==
  /\ pipes' = [pipes EXCEPT ![slots[s]] = Destroyed(@)]
  /\ slots' = [slots EXCEPT ![s] = 0]
  /\ pipe_count' = pipe_count - 1
  /\ UNCHANGED <<call, written>>

\* DestroyPipe by id and by name.
DestroyPipe(id) == Slots(id) # {} /\ DestroySlot(First(Slots(id)))

DestroyNamed(name) ==
  LET match == {s \in Slot : NameMatches(s, name)}
  IN match # {} /\ DestroySlot(First(match))

CloseAllPipes ==
  /\ \E s \in Slot : slots[s] # 0
  /\ pipes' = [id \in DOMAIN pipes |-> IF Slots(id) # {} THEN Destroyed(pipes[id]) ELSE pipes[id]]
  /\ slots' = [s \in Slot |-> 0]
  /\ pipe_count' = 0
  /\ UNCHANGED <<call, written>>

------------------------------------------------------------------------------
(***************************************************************************)
(* Writing and reading.                                                    *)
(***************************************************************************)
\* Faulty variant: both limits must be reached.
IsFullBoth(p) == p.used >= buffer_size /\ p.count >= max_messages

IsFull(p) == p.used >= buffer_size \/ p.count >= max_messages

IsEmpty(p) == p.count = 0

\* CanRead and CanWrite: an empty list lets everybody in.
Permitted(p, side, t) == p[side] = <<>> \/ t \in Range(p[side])

\* WritePipe and ReadPipe up to the lock.
EnterTransfer(t, op, id, size, block) ==
  /\ call[t] = Idle /\ Slots(id) # {}
  /\ ~pipes[id].closed
  /\ Permitted(pipes[id], IF op = "write" THEN "writers" ELSE "readers", t)
  /\ op = "write" => written + Cardinality({u \in Thread : call[u].op = "write"}) < MaxWrites
  /\ call' = [call EXCEPT ![t] = [Idle EXCEPT !.op = op, !.pipe = id, !.size = size, !.block = block]]
  /\ UNCHANGED <<slots, pipe_count, pipes, written>>

\* Faulty variant: the message is put in front.
EnqueueFront(p, m) ==
  [p EXCEPT !.queue = <<m>> \o @, !.count = @ + 1, !.used = @ + m.size]

Enqueue(p, m) ==
  [p EXCEPT !.queue = Append(@, m), !.count = @ + 1, !.used = @ + m.size]

\* A thread that waited through a Close enqueues when there is room again.
Write(t) ==
  /\ call[t].op = "write" /\ ~IsFull(pipes[call[t].pipe])
  /\ pipes' = [pipes EXCEPT ![call[t].pipe] = Enqueue(@, [no |-> written + 1, size |-> call[t].size])]
  /\ written' = written + 1
  /\ Return(t)
  /\ UNCHANGED <<slots, pipe_count>>

\* No memory for the message or its payload.
WriteFails(t) ==
  /\ call[t].op = "write" /\ ~IsFull(pipes[call[t].pipe])
  /\ Return(t)
  /\ UNCHANGED <<slots, pipe_count, pipes, written>>

Dequeue(p) ==
  [p EXCEPT !.queue = Tail(@), !.count = @ - 1,
            !.used = @ - Head(p.queue).size, !.lastRead = Head(p.queue).no]

Read(t) ==
  /\ call[t].op = "read" /\ ~IsEmpty(pipes[call[t].pipe])
  /\ pipes' = [pipes EXCEPT ![call[t].pipe] = Dequeue(@)]
  /\ Return(t)
  /\ UNCHANGED <<slots, pipe_count, written>>

\* The condition of the wait loop.
Stuck(t) ==
  \/ call[t].op = "write" /\ IsFull(pipes[call[t].pipe])
  \/ call[t].op = "read" /\ IsEmpty(pipes[call[t].pipe])

\* Faulty variant: the wait loop does not look at is_closed.
GiveUpOpen(t) ==
  /\ Stuck(t) /\ ~call[t].block
  /\ Return(t)
  /\ UNCHANGED <<slots, pipe_count, pipes, written>>

\* The wait loop ends; otherwise the thread yields and tries again.
GiveUp(t) ==
  /\ Stuck(t) /\ (~call[t].block \/ pipes[call[t].pipe].closed)
  /\ Return(t)
  /\ UNCHANGED <<slots, pipe_count, pipes, written>>

------------------------------------------------------------------------------
(***************************************************************************)
(* The lists of permitted readers and writers.                             *)
(***************************************************************************)
\* AddPipeReader and AddPipeWriter up to the lock.
EnterAdd(t, id, side, who) ==
  /\ call[t] = Idle /\ Slots(id) # {}
  /\ Len(pipes[id][side]) < MaxMembers
  /\ call' = [call EXCEPT ![t] = [Idle EXCEPT !.op = "add", !.pipe = id, !.side = side, !.who = who]]
  /\ UNCHANGED <<slots, pipe_count, pipes, written>>

WithMember(list, who) == IF who \in Range(list) THEN list ELSE Append(list, who)

\* AddReader and AddWriter; the length is not tested again.
Add(t) ==
  /\ call[t].op = "add"
  /\ pipes' = [pipes EXCEPT ![call[t].pipe][call[t].side] = WithMember(@, call[t].who)]
  /\ Return(t)
  /\ UNCHANGED <<slots, pipe_count, written>>

WithoutMember(list, who) == RemoveAt(list, First({i \in DOMAIN list : list[i] = who}))

\* RemovePipeReader and RemovePipeWriter.
RemoveMember(id, side, who) ==
  /\ Slots(id) # {} /\ who \in Range(pipes[id][side])
  /\ pipes' = [pipes EXCEPT ![id][side] = WithoutMember(@, who)]
  /\ UNCHANGED <<slots, pipe_count, call, written>>

------------------------------------------------------------------------------
Step(t) == Write(t) \/ WriteFails(t) \/ Read(t) \/ GiveUp(t) \/ Add(t)

PipeNext ==
  \/ \E name \in Name : CreatePipe(name) \/ DestroyNamed(name)
  \/ \E id \in PipeId : DestroyPipe(id)
  \/ CloseAllPipes
  \/ \E t \in Thread, id \in PipeId, block \in BOOLEAN :
       \/ \E size \in Size : EnterTransfer(t, "write", id, size, block)
       \/ EnterTransfer(t, "read", id, 0, block)
  \/ \E id \in PipeId, side \in Side, who \in Member :
       \/ \E t \in Thread : EnterAdd(t, id, side, who)
       \/ RemoveMember(id, side, who)
  \/ \E t \in Thread : Step(t)

PipeSpec == PipeInit /\ [][PipeNext]_pipeVars

------------------------------------------------------------------------------
PipeRecord ==
  [name : {Stored(name) : name \in Name}, queue : Seq(Message), count : Nat, used : Nat, closed : BOOLEAN,
   readers : Seq(Member), writers : Seq(Member), lastRead : 0 .. MaxWrites]

\* Type invariant of the table, the pipes and the calls.
PipeTypeOK ==
  /\ slots \in [Slot -> 0 .. MaxCreated]
  /\ pipe_count \in 0 .. MaxPipes
  /\ pipes \in Seq(PipeRecord) /\ Len(pipes) <= MaxCreated
  /\ call \in [Thread -> [op : {"none", "write", "read", "add"}, pipe : 0 .. MaxCreated,
                          size : Size \cup {0}, block : BOOLEAN, who : Member \cup {0}, side : Side]]
  /\ written \in 0 .. MaxWrites

\* The bytes that the messages of a list take up.
Bytes(queue) ==
  LET sum[k \in 0 .. Len(queue)] == IF k = 0 THEN 0 ELSE sum[k - 1] + queue[k].size
  IN sum[Len(queue)]

\* The number of messages and of bytes that the tests of full and empty read is
\* what the list holds, through failed writes, flushes and destruction
\* (pipe.cpp:99-108, 150-157, 281-306).
AccountsExact ==
  \A id \in DOMAIN pipes :
    LET p == pipes[id]
    IN  p.count = Len(p.queue) /\ p.used = Bytes(p.queue)

\* A pipe is full once a limit is reached, so it goes past its bytes by one message
\* at most (Write, pipe.cpp:82-114): without the last message there was room.  That
\* it goes past them at all is BytesBounded's subject.
OvershootBounded ==
  \A id \in DOMAIN pipes :
    LET p == pipes[id]
    IN  p.queue # <<>> => /\ p.used - Last(p.queue).size < buffer_size
                          /\ p.count <= max_messages

\* Messages are read in the order they were accepted, each once, whichever threads
\* read, and also by readers and writers that are inside a pipe being destroyed
\* (Write and Read, pipe.cpp:82-165).
ReadInOrder ==
  \A id \in DOMAIN pipes :
    LET p == pipes[id]
    IN  \A i \in DOMAIN p.queue :
          /\ p.lastRead < p.queue[i].no
          /\ \A j \in DOMAIN p.queue : i < j => p.queue[i].no < p.queue[j].no

\* The table holds every pipe once, no two with one name, and pipe_count counts
\* them, so CreatePipe (pipe.cpp:345-376) refuses exactly when the table is full.
\* Only names that fill the field may be there twice: FindPipeIndex looks for more
\* than the constructor kept (pipe.cpp:46-51, 429-438).
TableConsistent ==
  /\ pipe_count = Cardinality({s \in Slot : slots[s] # 0})
  /\ \A s, r \in Slot : s # r /\ slots[s] # 0 /\ slots[r] # 0
       => /\ slots[s] # slots[r]
          /\ pipes[slots[s]].name = pipes[slots[r]].name => Len(pipes[slots[s]].name) = NameSize
  /\ \A s \in Slot : slots[s] # 0 => ~pipes[slots[s]].closed

\* A thread is in a list of members once: RemoveReader and RemoveWriter take its
\* permission away (pipe.cpp:193-255).
MembersOnce ==
  \A id \in DOMAIN pipes, side \in Side : IsInjective(pipes[id][side])

\* Counters, member lists and the table of pipes agree with what they count and
\* list, whatever is created, destroyed and closed while others are inside
\* (PipeManager, pipe.cpp:332-450).
PipesConsistent == PipeTypeOK /\ AccountsExact /\ MembersOnce /\ TableConsistent

\* Destroying a pipe lets everybody inside it go, whatever it holds and whoever
\* else is in it: the next turn of a thread ends its call, so nobody in a destroyed
\* pipe waits for another (the destructor, pipe.cpp:65-72, and the waits of Write
\* and Read).
DestroyReleasesCallers ==
  \A t \in Thread :
    call[t] # Idle /\ pipes[call[t].pipe].closed => ENABLED (Step(t) /\ Return(t))

\* "Maximum buffer size in bytes" (pipe.hpp:34).
BytesBounded == \A id \in DOMAIN pipes : pipes[id].used <= buffer_size
=============================================================================

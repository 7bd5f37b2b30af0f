# Verification of KOs-System

KOs-System is a 32-bit x86 kernel with a preemptive scheduler, its own physical
and virtual memory management, a kernel heap, IPC, PS/2 input, a windowing UI,
FAT filesystems, services with user accounts and a small network stack.  This
directory holds TLA+ models of it, the TLC runs that check them on small
instances and TLAPS proofs of the most important invariants.

    tlc -workers 2 -config Kernel.cfg MCKernel
    tlapm MemoryProofs.tla

`PROJECT.json` maps every definition to the source lines it models and lists
the components, the runs, the faulty variant each property catches, the hazards
and the theorems.

## The system

`kernelMain` boots in one context: `InitCore` sets up the frame allocator,
paging, the heap at 0x02000000, the scheduler and the IPC managers; then come
drivers (preemption and interrupts are switched on), filesystem and services;
the boot context ends in the loop `TickAll(); SleepThread(16)`.  Interrupt
handlers run with interrupts off and do not nest, so what runs concurrently is
this main context (and any task the timer switches to) against one handler at a
time.  In text mode the services tick and the shell reads its input inside
handlers; in graphics mode the services tick in the main loop.  The kernel is
built without optimisation, so `--count_` on a member is a load, an operation
and a store.  Its `operator delete` does nothing: a deleted object keeps its
memory.

| Component | State | Operations | Interacts with | What is hard, and what makes it correct |
|---|---|---|---|---|
| Scheduler (`process/scheduler.cpp`) | five ready queues with tails, sleeping list, current task, tick | create, schedule, yield, block, suspend, resume, kill, sleep, tick | timer interrupt, sync, thread manager | one `next` field for all lists; a task in one place, one running task, strict priority, FIFO |
| Frame allocator, paging (`memory/pmm.cpp`, `paging.cpp`) | bitmap, free counter, directory, tables | alloc, free, map, unmap, boot map | heap, ELF loader, devices | running out half way, silent failure of a mapping; a frame has one owner |
| Heap (`memory/heap.cpp`) | block list, end, used | alloc, free, grow | everything | splitting, merging, holes after a failed grow, 32-bit wrap; blocks disjoint, no byte lost |
| Message queues (`process/message_queue.cpp`) | list, tail, count, closed | send, receive, peek, close, flush | sync, scheduler | waiting callers; list consistent, no overtaking, single delivery, close releases |
| Pipes (`process/pipe.cpp`) | table of pipes; messages, bytes, members of each | create, destroy, write, read, add, remove | sync, threads | destruction with threads inside; accounts exact, FIFO, one message past the limit at most, everybody released |
| Input queue (`input/event_queue.cpp`) | ring, indices, count | enqueue, dequeue, clear | drivers (interrupts, polling), window manager | unlocked, shared with interrupts; order, single delivery, count never too high |
| FAT16, FAT32 (`fs/`) | FAT, clusters, directory entries | write, mkdir, rename, read | ATA driver, shell, user service | every operation is several writes, each may be the last; chains apart, entries visible, data kept |
| UI framework (`ui/framework.cpp`) | windows, z-order, focus, gesture, event ring, components | create, close, raise, minimise, drag, events | window manager | indices held across a close; z-order complete, focus live, layers kept |
| Window manager (`services/window_manager.cpp`) | login, desktop, terminal and menu windows | start, key, tick | UI framework, input queue, user service | login completed by an interrupt in the middle of ticks; nothing reachable before it |
| Service manager (`services/service_manager.cpp`) | list, configuration, last ticks, uptime | register, configure, start, tick | timer interrupt, main loop | clock wrap, timer interrupts inside a pass; ticks come when they are due |
| Users (`services/user_service.cpp`, login of `console/shell.cpp`) | accounts, session, retries, lock, file | login, logout, add, password | service manager, filesystem | what a restart finds; session and prompt agree, the lock lasts |
| Network (`net/`, `drivers/net/e1000`) | rings, ARP cache, pending query | poll, send, resolve | adapter, network | adapter and driver on one ring, late and repeated answers; nothing lost in the rings, answers belong to questions |
| Sync (`process/sync.cpp`) | lock word, owner, count | lock, unlock, wait, signal | scheduler | test and set are two steps |
| Contexts, thread manager (`process/timer.cpp`, `thread.cpp`, `thread_manager.cpp`) | saved registers, launch slot | save, restore, spawn | scheduler | `Schedule()` changes the current task without changing stacks; one slot for all launches |
| Keyboard, mouse (`drivers/`) | packet buffers, buttons | interrupt, poll | input queue | two paths over the same state |
| Boot, shell commands, graphics, libc, programs | | | | mostly text, pixels and wrappers |

## Modules

* **Scheduler** - the lists as pointers: `s` holds heads, tails, current task and
  the fields of the control blocks, and the private helpers are functions on it
  (`AddToReadyQueue`, `GetHighestPriorityTask`, `ProcessSleepingTasks`,
  `ScheduleFrom`).  One action per public operation.  `OnTimerTick` keeps the
  pop inside its test.  A time slice matters only for the current task, so there
  is one.  Calls that link a task that is linked or current already (`ResumeTask`
  of a queued task, `SleepTask` of another task) set `tainted`, and a behaviour
  is followed no further: afterwards the code's list walks may not end.
* **RunQueues** - what the scheduler promises: a FIFO sequence per level, the CPU
  to the head of the highest level, one step per move, and a ready task in its
  queue until it gets the CPU.  The lists implement it but for the task that a
  preempting tick drops (`RunQueuesButForDrops`, and the finding).
* **KernelMemory** - bitmap, free counter, directory, tables and entries, counted
  in pages, and the clients that allocate: heap pages, program pages, device
  mappings, the SVGA upload surface.  Page loops are one step per page.  `stray`
  records an access to a page table at an address that is mapped elsewhere; what
  follows is memory corruption and is not followed.
* **Heap** - the block list with addresses, sizes and 32-bit arithmetic; `live`
  is what clients hold.  Running out of frames is a choice at every grow.  Its
  specification is called `BlockSpec` (`BlockInit`, `BlockNext`), so that one
  module of proofs can extend both memory models.
* **InputEventQueue** - `Enqueue` of an interrupt is one step; the main context's
  `Dequeue`, `Clear` and polled `Enqueue` are one step per access.  History
  variables (`fresh`, `overrun`, `delivered`) state what was promised.  An
  interrupt inside a polled `Enqueue` or inside `Clear` can overwrite an unread
  slot; `overrun` records it, and order and count are claimed up to then.  Its
  specification is called `RingSpec`, for the same reason.
* **MessageQueue** - a queue and its callers.  The test of `is_closed` before the
  lock and each turn of a wait loop are steps of their own; what happens under
  the lock is one step.  `Peek` changes nothing and is left out.
* **Pipe** - the manager's table and all pipes ever created.  A thread's call
  starts with what it does before the lock (lookup, `is_closed`, permissions, the
  length of a member list) and goes on with what it does under it, to the pipe it
  looked up, which may be out of the table by then.  A name is a sequence of which
  a pipe keeps the first `NameSize` characters (`Stored`), while lookup compares
  the characters of the whole name looked for.  Its specification is called
  `PipeSpec`, as those of Network and Desktop are `NetSpec` and `DesktopSpec`, so
  that one module can extend several components.
* **FatFilesystem** - both drivers over one disk.  A cluster is a sequence of
  cells (directory entry, piece of data, free).  An operation is a small program,
  `pc` says where it is, and every action is one disk write with the reads before
  it, so that a failed write or a power loss may end it at every point (`Abort`).
  A failed read is taken for the end of a chain or a missing name, as the code
  does, and the operation goes on.  The drivers differ in `format`: root
  directory, append, and how a path is walked.  `Short` is `PackShortName11`: of
  each name what an entry holds, 8+3 characters.  `Mkdir` and `Rename` store that
  and look for the whole name; the lapse "long name" records that a name was made
  beside its own short form.  A path's component has 12 characters at most, the
  code cuts longer ones into several.  `op.sound` says of an operation that nothing
  went wrong with its own file, before it or in it.  `Depth` bounds the length of the
  callers' paths, and with it the part of the tree the properties look at.
* **WindowTable**, **Desktop** - the framework's operations map a table (windows,
  z-order, focus, gesture, event ring) to the next one; `Desktop` composes them
  as the window manager does: one action for a whole `Tick` with pointer, taskbar,
  menu, consumed events and rendering order, one for the key interrupt.  Geometry
  is reduced to which window and which part of it a click hits.  `Title` and
  `PostLogin` are the titles and windows of the desktop.
* **Services**, **Users** - the manager with its 32-bit uptime (`UptimeAt`, wrapped
  at `Word`), the timer interrupt, and a pass of `TickAll` service by service.
  `Users` composes with it: accounts, prompt, lock and the account file, with
  restarts.  `Kept` is what of a name fits `User::name`, `Parts` are the texts
  between its colons and `Digits` the number read from one: a saved account is a
  line, `Fields` counts what the reader sees in it and `Account` is what it makes
  of it.  The reader gets at least `ReadLines` lines of a longer file, as its
  buffer has 4095 bytes.
* **Network** - receive and transmit rings against the adapter, dispatch, ARP
  cache, UDP sending and the resolver.  Frames arrive in any order and number,
  or never.  16-bit fields are pairs of bytes, because some code swaps them and
  some does not.
* **SchedulerProofs**, **PipeProofs**, **NetworkProofs**, **DesktopProofs** (with
  WindowTable), **FatFilesystemProofs**, **UsersProofs** (with Services),
  **MemoryProofs** (KernelMemory and Heap), **QueueProofs** (MessageQueue and
  InputEventQueue) - the theorems.
* **MC...** modules bind constants for TLC.  `MCKernel`, `MCQueues` and `MCServices`
  each check several components that share no state: `part`, chosen in the initial
  state, says which one a behaviour follows, and the others rest.

`Faulty variant` definitions are plausible bugs; each makes one property fail
when it replaces the definition below it, which shows that the property depends
on the code it is about.

## Runs

| Run | Shows | Bounds, and why they are enough |
|---|---|---|
| scheduler | `ListsIntact`, `OneRunning`, `RunQueuesButForDrops`, `StrictPriority`, `WokenGoFirst` | 3 tasks, levels 3 and 4, sleeps of a tick, clock modulo 2: tasks meet in queue, sleep list and CPU; three tasks give head, middle and tail of a list.  A third task comes only among tasks of one level (`MCSpec`), two tasks have every mix of levels |
| kernel, frames | `FramesHaveOneOwner`, `FreeCountExact`, `LowHeapOwned` | 15 frames, tables of 4 pages, heap over the end of the identity map, 2 program pages, 1 device page, a surface of up to 2 pages: frames run out in every loop |
| kernel, heap | `HeapConsistent`, `NoFreeNeighbours`, `AllocationsOwned`, `GrowMakesRoom` | pages of 112 bytes, up to 4; requests that split, align widely, need two pages, and ask for an alignment of 4096 as `render_backend.cpp:51` does |
| kernel, pipes | `PipesConsistent`, `OvershootBounded`, `ReadInOrder`, `DestroyReleasesCallers` | 2 threads, 2 slots, 2 pipes in a behaviour, names `a`, `ab` and `abc` in a field of 2, 2 messages of 1 or 3 bytes against limits of 2 bytes and 2 messages: a pipe overflows, is destroyed and written to afterwards, and one name is stored twice |
| queues, messages | `ListConsistent`, `NoOvertaking`, `TakenOnce`, `CloseReleasesCallers` | 3 callers, receivers any, 1, 2, capacity 2, 3 messages: the third sender finds the queue full while the others wait |
| queues, events | `DeliveredInOrder`, `NeverOvercounted` | ring of 3, 8 events: it wraps twice; interrupts, a polled device, `Dequeue` and `Clear` |
| queues, network | `RxRingSound`, `TxRingSound`, `AddressedAsLearnt`, `AnswersAsAsked` | rings of 3 descriptors, 2 destinations, 2 hardware addresses, 1 ARP slot, 2 host names, 8 query identifiers, 4 frames arriving, 2 lookups of 2 polls: rings wrap, the cache is full, a late answer meets the second lookup, and an answer may hold no address |
| filesystem | `NoSharedCluster`, `OneEntryPerChain`, `DirectoriesSound`, `FilesOnlyGrow`, `WrittenDataReadable` | both formats, paths `A`, `AX` (stored as `A`), `D`, `D/A`, files of 2 or 3 cells in clusters of 2 cells, a root of 2 cells, clusters up to 7 of a FAT with 9 entries, 3 operations, 1 fault: directories grow, files fill a cluster and span two, the disk fills up past its end |
| services, users | `PassedOverOnlyAfterWrap`, `SessionAtPrompt`, `OwnPasswordOnly`, `LockHolds` | intervals of 4 and 3 ms, 2 interrupts per 4 ms, a word of 16: the uptime wraps within 6 interrupts, once to exactly 0; 2 retries; a table of 4 accounts, a name that is cut to another one and one with a colon that reads back as `user`, a file of 5 lines.  While accounts were added or a file written, the kernel stays in text mode, its clock at 0 and no password is wrong (`MCNext`): manager and lock do not depend on either |
| services, desktop | `WindowTableSound`, `LoginBlocksDesktop`, `OneTerminalWindow`, `NoEventDropped`, `LayersNeverCrossed` | 4 windows, 7 event slots (the fewest the assumption of the proofs allows), 3 components, 6 window ids, after login a utility window and a hidden one: the table fills up, every role meets every other |
| filesystem_append, filesystem_create, scheduler_preempt, input_count, desktop_layers, pipe_bytes, users_persist | findings, below | as above; `scheduler_preempt` with 2 tasks of one level, `input_count` with one interrupting producer and one consumer only |

Each module's type invariant is a conjunct of one of the invariants of its run
(`WindowTableSound`, `PipesConsistent`, `SessionAtPrompt`, ...), or proved
(`MessageQueue`, `KernelMemory`, and `Scheduler` as part of `SchedulerInv`).

The runs say `CHECK_DEADLOCK FALSE`: identifiers, frames, events and operations
are bounded, and the models stop when they are used up.

Fairness.  None is assumed, because the scheduler gives none: a lower priority
starves, a preempting tick drops a task, and `Schedule` changes the current task
without switching stacks (`scheduler.cpp:171-174, 232`), so a woken caller need
not run again.  That closing a queue or destroying a pipe lets its callers go is
therefore stated of every state (`CloseReleasesCallers`, `DestroyReleasesCallers`):
whoever is inside such a call returns on the next turn it gets, whatever the others
do, and waits for nobody.  That it gets a turn is not claimed.

### Findings

Each is a run in which TLC violates what a comment of the code says.

* `filesystem_append`, `AppendKeepsData`: a FAT32 append to a file that exactly
  fills its last cluster overwrites that cluster (`fat32.cpp:505`).  The comment
  above the test wants the cluster used only if it "has space", and `fat16.cpp:83`
  tests it.  `FilesOnlyGrow` and `WrittenDataReadable` leave such appends out and
  hold for everything else.
* `filesystem_create`, `CreationReadable`: a file created in the FAT16 root
  directory is stored with size 0 (`fat16.cpp:550`), where `fat16.hpp:34` says that
  `WriteFile` "appends 'len' bytes to file or creates it if missing".
  `WrittenDataReadable` leaves these creations out, not what happens to other files
  after them.
* `scheduler_preempt`, `ImplementsRunQueues`: the preempting tick's test pops a
  ready task and forgets it (`scheduler.cpp:232`); the comment above it says
  "preempt", `scheduler.hpp:29` "Round-robin scheduler".
* `input_count`, `CountExact`: an interrupt inside `--count_` is undone
  (`event_queue.cpp:30`), with one producer and one consumer, for which
  `event_queue.hpp:49` says the queue is "Thread-safe".  The count is too low from
  then on and the newest event stays behind; it is never too high
  (`NeverOvercounted`).
* `desktop_layers`, `LayersOrdered`: `CreateWindowEx` puts a new window in front of
  all others, and `moveWindowToLayerTop` only moves forward, so a Normal window opens
  in front of utilities and dialogs (`framework.cpp:310-312`); the comments there and
  at line 57 say higher-ranked windows are "always above".  No later step crosses a
  layer anew (`LayersNeverCrossed`).
* `pipe_bytes`, `BytesBounded`: `Write` tests only whether the pipe is full already
  (`pipe.cpp:82-108`), so it goes past its "Maximum buffer size in bytes"
  (`pipe.hpp:34`), and `GetAvailableSpace` (`pipe.hpp:84`) wraps.  The excess is one
  message at most (`OvershootBounded`).
* `users_persist`, `AccountsPersist`: `AddUser` and `SetPassword` save lines without
  the salt that the reader wants (`user_service.cpp:44, 175-201`), so nothing they
  "Persist" is loaded again.

### Known deviations

What the models show the code to do where a reader may expect otherwise.  The
properties above are stated around them, and their comments say so.

Processes and memory
* No tick and no yield dispatches a first task (`scheduler.cpp:178, 221`).
* A killed task stays queued and gets the CPU without a stack (`scheduler.cpp:364`).
* A frame below 64 MiB need not be mapped at its own address any more when it
  becomes a page table (`paging.cpp:66`).
* A failed `MapPage` is counted as a mapped heap page (`paging.cpp:90`, `heap.cpp:11`).
* A pipe is found by a prefix of its name (`pipe.cpp:433`), so a pipe `a` cannot be
  created next to `ab`.  A name of 32 characters or more is cut to 31 and never
  found again (`pipe.cpp:46-51`), so it can be created twice: names are unique but
  for those that fill the field.

Filesystem and accounts
* A name longer than 8+3 is cut when it is stored and looked for whole
  (`fat32.cpp:850, 863, 959-973`, `fat16.cpp:585, 596`): making it twice puts its
  short form into the directory twice.  `DirectoriesSound` excuses just that.
* A FAT32 path may lead through a file (`fat32.cpp:804`).
* Names of accounts are not validated.  A name of 32 characters or more is cut to 31
  after the whole was looked for (`user_service.cpp:160, 167`), so two accounts can
  have one name, and a name with a colon shifts the fields of its line, so that the
  reader finds six and makes another account of it.  The second account of a name cannot be logged in to.
* After the uptime wraps, services (and the lock's end) wait for the old time to
  come round again.  Zero stands for "never": a tick at uptime 0 is not recorded
  as one (`service_manager.cpp:226`), and a prompt that locks at uptime 0 is not
  held (`shell.cpp:135`).

Desktop and network
* A minimised mouse window has no taskbar button (`framework.cpp:330`), a held
  taskbar button acts on every tick (`window_manager.cpp:1053`), and a second
  menu window can be created (`window_manager.cpp:276, 314`).
* Ethertype and ARP operation are compared without a byte swap (`rx_dispatch.cpp:36`).
* A late DNS answer ends the wait of the next lookup, which then fails; a full
  ARP cache forgets what it learns.
* With every transmit descriptor in use head and tail are equal, which the adapter
  takes for an empty ring: it stops, no descriptor is freed, and `tx_send` fails for
  ever (`e1000.cpp:263-281`).  `TxRingSound` holds in that state.

## Proofs

TLAPS proves, for every value of the constants that meets the assumptions below,
36 of the 40 properties the passing runs check; `PROJECT.json` lists the theorems.  In every
proof module there are first lemmas on the operators of the model (what a list,
a ring or a sum is after one operation), then an inductive invariant, one lemma
per operation, and at the end the theorems.  Where an argument is an induction (a
list walk, a sum, a ring) it is by smallest counterexample, `MinimumExists`.

* `SchedulerProofs`: `ListsIntact`, `OneRunning`, `StrictPriority`,
  `WokenGoFirst`, and the refinement `RunQueuesButForDrops`.  `Rep(s, L)` says that
  the pointers of `s` are the links of six sequences `L`, five queues and the
  sleepers, that no task is in two of them or twice in one, and that the tails
  point at last elements; `RepLists` derives `ListsIntact` and the lists of the
  refinement mapping from it.  `SchedulerInv` is: types, `OneRunning` and, until
  `tainted`, some `L` with `Whole`: `Rep`, a current task that is in no list and
  is the only `RUNNING` one (`Fit`), and nothing linked that was not created
  (`Below`), which is why a new task is in no list.  The walk of
  `ProcessSleepingTasks` has the loop invariant `Turned`: what was passed is the
  sleepers that stay, followed by the rest, and each queue has got those of its
  level in list order.  `StepMoves` states once what a step may do to `L` (`Moved`:
  rest, arrive, change level, hand over, sleep, preempt); the action properties
  and the refinement follow from that case by case.
* `QueueProofs`, message queue: `TypeOK`, `ListConsistent`, `NoOvertaking`, `TakenOnce`.
  The inductive invariant `QueueInv` adds that the list is sorted by identifier
  and that every identifier in the list, taken or flushed is below
  `next_message_id`: without it an old message could stand behind a newer one,
  and a new identifier could meet a taken one.
* `QueueProofs`, input queue: `DeliveredInOrder`, `NeverOvercounted`, both until an
  unread slot was overwritten.  The invariant has one clause per point of the main
  context at which the interrupt may come: how far count and indices are apart
  there (`CountInv`, `RingInv`), and that unread events get newer going round the
  ring (`OrderInv`).
* `PipeProofs`: `ReadInOrder`, `OvershootBounded`, `PipesConsistent`.  `PipeInv`
  says that every pipe ever created is `Sound`: its messages are numbered in
  order, above the last one read and up to the last one accepted, and without its
  last message it was not full.  It adds that slots and threads inside a call name
  created pipes, so that a step after the destruction of a pipe is one on a sound
  pipe too; `OnePipeChanges` lifts what an operation does to one pipe to all.
  `FullInv` adds the accounts (the count is the length, the bytes used are the sum
  of the sizes), the table, and `CallsBounded`: writers still inside `Write` count
  against the number of writes, which bounds the byte total.
* `MemoryProofs`, frames and pages: `TypeOK`, `FramesHaveOneOwner`, `FreeCountExact`,
  `LowHeapOwned`.  `MemInv` adds that everything owned is marked in the bitmap
  (`Covered`), so a fresh frame has no owner; that the frames of the upload
  surface are only its own (`Uploads`), so they may be freed; and that a mapped
  page has a table (`Tabled`), so that a release really unmaps it.
  `MapPageEffect` states once what `MapPage` may do.  For the low heap it counts:
  the boot map takes one low frame per table, and there are more of them.
* `MemoryProofs`, heap: `HeapConsistent`, `NoFreeNeighbours`, `AllocationsOwned`,
  `GrowMakesRoom`.  `HeapInv` orders all headers, not just neighbours, keeps the
  byte sums of used and lost memory, and has every client's block to itself.  The
  four things the code does to the list (cut, merge, change, append) each have a
  lemma that gives the new list index by index.
* `UsersProofs`: `PassedOverOnlyAfterWrap`, `SessionAtPrompt`, `OwnPasswordOnly`,
  `LockHolds`.  `TicksInv`: `last_tick_ms` is the uptime of a time (`tickedAt`) not
  ahead of the pass.  `SessionInv` ties prompt, session and retries, `LockInv` the end
  of the lock to the time it was set.  `CurrentFirst`: whoever is logged in is the
  first account of that name, as `Login` found it with `IndexOf`, and accounts are
  only added at the end; without it `passwd` could reach another account of the name.
  What the reader makes of a file is an account for every line it can hold
  (`LoadedTyped`), also of cut names and shifted fields.
* `NetworkProofs`: `RxRingSound`, `TxRingSound`, `AddressedAsLearnt`,
  `AnswersAsAsked`.  `NetInv`: each ring holds consecutive frames from its head on
  and the registers follow from the counters; the cache has one slot per address,
  with the last one learnt; and every frame the lookup could take for its answer
  carries a query that was sent, with its name.
* `FatFilesystemProofs`: `NoSharedCluster`, `OneEntryPerChain`,
  `DirectoriesSound`.  The properties speak of the tree, which a step may change
  far from where it writes, and of chains, which are walks.  `FatInv` speaks of
  neither.  It is about every live cell of the disk, reachable or not, and it has
  a witness `h` that gives each cluster the first cluster of its chain: `h`
  changes only where a cluster is linked, and there only at that cluster (`Core`:
  links, heads, entries name heads, directories full up to their last cluster,
  names unique per head).  Walks come in only at the end: `Chain` stays on one
  head.  Two facts about the code carry the induction.  Clusters are never freed
  and the lowest free one is taken, so the allocated clusters are the first ones,
  links lead upwards and a walk ends.  And the cluster at hand is marked, then
  linked, then named: `OpOK` says for each `pc` how far it has got, so that being
  cut off there leaves nothing half named.  `Owners` allows two entries of one
  chain in a move only, before its old entry is erased.  Read errors take two
  conjuncts away (`Attached`, names unique), a long name beside its short form the
  second, and the other conjuncts are proved
  without them: after a cut chain no cluster is shared either.  TLC checked
  `FatInv` with the heads computed from the FAT before the proof.
* `DesktopProofs`: `WindowTableSound`, `LoginBlocksDesktop`, `OneTerminalWindow`,
  `NoEventDropped`, and the action property `LayersNeverCrossed`.  `Sound(u)` is
  the table's part: the z-order is a permutation of the slots, and slots are in
  the order of their ids, so that a search by id finds one slot, also after a
  close has moved the slots down.  `Follows(u, v, k)` says what any number of
  framework calls may make of a sound table: it stays sound, inherits its windows,
  lets no window cross a layer and pushes `k` events at most.  It composes, which
  is what a whole tick needs: one lemma per operation, one per phase, and the sum
  of the `k` is the room the ring must have.  `DesktopInv` adds the terminal's only
  window, and that during the login nothing is registered, one window exists and
  the ring is all but empty (`AtLogin`): without it a menu could answer, or the
  windows of the desktop could overrun the ring.

Assumptions, all evaluated by TLC on the runs, and why the code justifies them:

* `SchedulerConstants`: five levels; sleeps are at most 42949672 ms, so that
  `milliseconds * 100` fits 32 bits.
* `LowMemory`: the free frames below the identity map's end outnumber its page
  tables (64 MiB has 16 tables).
* `HeapConstants`, `RequestsFit`: the heap ends below 4 GiB and a request with
  its header, alignment and a page does not wrap; the code has no test for it.
* `PipeConstants`: names are sequences (of characters), sizes are not 0.
* `NetworkConstants`: rings have two descriptors at least, and there are fewer
  lookups than query identifiers (16 bits in the code): after 65535 lookups a very
  late answer would be taken for a new one.
* `ServicesConstants`: `List`, the order of registration, has each service once.
  `UsersConstants`, `LockFits`: room for the two built-in accounts; whole
  milliseconds per tick; the lock's 3 s fit the uptime, which is 32 bits wide.
  `NamesConstants`: what is kept of a name is a name and is kept whole, a name's
  first part is a name, and the built-in names are short and have no colon.
* `FatAssumptions`: the disk has a cluster for the root and one for the image's
  directory, the FAT's entries reach past its last cluster, a cluster holds the
  two dot entries at least, no file is named by a dot entry's name, and paths are
  no longer than `Depth`.
* `DesktopConstants`: the event ring is longer by 5 than the list of windows made
  after the login (64 slots in the code, for less than ten windows), and the
  terminal's title is its own.
* `QueueAssumptions`, `QueueConstants`, `MemoryConstants`: sizes are numbers and
  regions are disjoint, as the constants of the code are.

Only model-checked are four properties.  `CloseReleasesCallers` and
`DestroyReleasesCallers` speak of `ENABLED`, which the provers do not handle.
`FilesOnlyGrow` and `WrittenDataReadable` compare the contents of files, which
`ReadFile` puts together along a chain: what such a walk returns after a step is
an induction over the chain for every file of the tree, and the tree itself is an
iteration from the root.  `FatInv` has what they rest on, chains that stay apart.

## Not modelled, and assumptions

* `Mutex` is taken as atomic in `MessageQueue` and `Pipe`, and scheduler
  operations as atomic in `Scheduler`: preemption inside them belongs to the
  planned modules of contexts and locks.  At boot no task is dispatched and the
  start of the thread manager is deferred, so that code is not reached before
  something else changes.
* Payloads, message types, protection bits and priorities out of range are left
  out.  `milliseconds * 100` is assumed to fit 32 bits.
* A heap page count per request is bounded by `MaxGrow`, and the heap by
  `HeapCap`, below the device mappings at 0x10000000.
* In `Pipe` one thread is given permissions, so a member list never reaches its
  limit, where two adders that both passed the unlocked test would write beyond
  the array.
* `Users` leaves out the buffer of 1024 bytes in which a save puts its lines
  together, which the lines of sixteen long names do not fit.
* The table of `MessageQueueManager` works as that of the pipes and is not
  modelled a second time.
* `FatFilesystem` leaves out the second FAT, which nothing reads, and the parsing
  of the boot sector; a write of several sectors is one write.
* ICMP sockets and checksums, the assembly of input packets from bytes, the SVGA
  FIFO, parsing of ELF headers, the port protocol of ATA and the probing of
  hardware are left out.
* Graphics, the system calls, the C library, initd and the programs, and the
  shells' commands other than those about accounts are text, pixels and wrappers:
  data with next to no control.  They, and the logo bitmap in
  `include/common/logo.h` (65551 lines of array), are most of the repository's
  lines.

## Plan

1. **Locks and contexts** - `Mutex`, `Semaphore`, `ConditionVariable` under
   preemption between test and set; saved contexts against `Schedule()`, composed
   with `Scheduler`: whose registers does a task get back.  `SpawnProcess` and
   its launch slot on top.
2. **Mouse and keyboard** - packet assembly by interrupt and by polling, composed
   with `InputEventQueue`.
3. **Proofs** - `FilesOnlyGrow`, from `FatInv` and a lemma that a link leaves all
   other chains as they were.

-------------------------------- MODULE Heap --------------------------------
(***************************************************************************)
(* The block lists of the kernel heap (memory/heap.cpp).  The doubly       *)
(* linked list of headers is a sequence in list order; addresses, sizes    *)
(* and the 32-bit arithmetic on them are kept.  lock_heap brackets Alloc   *)
(* and Free, so each is one action.                                        *)
(***************************************************************************)
EXTENDS Integers, Sequences, SequencesExt

CONSTANTS
  HeaderSize,      (* sizeof(BlockHeader): 24                               *)
  PointerSize,     (* sizeof(BlockHeader* ): 4                              *)
  MIN_ALIGNMENT,   (* 8                                                     *)
  SPLIT_THRESHOLD, (* 32                                                    *)
  PAGE_SIZE,       (* 4096 in the code, smaller in the runs                 *)
  Word,            (* the range of uint32_t                                 *)
  Base,            (* the address Heap::Init is given                       *)
  InitialPages,    (* 2; Init turns 0 into 1                                *)
  MaxPages,        (* frames run out before the heap has more pages         *)
  Requests         (* the <<size, align>> pairs clients ask for             *)

ASSUME HeapConstants ==
  /\ HeaderSize \in Nat \ {0} /\ PointerSize \in Nat \ {0}
  /\ MIN_ALIGNMENT \in Nat \ {0} /\ SPLIT_THRESHOLD \in Nat
  /\ PAGE_SIZE \in Nat /\ PAGE_SIZE > HeaderSize
  /\ Base \in Nat /\ Base > 0 /\ InitialPages \in Nat \ {0} /\ MaxPages \in Nat
  /\ InitialPages <= MaxPages
  /\ Word \in Nat /\ Base + MaxPages * PAGE_SIZE < Word
  /\ Requests \subseteq Nat \X Nat

VARIABLES
  blocks,      (* the block list: addr, size and used of each header        *)
  g_heapEnd,
  g_heapUsed,
  live,        (* the allocations clients hold: pointer, size, alignment    *)
               (* and the header the back-pointer before ptr names          *)
  lost,        (* history: bytes of pages added by a request that failed    *)
  outcome      (* how the last call of Alloc ended                          *)

blockVars == <<blocks, g_heapEnd, g_heapUsed, live, lost, outcome>>

------------------------------------------------------------------------------
AlignUp(x, a) == ((x + a - 1) \div a) * a

\* The least MIN_ALIGNMENT * 2^k that is at least a.
normalize_align(a) ==
  LET reaches(k) == MIN_ALIGNMENT * 2^k >= a
      doublings == CHOOSE k \in 0 .. a : reaches(k) /\ (k = 0 \/ ~reaches(k - 1))
  IN MIN_ALIGNMENT * 2^doublings

\* A power of two rounds each alignment up, and what one request asks for with
\* its header, its prefix and its padding fits 32 bits.
ASSUME RequestsFit ==
  \A r \in Requests :
    /\ normalize_align(r[2]) \in Nat \ {0}
    /\ r[1] + normalize_align(r[2]) + PointerSize + HeaderSize + PAGE_SIZE < Word

payload_start(b) == b.addr + HeaderSize

block_end(b) == payload_start(b) + b.size

\* The pointer find_block computes in block b, and what it takes of the block.
user(b, a) == AlignUp(payload_start(b) + PointerSize, a)

\* Faulty variant: no room is counted for the alignment gap.
consumedUnaligned(b, size, a) == (PointerSize + size) % Word

consumed(b, size, a) == (user(b, a) - payload_start(b) + size) % Word

\* The index of the first free block that holds the request, 0 for none.
find_block(bs, size, a) ==
  LET fits == {i \in DOMAIN bs : ~bs[i].used /\ consumed(bs[i], size, a) <= bs[i].size}
  IN IF fits = {} THEN 0 ELSE CHOOSE i \in fits : \A j \in fits : i <= j

\* Faulty variant: the header of the rest is not paid for.
split_blockShort(bs, i, n) ==
  LET b == bs[i]
      rest == [addr |-> payload_start(b) + n, size |-> b.size - n, used |-> FALSE]
  IN IF b.size <= n + HeaderSize + SPLIT_THRESHOLD THEN bs
     ELSE SubSeq(bs, 1, i - 1) \o <<[b EXCEPT !.size = n], rest>> \o SubSeq(bs, i + 1, Len(bs))

split_block(bs, i, n) ==
  LET b == bs[i]
      rest == [addr |-> payload_start(b) + n, size |-> b.size - n - HeaderSize, used |-> FALSE]
  IN IF b.size <= n + HeaderSize + SPLIT_THRESHOLD THEN bs
     ELSE SubSeq(bs, 1, i - 1) \o <<[b EXCEPT !.size = n], rest>> \o SubSeq(bs, i + 1, Len(bs))

absorb_next(bs, i) ==
  IF i < Len(bs) /\ ~bs[i + 1].used
  THEN SubSeq(bs, 1, i - 1)
         \o <<[bs[i] EXCEPT !.size = (@ + HeaderSize + bs[i + 1].size) % Word]>>
         \o SubSeq(bs, i + 2, Len(bs))
  ELSE bs

\* Faulty variant: a freed block is not merged into the free block before it.
coalesceForward(bs, i) == absorb_next(bs, i)

\* The end of Free: merge with the next block, then into the previous one.
coalesce(bs, i) ==
  LET merged == absorb_next(bs, i)
  IN IF i > 1 /\ ~bs[i - 1].used THEN absorb_next(merged, i - 1) ELSE merged

\* grow_heap, once its pages are mapped from start on.
extend(bs, start, added) ==
  IF bs # <<>> /\ ~Last(bs).used
  THEN [bs EXCEPT ![Len(bs)].size = @ + added]
  ELSE Append(bs, [addr |-> start, size |-> added - HeaderSize, used |-> FALSE])

\* Faulty variant: no page is asked for the header of the new block.
growPagesBare(size, a) == ((size + a + PAGE_SIZE - 1) % Word) \div PAGE_SIZE

\* The pages grow_heap adds for a request.
growPages(size, a) ==
  LET totalBytes == (size + a + PointerSize + HeaderSize) % Word
      pages == ((totalBytes + PAGE_SIZE - 1) % Word) \div PAGE_SIZE
  IN IF pages = 0 THEN 1 ELSE pages

------------------------------------------------------------------------------
(***************************************************************************)
(* Heap::Init: got pages are mapped before the frames run out.             *)
(***************************************************************************)
BlockInit ==
  \E got \in 0 .. InitialPages :
    LET enough == got = InitialPages
    IN /\ g_heapEnd = Base + got * PAGE_SIZE
       /\ blocks = IF enough THEN <<[addr |-> Base, size |-> got * PAGE_SIZE - HeaderSize,
                                      used |-> FALSE]>>
                   ELSE <<>>
       /\ lost = IF enough THEN 0 ELSE got * PAGE_SIZE
       /\ g_heapUsed = 0 /\ live = {} /\ outcome = "none"

\* The end of Alloc: block i is split, marked and handed out.
take(bs, i, size, a) ==
  LET split == split_block(bs, i, consumed(bs[i], size, a))
  IN /\ blocks' = [split EXCEPT ![i].used = TRUE]
     /\ g_heapUsed' = (g_heapUsed + split[i].size) % Word
     /\ live' = live \cup {[ptr |-> user(bs[i], a), size |-> size, align |-> a,
                            block |-> bs[i].addr]}
     /\ outcome' = "ok"

AllocFound(size, a) ==
  LET i == find_block(blocks, size, a)
  IN /\ size > 0 /\ i > 0
     /\ take(blocks, i, size, a)
     /\ UNCHANGED <<g_heapEnd, lost>>

\* Only got of the pages could be mapped; the heap keeps them, no block does.
AllocOutOfFrames(size, a) ==
  /\ size > 0 /\ find_block(blocks, size, a) = 0
  /\ \E got \in 0 .. growPages(size, a) - 1 :
       /\ g_heapEnd + got * PAGE_SIZE <= Base + MaxPages * PAGE_SIZE
       /\ g_heapEnd' = g_heapEnd + got * PAGE_SIZE
       /\ lost' = lost + got * PAGE_SIZE
  /\ outcome' = "out of frames"
  /\ UNCHANGED <<blocks, g_heapUsed, live>>

AllocGrows(size, a) ==
  LET added == growPages(size, a) * PAGE_SIZE
      bs == extend(blocks, g_heapEnd, added)
      i == find_block(bs, size, a)
  IN /\ size > 0 /\ find_block(blocks, size, a) = 0
     /\ g_heapEnd + added <= Base + MaxPages * PAGE_SIZE
     /\ g_heapEnd' = g_heapEnd + added
     /\ IF i > 0 THEN take(bs, i, size, a)
        ELSE blocks' = bs /\ outcome' = "no block" /\ UNCHANGED <<g_heapUsed, live>>
     /\ UNCHANGED lost

Alloc(size, align) ==
  LET a == normalize_align(align)
  IN AllocFound(size, a) \/ AllocOutOfFrames(size, a) \/ AllocGrows(size, a)

\* Free, for a pointer that Alloc returned and nobody freed.
Free(x) ==
  \E i \in DOMAIN blocks :
    /\ blocks[i].addr = x.block /\ blocks[i].used
    /\ g_heapUsed' = IF g_heapUsed >= blocks[i].size THEN g_heapUsed - blocks[i].size ELSE 0
    /\ blocks' = coalesce([blocks EXCEPT ![i].used = FALSE], i)
    /\ live' = live \ {x}
    /\ UNCHANGED <<g_heapEnd, lost, outcome>>

BlockNext ==
  \/ \E r \in Requests : Alloc(r[1], r[2])
  \/ \E x \in live : Free(x)

BlockSpec == BlockInit /\ [][BlockNext]_blockVars

------------------------------------------------------------------------------
(***************************************************************************)
(* Type invariant: the list holds headers, the counters fit their width.   *)
(***************************************************************************)
BlockTypeOK ==
  /\ blocks \in Seq([addr : Nat, size : Nat, used : BOOLEAN])
  /\ g_heapEnd \in Base .. Base + MaxPages * PAGE_SIZE
  /\ g_heapUsed \in 0 .. Word - 1
  /\ \A x \in live : x.ptr \in Nat /\ x.size \in Nat /\ x.align \in Nat /\ x.block \in Nat
  /\ lost \in 0 .. MaxPages * PAGE_SIZE
  /\ outcome \in {"none", "ok", "out of frames", "no block"}

\* w[1] + ... + w[n]
SumTo(w, n) ==
  LET sum[k \in 0 .. n] == IF k = 0 THEN 0 ELSE sum[k - 1] + w[k] IN sum[n]

TotalSize(bs) == SumTo([i \in DOMAIN bs |-> HeaderSize + bs[i].size], Len(bs))

UsedSize(bs) == SumTo([i \in DOMAIN bs |-> IF bs[i].used THEN bs[i].size ELSE 0], Len(bs))

(***************************************************************************)
(* Splitting, merging and growing account for every byte                   *)
(* (heap.cpp:78-127): headers and payloads add up to the mapped heap, less *)
(* the pages a failed grow_heap left outside every block.                  *)
(***************************************************************************)
NoByteLost == TotalSize(blocks) + lost = g_heapEnd - Base

(***************************************************************************)
(* The list stays in address order and blocks never reach into one another *)
(* or beyond the mapped end, even when a failed grow left a hole that a    *)
(* later one grows or merges over (heap.cpp:78-85, 111-126).               *)
(***************************************************************************)
BlocksDisjoint ==
  \A i \in DOMAIN blocks :
    /\ blocks[i].addr >= Base
    /\ block_end(blocks[i]) <= IF i < Len(blocks) THEN blocks[i + 1].addr ELSE g_heapEnd

(***************************************************************************)
(* Merging is complete (heap.cpp:119-125, 202-223): no two neighbours in   *)
(* the list are both free, so a free run is never found too small.         *)
(***************************************************************************)
NoFreeNeighbours ==
  \A i \in 1 .. Len(blocks) - 1 : blocks[i].used \/ blocks[i + 1].used

(***************************************************************************)
(* "Allocate 'size' bytes; alignment at least 'align'" (heap.hpp:18): what *)
(* a client holds is aligned and lies, with its back-pointer, in the       *)
(* payload of a used block that no other client holds.                     *)
(***************************************************************************)
AllocationsOwned ==
  \A x \in live :
    /\ x.ptr % x.align = 0
    /\ \A y \in live : x.block = y.block => x = y
    /\ \E i \in DOMAIN blocks :
         /\ blocks[i].addr = x.block /\ blocks[i].used
         /\ x.ptr - PointerSize >= payload_start(blocks[i])
         /\ x.ptr + x.size <= block_end(blocks[i])

(***************************************************************************)
(* "Currently live allocated bytes (payload only)" (heap.hpp:23): Used()   *)
(* is the payload of the used blocks, so neither Alloc nor Free drifts     *)
(* (heap.cpp:195, 213-214), and the clamp in Free is never needed.         *)
(***************************************************************************)
UsedExact == g_heapUsed = UsedSize(blocks)

(***************************************************************************)
(* The block list, the mapped end and the counter agree, after every       *)
(* sequence of Alloc and Free and every grow_heap that failed half way.    *)
(***************************************************************************)
HeapConsistent == BlockTypeOK /\ NoByteLost /\ BlocksDisjoint /\ UsedExact

(***************************************************************************)
(* A grow_heap that succeeds always makes room for the request that asked  *)
(* for it, worst-case alignment included: the second find_block of Alloc   *)
(* never fails (heap.cpp:180-189).                                         *)
(***************************************************************************)
GrowMakesRoom == outcome # "no block"
=============================================================================

---------------------------- MODULE KernelMemory ----------------------------
(***************************************************************************)
(* Physical frames, page tables and the pages of the kernel heap           *)
(* (memory/pmm.cpp, memory/paging.cpp, the page loops of memory/heap.cpp)  *)
(* with their clients: the ELF loader, the framebuffer and the SVGA upload *)
(* surface.  Addresses are counted in pages; physical frame f and virtual  *)
(* page f have the same address, so the identity map is pte[f] = f.        *)
(*                                                                         *)
(* Everything runs in the boot context, one call at a time.  A loop over   *)
(* pages is one step per page: growing and placing hold the pages still to *)
(* be added to the heap and to the upload surface, and no other call       *)
(* starts before they are used up.                                         *)
(***************************************************************************)
EXTENDS Integers, FiniteSets

CONSTANTS
  FrameCap,     (* g_frameCap: the frames the allocator manages             *)
  Reserved,     (* the frames PMM::Init marks: below 1 MiB and the kernel   *)
  IdLimit,      (* 64 MiB: pages below it are identity mapped at boot       *)
  TableSpan,    (* the pages one page table maps: 1024                      *)
  PageCap,      (* the virtual pages of the model                           *)
  HeapBase,     (* 0x02000000                                               *)
  HeapCap,      (* the heap stays below this page: 0x10000000, the devices  *)
  HeapInit,     (* the pages Heap::Init maps: 2                             *)
  MaxGrow,      (* the most pages one grow_heap call asks for               *)
  UserPages,    (* pages of program segments, linked at 0x01000000          *)
  DevicePages,  (* pages that device memory is mapped at                    *)
  UploadBase,   (* the first page of the upload surface: 0x13000000         *)
  UploadCap     (* the most pages an upload surface asks for                *)

Frame == 0 .. FrameCap - 1
Page  == 0 .. PageCap - 1
Dir   == {v \div TableSpan : v \in Page}

UploadPages == UploadBase .. UploadBase + UploadCap - 1

None   == -1          \* no frame: a cleared directory or table entry
Device == FrameCap    \* device memory, never a frame of the allocator

ASSUME MemoryConstants ==
  /\ FrameCap \in Nat \ {0} /\ PageCap \in Nat /\ TableSpan \in Nat \ {0}
  /\ IdLimit \in Nat /\ HeapBase \in Nat /\ HeapInit \in Nat /\ MaxGrow \in Nat
  /\ Reserved \subseteq Frame /\ 0 \in Reserved
  /\ IdLimit <= FrameCap /\ IdLimit <= PageCap
  /\ HeapCap \in Nat /\ HeapBase + HeapInit < HeapCap /\ HeapCap <= PageCap
  /\ UserPages \subseteq 0 .. HeapBase - 1
  /\ DevicePages \subseteq HeapCap .. PageCap - 1
  /\ UploadBase \in Nat /\ UploadCap \in Nat
  /\ HeapCap <= UploadBase /\ UploadBase + UploadCap <= PageCap

\* The frames below the identity map's end are enough for the page directory
\* and the tables of the identity map: 16 tables for 64 MiB.
ASSUME LowMemory ==
  Cardinality({f \in Frame \ Reserved : f < IdLimit})
    > Cardinality({v \div TableSpan : v \in 0 .. IdLimit - 1})

VARIABLES
  used,       (* the set bits of the frame bitmap                           *)
  freeFrames, (* g_freeFrames                                               *)
  pd,         (* the frame of the page directory                            *)
  table,      (* the frame of each page table                               *)
  pte,        (* the frame each page is mapped to                           *)
  booted,     (* the pages identity mapped so far                           *)
  paging,     (* CR0.PG                                                     *)
  heapEnd,    (* g_heapEnd                                                  *)
  growing,    (* the pages the running grow_heap or ensure still adds       *)
  upload,     (* upload_phys_pages: the frames behind the upload surface    *)
  placing,    (* the pages EnsureUploadSurface still maps                   *)
  stray       (* a page table was accessed where it is not mapped           *)

vars == <<used, freeFrames, pd, table, pte, booted, paging, heapEnd, growing,
          upload, placing, stray>>

(***************************************************************************)
(* PMM::AllocFrame: the first frame whose bit is clear in bitmap u.        *)
(***************************************************************************)
FirstFree(u) == CHOOSE f \in Frame \ u : \A g \in Frame \ u : f <= g

Full(u) == Frame \subseteq u

\* Faulty variant: the allocation does not mark the frame.
bsetLost(u, f) == u

bset(u, f) == u \cup {f}

\* Faulty variant: the allocation does not count the frame.
TakenLost(n) == n

Taken(n) == IF n > 0 THEN n - 1 ELSE n

(***************************************************************************)
(* A table is read and written at its physical address.                    *)
(***************************************************************************)
Reachable(p, t) == ~paging \/ p[t] = t

DirOf(v) == v \div TableSpan

\* ensureTable(v, true) finds or can make a table.  A first free frame beyond
\* the identity map is freed again, and is the first free frame of every retry.
CanMap(u, v) == table[DirOf(v)] # None \/ (~Full(u) /\ FirstFree(u) < IdLimit)

(***************************************************************************)
(* Paging::MapPage(v, f), from bitmap u, free count n and entries p.  The  *)
(* caller is not told when there is no table.                              *)
(***************************************************************************)
MapPage(u, n, p, v, f) ==
  LET new == table[DirOf(v)] = None
      t   == IF new THEN FirstFree(u) ELSE table[DirOf(v)]
  IN IF CanMap(u, v)
     THEN /\ used' = IF new THEN bset(u, t) ELSE u
          /\ freeFrames' = IF new THEN Taken(n) ELSE n
          /\ table' = [table EXCEPT ![DirOf(v)] = t]
          /\ pte' = [p EXCEPT ![v] = f]
          /\ stray' = (stray \/ ~Reachable(p, t))
     ELSE /\ used' = u /\ freeFrames' = n /\ pte' = p
          /\ UNCHANGED <<table, stray>>

------------------------------------------------------------------------------
Init ==
  /\ used = Reserved
  /\ freeFrames = Cardinality(Frame \ Reserved)
  /\ pd = None
  /\ table = [d \in Dir |-> None]
  /\ pte = [v \in Page |-> None]
  /\ booted = 0
  /\ paging = FALSE
  /\ heapEnd = HeapBase
  /\ growing = 0
  /\ upload = [v \in UploadPages |-> None]
  /\ placing = {}
  /\ stray = FALSE

\* Paging::Init, the directory; without a frame for it the boot ends here.
InitDirectory ==
  /\ pd = None /\ ~Full(used)
  /\ pd' = FirstFree(used)
  /\ used' = bset(used, FirstFree(used))
  /\ freeFrames' = Taken(freeFrames)
  /\ UNCHANGED <<table, pte, booted, paging, heapEnd, growing, upload, placing, stray>>

\* Paging::Init, one page of the identity map.
InitIdentity ==
  /\ pd # None /\ booted < IdLimit
  /\ MapPage(used, freeFrames, pte, booted, booted)
  /\ booted' = booted + 1
  /\ UNCHANGED <<pd, paging, heapEnd, growing, upload, placing>>

\* The end of Paging::Init, and Heap::Init's request for its first pages.
EnablePaging ==
  /\ pd # None /\ booted = IdLimit /\ ~paging
  /\ paging' = TRUE
  /\ growing' = IF HeapInit = 0 THEN 1 ELSE HeapInit
  /\ UNCHANGED <<used, freeFrames, pd, table, pte, booted, heapEnd, upload, placing,
                 stray>>

Ready == paging /\ growing = 0 /\ placing = {}

\* grow_heap, for a request of n pages.
GrowHeap(n) ==
  /\ Ready /\ heapEnd + n <= HeapCap
  /\ growing' = n
  /\ UNCHANGED <<used, freeFrames, pd, table, pte, booted, paging, heapEnd, upload, placing,
                 stray>>

\* Faulty variant: the end of the heap moves before the page is mapped.
AddHeapPageAfterMove ==
  /\ growing > 0 /\ ~Full(used)
  /\ LET f == FirstFree(used)
     IN MapPage(bset(used, f), Taken(freeFrames), pte, heapEnd + 1, f)
  /\ heapEnd' = heapEnd + 1
  /\ growing' = growing - 1
  /\ UNCHANGED <<pd, booted, paging, upload, placing>>

\* One turn of the loop of grow_heap and of Heap::ensure.
AddHeapPage ==
  /\ growing > 0 /\ ~Full(used)
  /\ LET f == FirstFree(used)
     IN MapPage(bset(used, f), Taken(freeFrames), pte, heapEnd, f)
  /\ heapEnd' = heapEnd + 1
  /\ growing' = growing - 1
  /\ UNCHANGED <<pd, booted, paging, upload, placing>>

\* Out of frames: the pages added so far stay with the heap.
HeapExhausted ==
  /\ growing > 0 /\ Full(used)
  /\ growing' = 0
  /\ UNCHANGED <<used, freeFrames, pd, table, pte, booted, paging, heapEnd, upload, placing,
                 stray>>

\* ELFLoader::LoadAndExecute, one page of a segment: what was mapped there is
\* unmapped and a fresh frame is mapped; the old frame is not given back.
LoadUserPage(v) ==
  LET present == table[DirOf(v)] # None
      p == IF present THEN [pte EXCEPT ![v] = None] ELSE pte
      lost == present /\ ~Reachable(pte, table[DirOf(v)])
  IN /\ Ready
     /\ IF Full(used) \/ lost
        THEN /\ pte' = p /\ stray' = (stray \/ lost)
             /\ UNCHANGED <<used, freeFrames, table>>
        ELSE LET f == FirstFree(used)
             IN MapPage(bset(used, f), Taken(freeFrames), p, v, f)
     /\ UNCHANGED <<pd, booted, paging, heapEnd, growing, upload, placing>>

\* Paging::MapRange of a framebuffer or FIFO, one page.
MapDevice(v) ==
  /\ Ready
  /\ MapPage(used, freeFrames, pte, v, Device)
  /\ UNCHANGED <<pd, booted, paging, heapEnd, growing, upload, placing>>

HasSurface == \E v \in UploadPages : upload[v] # None

\* EnsureUploadSurface makes a surface of n pages; an earlier one was released.
EnsureUploadSurface(n) ==
  /\ Ready /\ ~HasSurface
  /\ placing' = UploadBase .. UploadBase + n - 1
  /\ UNCHANGED <<used, freeFrames, pd, table, pte, booted, paging, heapEnd, growing,
                 upload, stray>>

\* One turn of its loop, for page v.
PlaceUpload(v) ==
  /\ v \in placing /\ (\A w \in placing : v <= w) /\ ~Full(used)
  /\ LET f == FirstFree(used)
     IN /\ MapPage(bset(used, f), Taken(freeFrames), pte, v, f)
        /\ upload' = [upload EXCEPT ![v] = f]
  /\ placing' = placing \ {v}
  /\ UNCHANGED <<pd, booted, paging, heapEnd, growing>>

\* Out of frames: the array of frames is dropped, the pages stay mapped.
UploadOutOfFrames ==
  /\ placing # {} /\ Full(used)
  /\ placing' = {}
  /\ upload' = [v \in UploadPages |-> None]
  /\ UNCHANGED <<used, freeFrames, pd, table, pte, booted, paging, heapEnd, growing, stray>>

\* ReleaseUploadSurface: the pages are unmapped, then PMM::FreeFrame of each frame.
ReleaseUploadSurface ==
  LET pages == {v \in UploadPages : upload[v] # None}
      frames == {upload[v] : v \in pages}
      present == {v \in pages : table[DirOf(v)] # None}
  IN /\ Ready /\ HasSurface
     /\ pte' = [v \in Page |-> IF v \in present THEN None ELSE pte[v]]
     /\ stray' = (stray \/ \E v \in present : ~Reachable(pte, table[DirOf(v)]))
     /\ used' = used \ frames
     /\ freeFrames' = freeFrames + Cardinality(frames \cap used)
     /\ upload' = [v \in UploadPages |-> None]
     /\ UNCHANGED <<pd, table, booted, paging, heapEnd, growing, placing>>

\* Behaviours end at a stray access: it overwrites memory of another owner.
Next ==
  /\ ~stray
  /\ \/ InitDirectory
     \/ InitIdentity
     \/ EnablePaging
     \/ \E n \in 1 .. MaxGrow : GrowHeap(n)
     \/ AddHeapPage
     \/ HeapExhausted
     \/ \E v \in UserPages : LoadUserPage(v)
     \/ \E v \in DevicePages : MapDevice(v)
     \/ \E n \in 1 .. UploadCap : EnsureUploadSurface(n)
     \/ \E v \in UploadPages : PlaceUpload(v)
     \/ UploadOutOfFrames
     \/ ReleaseUploadSurface

Spec == Init /\ [][Next]_vars

------------------------------------------------------------------------------
(***************************************************************************)
(* Type invariant: the bitmap, counters and entries are in range.          *)
(***************************************************************************)
TypeOK ==
  /\ used \subseteq Frame
  /\ freeFrames \in Nat
  /\ pd \in Frame \cup {None}
  /\ table \in [Dir -> Frame \cup {None}]
  /\ pte \in [Page -> Frame \cup {None, Device}]
  /\ booted \in 0 .. IdLimit
  /\ paging \in BOOLEAN
  /\ heapEnd \in HeapBase .. HeapCap
  /\ growing \in 0 .. HeapCap - heapEnd
  /\ upload \in [UploadPages -> Frame \cup {None}]
  /\ placing \subseteq UploadPages
  /\ stray \in BOOLEAN

(***************************************************************************)
(* The free counter never drifts from the bitmap, over allocations, failed *)
(* mappings and frees (pmm.cpp:106-128): FreeFrames() is the number of     *)
(* frames AllocFrame can still return.                                     *)
(***************************************************************************)
FreeCountExact == freeFrames = Cardinality(Frame \ used)

\* The pages that hold the data of someone: mapped, and not one to one.
Backed == {v \in Page : pte[v] \in Frame /\ pte[v] # v}

TableFrames == {table[d] : d \in Dir} \ {None}

(***************************************************************************)
(* A frame has one owner: no two pages of heap, programs and upload        *)
(* surface share a frame, and none of them is a page table, the page       *)
(* directory or a reserved frame -- whatever was mapped, remapped, failed  *)
(* or was freed before (pmm.cpp:106-128, paging.cpp:33-98, heap.cpp:106-   *)
(* 117, elfloader.cpp:73-100, vmsvga.cpp:276-286, 345-351).                *)
(***************************************************************************)
FramesHaveOneOwner ==
  /\ \A v, w \in Backed : pte[v] = pte[w] => v = w
  /\ \A d, e \in Dir : table[d] = table[e] /\ table[d] # None => d = e
  /\ \A v \in Backed : pte[v] \notin TableFrames \cup Reserved \cup {pd}
  /\ TableFrames \cap (Reserved \cup {pd}) = {}

(***************************************************************************)
(* While the heap stays inside the region whose tables Paging::Init made,  *)
(* each of its pages has a frame of its own, and not the one the identity  *)
(* map left there (heap.cpp:111-117, 160-169, paging.cpp:177-181).         *)
(***************************************************************************)
LowHeapOwned ==
  \A v \in HeapBase .. heapEnd - 1 :
    v < IdLimit =>
      /\ pte[v] \in used \ (Reserved \cup TableFrames \cup {pd})
      /\ \A w \in Backed \ {v} : pte[w] # pte[v]
=============================================================================

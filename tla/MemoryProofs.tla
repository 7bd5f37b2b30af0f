---------------------------- MODULE MemoryProofs ----------------------------
(***************************************************************************)
(* Proofs about the kernel's memory.  KernelMemory, for any memory size    *)
(* and layout that meets MemoryConstants: no frame ever has two owners,    *)
(* the free counter is exact, and the heap owns its pages while it stays   *)
(* in low memory.  Then Heap, for every header, page and threshold size    *)
(* and every set of requests that fits 32 bits: first the sums the         *)
(* accounts are made of; then, for each thing heap.cpp does to the list    *)
(* (cut a block in two, merge two, change one, add one at the end), what   *)
(* the new list is index by index and that it keeps the order, the         *)
(* completeness of merging and the sums; then the search and the sizes it  *)
(* computes; last the inductive invariant HeapInv, action by action.       *)
(***************************************************************************)
EXTENDS KernelMemory, Heap, FiniteSetTheorems, WellFoundedInduction, TLAPS

(***************************************************************************)
(* A non-empty set of natural numbers has a smallest element: the first    *)
(* free frame (pmm.cpp:106-120) is one.                                    *)
(***************************************************************************)
LEMMA MinimumExists ==
  ASSUME NEW T, T \subseteq Nat, T # {}
  PROVE  \E m \in T : \A n \in T : m <= n
<1> DEFINE Less == OpToRel(<, Nat)
<1>1. IsWellFoundedOn(Less, Nat)
  BY NatLessThanWellFounded
<1>2. \E x \in T : \A y \in T : ~ (<<y, x>> \in Less)
  <2> HIDE DEF Less
  <2> QED BY <1>1, WFMin
<1>3. PICK x \in T : \A y \in T : ~ (<<y, x>> \in Less)
  BY <1>2
<1>4. Less = {p \in Nat \X Nat : p[1] < p[2]}
  BY DEF OpToRel
<1>5. \A y \in T : x <= y
  <2> HIDE DEF Less
  <2>1. \A y \in T : ~ (y < x)
    BY <1>3, <1>4
  <2> QED BY <2>1
<1>6. QED
  BY <1>5

\* What is owned is marked in the bitmap, so no allocation returns it.
Covered ==
  /\ Reserved \subseteq used
  /\ pd # None => pd \in used \ Reserved
  /\ \A d \in Dir : table[d] # None => table[d] \in used
  /\ \A v \in Backed : pte[v] \in used

\* A frame of the upload surface is only its own, so it may be freed.
Uploads ==
  \A v \in UploadPages : upload[v] # None =>
    /\ upload[v] \in used \ (Reserved \cup {pd})
    /\ \A d \in Dir : table[d] # upload[v]
    /\ \A w \in UploadPages : upload[w] = upload[v] => w = v
    /\ \A w \in Backed : pte[w] = upload[v] => w = v

\* A mapped page has a table: without one, nothing is left to unmap.
Tabled == \A v \in Page : pte[v] # None => table[DirOf(v)] # None

\* The heap starts after paging is on.
Booting == ~paging => heapEnd = HeapBase /\ growing = 0

\* The part of the invariant that is about frames.
OwnerInv ==
  /\ used \subseteq Frame
  /\ pd \in Frame \cup {None}
  /\ table \in [Dir -> Frame \cup {None}]
  /\ pte \in [Page -> Frame \cup {None, Device}]
  /\ upload \in [UploadPages -> Frame \cup {None}]
  /\ FreeCountExact /\ FramesHaveOneOwner /\ Covered /\ Uploads /\ Tabled

MemInv == TypeOK /\ OwnerInv /\ Booting

(***************************************************************************)
(* None and Device are not frames, and a page has a directory entry        *)
(* (pmm.cpp:44-52, paging.cpp:33-40).                                      *)
(***************************************************************************)
LEMMA NotFrames ==
  /\ None \notin Frame /\ Device \notin Frame /\ None # Device
  /\ \A v \in Page : DirOf(v) \in Dir
  /\ Frame \subseteq Nat /\ IsFiniteSet(Frame)
<1>1. None \notin Frame /\ Device \notin Frame /\ None # Device /\ Frame \subseteq Nat
  BY MemoryConstants DEF None, Device, Frame
<1>2. IsFiniteSet(Frame)
  BY MemoryConstants, FS_Interval DEF Frame
<1>3. \A v \in Page : DirOf(v) \in Dir
  BY DEF Dir, DirOf
<1>4. QED
  BY <1>1, <1>2, <1>3

(***************************************************************************)
(* PMM::AllocFrame returns a frame that was free (pmm.cpp:106-120).        *)
(***************************************************************************)
LEMMA FirstFreeIsFree ==
  ASSUME NEW u, ~Full(u)
  PROVE  FirstFree(u) \in Frame \ u
<1>1. Frame \ u # {} /\ Frame \ u \subseteq Nat
  BY NotFrames DEF Full
<1>2. \E f \in Frame \ u : \A g \in Frame \ u : f <= g
  BY <1>1, MinimumExists
<1>3. QED
  BY <1>2 DEF FirstFree

(***************************************************************************)
(* Taking a free frame keeps the counter exact (pmm.cpp:110-116).          *)
(***************************************************************************)
LEMMA TakeFrame ==
  ASSUME NEW u, NEW f \in Frame \ u, NEW n, n = Cardinality(Frame \ u)
  PROVE  Taken(n) = Cardinality(Frame \ bset(u, f))
<1>1. IsFiniteSet(Frame \ u)
  BY NotFrames, FS_Difference
<1>2. Cardinality((Frame \ u) \ {f}) = Cardinality(Frame \ u) - 1
  BY <1>1, FS_RemoveElement
<1>3. Cardinality((Frame \ u) \ {f}) \in Nat /\ n \in Nat
  BY <1>1, FS_RemoveElement, FS_CardinalityType
<1>4. (Frame \ u) \ {f} = Frame \ bset(u, f)
  BY DEF bset
<1>5. n \in Nat /\ n - 1 \in Nat
  BY <1>2, <1>3
<1>6. Taken(n) = n - 1
  BY <1>5 DEF Taken
<1>7. QED
  BY <1>2, <1>4, <1>6

(***************************************************************************)
(* Freeing frames that were taken keeps the counter exact                  *)
(* (pmm.cpp:122-128).                                                      *)
(***************************************************************************)
LEMMA GiveFrames ==
  ASSUME NEW u, NEW fs, fs \subseteq Frame, fs \subseteq u
  PROVE  Cardinality(Frame \ (u \ fs)) = Cardinality(Frame \ u) + Cardinality(fs \cap u)
<1>1. IsFiniteSet(Frame \ u) /\ IsFiniteSet(fs)
  BY NotFrames, FS_Difference, FS_Subset
<1>2. Cardinality((Frame \ u) \cup fs)
        = Cardinality(Frame \ u) + Cardinality(fs) - Cardinality((Frame \ u) \cap fs)
  BY <1>1, FS_Union
<1>3. (Frame \ u) \cap fs = {} /\ fs \cap u = fs /\ (Frame \ u) \cup fs = Frame \ (u \ fs)
  OBVIOUS
<1>4. Cardinality({}) = 0 /\ Cardinality(fs) \in Nat /\ Cardinality(Frame \ u) \in Nat
  BY <1>1, FS_EmptySet, FS_CardinalityType
<1>5. Cardinality((Frame \ u) \cap fs) = 0
  BY <1>3, <1>4
<1>6. Cardinality((Frame \ u) \cup fs) = Cardinality(Frame \ u) + Cardinality(fs)
  BY <1>2, <1>4, <1>5
<1>7. QED
  BY <1>3, <1>6

\* A fresh frame at most becomes the page's table, and at most the page's own
\* entry changes.
Mapped(u, p, v, g) ==
  /\ used' \subseteq Frame /\ u \subseteq used'
  /\ freeFrames' = Cardinality(Frame \ used')
  /\ table' \in [Dir -> Frame \cup {None}]
  /\ pte' \in [Page -> Frame \cup {None, Device}]
  /\ \A d \in Dir :
       \/ table'[d] = table[d]
       \/ d = DirOf(v) /\ table[d] = None /\ table'[d] \in used' \ u
  /\ \A w \in Page \ {v} : pte'[w] = p[w]
  /\ \/ pte'[v] = p[v]
     \/ pte'[v] = g /\ table'[DirOf(v)] # None

(***************************************************************************)
(* What Paging::MapPage may do to bitmap, tables and entries               *)
(* (paging.cpp:33-98): at most one fresh frame becomes the page's table,   *)
(* and at most the page's own entry changes.                               *)
(***************************************************************************)
LEMMA MapPageEffect ==
  ASSUME NEW u, NEW n, NEW p, NEW v \in Page, NEW g,
         u \subseteq Frame, n = Cardinality(Frame \ u),
         table \in [Dir -> Frame \cup {None}],
         p \in [Page -> Frame \cup {None, Device}],
         g \in Frame \cup {Device},
         MapPage(u, n, p, v, g)
  PROVE  Mapped(u, p, v, g)
<1> USE NotFrames
<1>1. CASE ~CanMap(u, v)
  <2>1. used' = u /\ freeFrames' = n /\ pte' = p /\ table' = table
    BY <1>1 DEF MapPage
  <2>2. QED
    BY <2>1 DEF Mapped
<1>2. CASE CanMap(u, v) /\ table[DirOf(v)] # None
  <2>1. /\ used' = u /\ freeFrames' = n /\ pte' = [p EXCEPT ![v] = g]
        /\ table' = [table EXCEPT ![DirOf(v)] = table[DirOf(v)]]
    BY <1>2 DEF MapPage
  <2>2. table' = table
    BY <2>1
  <2>3. QED
    BY <1>2, <2>1, <2>2 DEF Mapped
<1>3. CASE CanMap(u, v) /\ table[DirOf(v)] = None
  <2> DEFINE t == FirstFree(u)
  <2>1. t \in Frame \ u
    BY <1>3, FirstFreeIsFree DEF CanMap
  <2>2. /\ used' = bset(u, t) /\ freeFrames' = Taken(n)
        /\ pte' = [p EXCEPT ![v] = g]
        /\ table' = [table EXCEPT ![DirOf(v)] = t]
    BY <1>3 DEF MapPage
  <2>3. freeFrames' = Cardinality(Frame \ used')
    BY <2>1, <2>2, TakeFrame
  <2> HIDE DEF t
  <2>4. used' = u \cup {t}
    BY <2>2 DEF bset
  <2>5. QED
    BY <1>3, <2>1, <2>2, <2>3, <2>4 DEF Mapped
<1>4. QED
  BY <1>1, <1>2, <1>3

(***************************************************************************)
(* A mapping of a fresh frame, of device memory or of the page's own       *)
(* address keeps every frame with one owner (paging.cpp:83-98); upload     *)
(* records the frame when the page is one of the upload surface.           *)
(***************************************************************************)
LEMMA MapKeepsOwners ==
  ASSUME OwnerInv, NEW v \in Page, NEW u, NEW n, NEW p, NEW g,
         \/ g \in Frame \ used /\ u = used \cup {g}
         \/ g = Device /\ u = used
         \/ g = v /\ g \in Frame /\ u = used,
         n = Cardinality(Frame \ u),
         p = pte \/ p = [pte EXCEPT ![v] = None],
         MapPage(u, n, p, v, g),
         pd' = pd,
         \/ upload' = upload
         \/ /\ v \in UploadPages /\ g \in Frame \ used /\ u = used \cup {g}
            /\ upload' = [upload EXCEPT ![v] = g]
  PROVE  OwnerInv'
<1> USE NotFrames
<1>1. u \subseteq Frame /\ g \in Frame \cup {Device} /\ used \subseteq u
  BY DEF OwnerInv
<1>2. p \in [Page -> Frame \cup {None, Device}]
  BY DEF OwnerInv
<1>3. table \in [Dir -> Frame \cup {None}]
  BY DEF OwnerInv
<1>4. /\ used' \subseteq Frame /\ u \subseteq used'
      /\ freeFrames' = Cardinality(Frame \ used')
      /\ table' \in [Dir -> Frame \cup {None}]
      /\ pte' \in [Page -> Frame \cup {None, Device}]
      /\ \A d \in Dir :
           \/ table'[d] = table[d]
           \/ d = DirOf(v) /\ table[d] = None /\ table'[d] \in used' \ u
      /\ \A w \in Page \ {v} : pte'[w] = p[w]
      /\ \/ pte'[v] = p[v]
         \/ pte'[v] = g /\ table'[DirOf(v)] # None
  <2>1. Mapped(u, p, v, g)
    BY <1>1, <1>2, <1>3, MapPageEffect
  <2>2. QED
    BY <2>1 DEF Mapped
\* A page that holds data held the same before, or holds the fresh frame.
<1>5. \A w \in Backed' :
        /\ w \in Page
        /\ \/ w \in Backed /\ pte'[w] = pte[w]
           \/ w = v /\ pte'[w] = g /\ g \in u \ used
  <2> SUFFICES ASSUME NEW w \in Page, pte'[w] \in Frame, pte'[w] # w
               PROVE  \/ w \in Backed /\ pte'[w] = pte[w]
                      \/ w = v /\ pte'[w] = g /\ g \in u \ used
    BY DEF Backed
  <2>1. CASE w # v
    BY <1>4, <2>1 DEF Backed, OwnerInv
  <2>2. CASE w = v
    <3>1. p[v] = pte[v] \/ p[v] = None
      BY DEF OwnerInv
    <3>2. QED
      BY <1>4, <2>2, <3>1 DEF Backed
  <2>3. QED
    BY <2>1, <2>2
\* A table is the one from before, or a frame nobody had.
<1>6. \A d \in Dir :
        \/ table'[d] = table[d]
        \/ d = DirOf(v) /\ table[d] = None /\ table'[d] \in used' \ u
  BY <1>4
<1>7. g \in u \ used => g \in Frame /\ g \notin used
  BY <1>1
<1>8. Covered'
  BY <1>1, <1>4, <1>5, <1>6 DEF OwnerInv, Covered
<1>9. FramesHaveOneOwner'
  <2>1. \A w, x \in Backed' : pte'[w] = pte'[x] => w = x
    BY <1>5, <1>7 DEF OwnerInv, FramesHaveOneOwner, Covered
  <2>2. \A d, e \in Dir : table'[d] = table'[e] /\ table'[d] # None => d = e
    BY <1>1, <1>6 DEF OwnerInv, FramesHaveOneOwner, Covered
  <2>3. \A w \in Backed', d \in Dir : pte'[w] # table'[d]
    <3> SUFFICES ASSUME NEW w \in Backed', NEW d \in Dir PROVE pte'[w] # table'[d]
      OBVIOUS
    <3>1. pte'[w] \in u
      BY <1>1, <1>5 DEF OwnerInv, Covered
    <3>2. CASE table'[d] \in used' \ u
      BY <3>1, <3>2
    <3>3. CASE table'[d] = table[d]
      <4>1. w \in Backed => pte[w] # table[d]
        <5>1. w \in Backed => pte[w] \in Frame
          BY DEF Backed
        <5>2. QED
          BY <5>1 DEF OwnerInv, FramesHaveOneOwner, TableFrames
      <4>2. g \in u \ used => g # table[d]
        BY <1>3, <1>7 DEF OwnerInv, Covered
      <4>3. QED
        BY <1>5, <3>3, <4>1, <4>2
    <3>4. QED
      BY <1>6, <3>2, <3>3
  <2>4. \A w \in Backed' : pte'[w] \notin Reserved \cup {pd}
    BY <1>5, <1>7 DEF OwnerInv, FramesHaveOneOwner, Covered
  <2>5. \A d \in Dir : table'[d] # None => table'[d] \notin Reserved \cup {pd}
    <3>1. \A d \in Dir : table[d] # None => table[d] \notin Reserved \cup {pd}
      BY DEF OwnerInv, FramesHaveOneOwner, TableFrames
    <3>2. \A x : x \notin used /\ x \in Frame => x \notin Reserved \cup {pd}
      BY DEF OwnerInv, Covered
    <3>3. \A d \in Dir : table'[d] = table[d] \/ (table'[d] \notin used /\ table'[d] \in Frame)
      BY <1>1, <1>4, <1>6
    <3>4. QED
      BY <3>1, <3>2, <3>3
  <2>6. QED
    BY <2>1, <2>2, <2>3, <2>4, <2>5 DEF FramesHaveOneOwner, TableFrames
<1>10. Tabled'
  <2> SUFFICES ASSUME NEW w \in Page, pte'[w] # None
               PROVE  table'[DirOf(w)] # None
    BY DEF Tabled
  <2>1. DirOf(w) \in Dir
    OBVIOUS
  <2>2. pte[w] # None \/ (w = v /\ table'[DirOf(v)] # None)
    BY <1>4 DEF OwnerInv
  <2>3. pte[w] # None => table[DirOf(w)] # None
    BY DEF OwnerInv, Tabled
  <2>4. QED
    BY <1>4, <1>6, <2>1, <2>2, <2>3
<1>11. upload' \in [UploadPages -> Frame \cup {None}]
  BY DEF OwnerInv
<1>12. Uploads'
  <2> SUFFICES ASSUME NEW w \in UploadPages, upload'[w] # None
               PROVE  /\ upload'[w] \in used' \ (Reserved \cup {pd})
                      /\ \A d \in Dir : table'[d] # upload'[w]
                      /\ \A x \in UploadPages : upload'[x] = upload'[w] => x = w
                      /\ \A x \in Backed' : pte'[x] = upload'[w] => x = w
    BY DEF Uploads
  <2>1. CASE upload'[w] = upload[w]
    <3>1. /\ upload[w] \in used \ (Reserved \cup {pd})
          /\ \A d \in Dir : table[d] # upload[w]
          /\ \A x \in UploadPages : upload[x] = upload[w] => x = w
          /\ \A x \in Backed : pte[x] = upload[w] => x = w
      BY <2>1 DEF OwnerInv, Uploads
    <3>2. \A x \in UploadPages : upload'[x] = upload[x] \/ upload'[x] \in Frame \ used
      BY DEF OwnerInv
    <3>3. QED
      BY <1>1, <1>4, <1>5, <1>6, <2>1, <3>1, <3>2
  <2>2. CASE upload'[w] # upload[w]
    <3> /\ upload' = [upload EXCEPT ![v] = g]
        /\ g \in Frame \ used /\ u = used \cup {g} /\ v \in UploadPages
      BY <2>2
    <3> upload \in [UploadPages -> Frame \cup {None}]
      BY DEF OwnerInv
    <3>1. /\ w = v /\ upload'[w] = g /\ g \in Frame \ used /\ g \in u
          /\ \A x \in UploadPages \ {w} : upload'[x] = upload[x]
      BY <2>2
    <3>2. g \in used' \ (Reserved \cup {pd})
      BY <1>4, <3>1 DEF OwnerInv, Covered
    <3>3. \A d \in Dir : table'[d] # g
      BY <1>3, <1>6, <3>1 DEF OwnerInv, Covered
    <3>4. \A x \in UploadPages : upload'[x] = g => x = w
      BY <3>1 DEF OwnerInv, Uploads
    <3>5. \A x \in Backed' : pte'[x] = g => x = w
      BY <1>5, <3>1 DEF OwnerInv, Covered
    <3>6. QED
      BY <3>1, <3>2, <3>3, <3>4, <3>5
  <2>3. QED
    BY <2>1, <2>2
<1>13. QED
  BY <1>4, <1>8, <1>9, <1>10, <1>11, <1>12 DEF OwnerInv, FreeCountExact

(***************************************************************************)
(* PMM::AllocFrame, then Paging::MapPage of the frame: the page loop of    *)
(* the heap, of the ELF loader and of the upload surface (heap.cpp:111-    *)
(* 117, elfloader.cpp:91-100, vmsvga.cpp:345-351).                         *)
(***************************************************************************)
LEMMA AllocKeepsOwners ==
  ASSUME OwnerInv, NEW v \in Page, NEW p, NEW f, f = FirstFree(used), ~Full(used),
         p = pte \/ p = [pte EXCEPT ![v] = None],
         MapPage(bset(used, f), Taken(freeFrames), p, v, f),
         pd' = pd,
         upload' = upload \/ (v \in UploadPages /\ upload' = [upload EXCEPT ![v] = f])
  PROVE  OwnerInv'
<1> DEFINE u == bset(used, f)
           n == Taken(freeFrames)
<1>1. f \in Frame \ used
  BY FirstFreeIsFree
<1>2. u = used \cup {f}
  BY DEF bset
<1>3. n = Cardinality(Frame \ u)
  BY <1>1, TakeFrame DEF OwnerInv, FreeCountExact
<1>4. MapPage(u, n, p, v, f)
  OBVIOUS
<1> HIDE DEF u, n
<1>5. QED
  BY <1>1, <1>2, <1>3, <1>4, MapKeepsOwners

(***************************************************************************)
(* Paging::UnmapPage alone leaves every other owner as it was              *)
(* (paging.cpp:100-107).                                                   *)
(***************************************************************************)
LEMMA UnmapKeepsOwners ==
  ASSUME OwnerInv, NEW v \in Page, pte' = pte \/ pte' = [pte EXCEPT ![v] = None],
         used' = used, freeFrames' = freeFrames, pd' = pd, table' = table,
         upload' = upload
  PROVE  OwnerInv'
<1>1. pte' \in [Page -> Frame \cup {None, Device}]
  BY DEF OwnerInv
<1>2. \A w \in Page : pte'[w] = pte[w] \/ pte'[w] = None
  BY DEF OwnerInv
<1>3. \A w \in Backed' : w \in Backed /\ pte'[w] = pte[w]
  BY <1>2, NotFrames DEF Backed
<1>4. TableFrames' = TableFrames
  BY DEF TableFrames
<1>5. FramesHaveOneOwner'
  BY <1>3, <1>4 DEF OwnerInv, FramesHaveOneOwner
<1>6. Covered' /\ Uploads'
  BY <1>3 DEF OwnerInv, Covered, Uploads
<1>7. Tabled'
  BY <1>2 DEF OwnerInv, Tabled
<1>8. QED
  BY <1>1, <1>5, <1>6, <1>7 DEF OwnerInv, FreeCountExact

(***************************************************************************)
(* The frame of the page directory is nobody else's (paging.cpp:168-176).  *)
(***************************************************************************)
LEMMA DirectoryKeepsOwners ==
  ASSUME OwnerInv, InitDirectory
  PROVE  OwnerInv'
<1> DEFINE f == FirstFree(used)
<1>1. f \in Frame \ used
  BY FirstFreeIsFree DEF InitDirectory
<1>2. freeFrames' = Cardinality(Frame \ used')
  BY <1>1, TakeFrame DEF InitDirectory, OwnerInv, FreeCountExact
<1>3. pd = None /\ pd' = f /\ used' = used \cup {f}
  BY DEF InitDirectory, bset
<1>4. table' = table /\ pte' = pte /\ upload' = upload
  BY DEF InitDirectory
<1> HIDE DEF f
<1>5. Backed' = Backed /\ TableFrames' = TableFrames
  BY <1>4 DEF Backed, TableFrames
<1>6. f \notin TableFrames /\ f \notin Reserved /\ \A w \in Backed : pte[w] # f
  BY <1>1 DEF OwnerInv, Covered, TableFrames
<1>7. FramesHaveOneOwner'
  BY <1>3, <1>4, <1>5, <1>6 DEF OwnerInv, FramesHaveOneOwner
<1>8. Covered'
  BY <1>1, <1>3, <1>4, <1>5, <1>6 DEF OwnerInv, Covered
<1>9. Uploads'
  BY <1>1, <1>3, <1>4, <1>5 DEF OwnerInv, Uploads
<1>10. Tabled'
  BY <1>4 DEF OwnerInv, Tabled
<1>11. QED
  BY <1>1, <1>2, <1>3, <1>4, <1>7, <1>8, <1>9, <1>10 DEF OwnerInv, FreeCountExact

(***************************************************************************)
(* The frames of a released upload surface are not in use by anyone else   *)
(* when PMM::FreeFrame clears their bits (vmsvga.cpp:276-286).             *)
(***************************************************************************)
LEMMA ReleaseKeepsOwners ==
  ASSUME OwnerInv, ReleaseUploadSurface
  PROVE  OwnerInv'
<1> DEFINE pages == {v \in UploadPages : upload[v] # None}
           frames == {upload[v] : v \in pages}
           present == {v \in pages : table[DirOf(v)] # None}
<1>0. UploadPages \subseteq Page
  BY MemoryConstants DEF Page, UploadPages
<1>1. /\ used' = used \ frames /\ pd' = pd /\ table' = table
      /\ upload' = [v \in UploadPages |-> None]
      /\ freeFrames' = freeFrames + Cardinality(frames \cap used)
      /\ pte' = [v \in Page |-> IF v \in present THEN None ELSE pte[v]]
  BY DEF ReleaseUploadSurface
<1>2. \A v \in pages :
        /\ upload[v] \in used \ (Reserved \cup {pd}) /\ upload[v] \in Frame
        /\ \A d \in Dir : table[d] # upload[v]
        /\ \A w \in Backed : pte[w] = upload[v] => w = v
  BY DEF OwnerInv, Uploads
<1>3. pte' \in [Page -> Frame \cup {None, Device}]
  BY <1>1 DEF OwnerInv
<1>4. \A v \in pages : pte'[v] = None
  BY <1>0, <1>1 DEF OwnerInv, Tabled
<1>5. \A v \in Page : pte'[v] = pte[v] \/ pte'[v] = None
  BY <1>1
<1>6. /\ frames \subseteq used /\ frames \subseteq Frame /\ frames \cap Reserved = {}
      /\ pd \notin frames
      /\ \A d \in Dir : table[d] \notin frames
  BY <1>2
<1>7. freeFrames' = Cardinality(Frame \ used')
  BY <1>1, <1>6, GiveFrames DEF OwnerInv, FreeCountExact
<1>8. \A w \in Backed' : w \in Backed /\ pte'[w] = pte[w] /\ pte[w] \notin frames
  <2> SUFFICES ASSUME NEW w \in Page, pte'[w] \in Frame, pte'[w] # w
               PROVE  w \in Backed /\ pte'[w] = pte[w] /\ pte[w] \notin frames
    BY DEF Backed
  <2>1. w \in Backed /\ pte'[w] = pte[w]
    BY <1>5, NotFrames DEF Backed
  <2>2. w \notin pages
    BY <1>4, NotFrames
  <2>3. QED
    BY <1>2, <2>1, <2>2
<1> HIDE DEF pages, frames, present
<1>9. TableFrames' = TableFrames
  BY <1>1 DEF TableFrames
<1>10. FramesHaveOneOwner'
  BY <1>1, <1>8, <1>9 DEF OwnerInv, FramesHaveOneOwner
<1>11. Covered'
  BY <1>1, <1>6, <1>8 DEF OwnerInv, Covered
<1>12. upload' \in [UploadPages -> Frame \cup {None}] /\ Uploads'
  BY <1>1 DEF Uploads
<1>13. Tabled'
  BY <1>1, <1>5 DEF OwnerInv, Tabled
<1>14. used' \subseteq Frame /\ pd' \in Frame \cup {None}
       /\ table' \in [Dir -> Frame \cup {None}]
  BY <1>1 DEF OwnerInv
<1>15. QED
  BY <1>3, <1>7, <1>10, <1>11, <1>12, <1>13, <1>14 DEF OwnerInv, FreeCountExact

(***************************************************************************)
(* A surface given up half way leaves its frames marked, and to no one     *)
(* else (vmsvga.cpp:345-348).                                              *)
(***************************************************************************)
LEMMA DropKeepsOwners ==
  ASSUME OwnerInv, UploadOutOfFrames
  PROVE  OwnerInv'
<1>1. /\ used' = used /\ freeFrames' = freeFrames /\ pd' = pd /\ table' = table
      /\ pte' = pte /\ upload' = [v \in UploadPages |-> None]
  BY DEF UploadOutOfFrames
<1>2. Backed' = Backed /\ TableFrames' = TableFrames
  BY <1>1 DEF Backed, TableFrames
<1>3. Uploads' /\ upload' \in [UploadPages -> Frame \cup {None}]
  BY <1>1 DEF Uploads
<1>4. FramesHaveOneOwner' /\ Covered' /\ Tabled'
  BY <1>1, <1>2 DEF OwnerInv, FramesHaveOneOwner, Covered, Tabled
<1>5. QED
  BY <1>1, <1>3, <1>4 DEF OwnerInv, FreeCountExact

(***************************************************************************)
(* Every step keeps the owners apart: one case per operation of the        *)
(* allocator, the page tables and their clients (pmm.cpp:106-128,          *)
(* paging.cpp:33-204, heap.cpp:106-169, elfloader.cpp:73-143,              *)
(* vmsvga.cpp:276-359).                                                    *)
(***************************************************************************)
LEMMA StepKeepsOwners ==
  ASSUME MemInv, [Next]_vars
  PROVE  OwnerInv'
<1> SUFFICES ASSUME Next PROVE OwnerInv'
  BY DEF vars, MemInv, OwnerInv, FreeCountExact, FramesHaveOneOwner, Covered, Uploads,
         Tabled, Backed, TableFrames
<1>0. OwnerInv
  BY DEF MemInv
<1>1. CASE InitDirectory
  BY <1>0, <1>1, DirectoryKeepsOwners
<1>2. CASE InitIdentity
  <2>1. booted \in Page /\ booted \in Frame
    BY <1>2, MemoryConstants DEF MemInv, TypeOK, InitIdentity, Page, Frame
  <2>2. /\ MapPage(used, freeFrames, pte, booted, booted)
        /\ pd' = pd /\ upload' = upload
    BY <1>2 DEF InitIdentity
  <2>3. freeFrames = Cardinality(Frame \ used)
    BY <1>0 DEF OwnerInv, FreeCountExact
  <2>4. QED
    BY <1>0, <2>1, <2>2, <2>3, MapKeepsOwners
<1>3. CASE \/ EnablePaging \/ HeapExhausted
           \/ \E n \in 1 .. MaxGrow : GrowHeap(n)
           \/ \E n \in 1 .. UploadCap : EnsureUploadSurface(n)
  <2>1. UNCHANGED <<used, freeFrames, pd, table, pte, upload>>
    BY <1>3 DEF EnablePaging, HeapExhausted, GrowHeap, EnsureUploadSurface
  <2>2. QED
    BY <1>0, <2>1 DEF OwnerInv, FreeCountExact, FramesHaveOneOwner, Covered, Uploads,
       Tabled, Backed, TableFrames
<1>4. CASE AddHeapPage
  <2>1. heapEnd \in Page
    BY <1>4, MemoryConstants DEF MemInv, TypeOK, AddHeapPage, Page
  <2>2. ~Full(used) /\ pd' = pd /\ upload' = upload
    BY <1>4 DEF AddHeapPage
  <2>3. PICK f : /\ f = FirstFree(used)
                 /\ MapPage(bset(used, f), Taken(freeFrames), pte, heapEnd, f)
    BY <1>4 DEF AddHeapPage
  <2>4. QED
    BY <1>0, <2>1, <2>2, <2>3, AllocKeepsOwners
<1>5. ASSUME NEW v \in UserPages, LoadUserPage(v) PROVE OwnerInv'
  <2>1. v \in Page
    BY MemoryConstants DEF Page
  <2>2. PICK p : /\ p = IF table[DirOf(v)] # None THEN [pte EXCEPT ![v] = None] ELSE pte
                 /\ \/ /\ pte' = p /\ used' = used /\ freeFrames' = freeFrames
                       /\ table' = table
                    \/ /\ ~Full(used)
                       /\ LET f == FirstFree(used)
                          IN MapPage(bset(used, f), Taken(freeFrames), p, v, f)
    BY <1>5 DEF LoadUserPage
  <2>3. p = pte \/ p = [pte EXCEPT ![v] = None]
    BY <2>2
  <2>4. pd' = pd /\ upload' = upload
    BY <1>5 DEF LoadUserPage
  <2>5. CASE pte' = p /\ used' = used /\ freeFrames' = freeFrames /\ table' = table
    BY <1>0, <2>1, <2>3, <2>4, <2>5, UnmapKeepsOwners
  <2>6. ASSUME ~Full(used), NEW f, f = FirstFree(used),
               MapPage(bset(used, f), Taken(freeFrames), p, v, f)
        PROVE  OwnerInv'
    BY <1>0, <2>1, <2>3, <2>4, <2>6, AllocKeepsOwners
  <2>7. QED
    BY <2>2, <2>5, <2>6
<1>6. ASSUME NEW v \in DevicePages, MapDevice(v) PROVE OwnerInv'
  <2>1. v \in Page
    BY MemoryConstants DEF Page
  <2>2. /\ MapPage(used, freeFrames, pte, v, Device)
        /\ pd' = pd /\ upload' = upload
    BY <1>6 DEF MapDevice
  <2>3. freeFrames = Cardinality(Frame \ used)
    BY <1>0 DEF OwnerInv, FreeCountExact
  <2>4. QED
    BY <1>0, <2>1, <2>2, <2>3, MapKeepsOwners
<1>7. ASSUME NEW v \in UploadPages, PlaceUpload(v) PROVE OwnerInv'
  <2>1. v \in Page
    BY MemoryConstants DEF Page, UploadPages
  <2>2. ~Full(used) /\ pd' = pd
    BY <1>7 DEF PlaceUpload
  <2>3. PICK f : /\ f = FirstFree(used)
                 /\ MapPage(bset(used, f), Taken(freeFrames), pte, v, f)
                 /\ upload' = [upload EXCEPT ![v] = f]
    BY <1>7 DEF PlaceUpload
  <2>4. QED
    BY <1>0, <2>1, <2>2, <2>3, AllocKeepsOwners
<1>8. CASE ReleaseUploadSurface \/ UploadOutOfFrames
  BY <1>0, <1>8, ReleaseKeepsOwners, DropKeepsOwners
<1>9. QED
  BY <1>1, <1>2, <1>3, <1>4, <1>5, <1>6, <1>7, <1>8 DEF Next

(***************************************************************************)
(* Every step keeps the counters of the boot loops and of the heap in      *)
(* range (paging.cpp:177-181, heap.cpp:106-117, 160-169).                  *)
(***************************************************************************)
LEMMA StepKeepsTypes ==
  ASSUME MemInv, [Next]_vars
  PROVE  TypeOK' /\ Booting'
<1>1. OwnerInv'
  BY StepKeepsOwners
<1>2. freeFrames' \in Nat
  <2>1. IsFiniteSet(Frame \ used')
    BY NotFrames, FS_Difference
  <2>2. freeFrames' = Cardinality(Frame \ used')
    BY <1>1 DEF OwnerInv, FreeCountExact
  <2>3. QED
    BY <2>1, <2>2, FS_CardinalityType
<1>3. /\ booted' \in 0 .. IdLimit /\ heapEnd' \in HeapBase .. HeapCap
      /\ growing' \in 0 .. HeapCap - heapEnd'
      /\ (paging' = paging \/ paging') /\ Booting'
  <2> USE MemoryConstants DEF MemInv, TypeOK, Booting
  <2>1. CASE InitDirectory
    BY <2>1 DEF InitDirectory
  <2>2. CASE InitIdentity
    BY <2>2 DEF InitIdentity
  <2>3. CASE EnablePaging
    BY <2>3 DEF EnablePaging
  <2>4. CASE \E n \in 1 .. MaxGrow : GrowHeap(n)
    BY <2>4 DEF GrowHeap, Ready
  <2>5. CASE AddHeapPage
    BY <2>5 DEF AddHeapPage
  <2>6. CASE HeapExhausted
    BY <2>6 DEF HeapExhausted
  <2>7. CASE \/ \E v \in UserPages : LoadUserPage(v)
             \/ \E v \in DevicePages : MapDevice(v)
             \/ \E n \in 1 .. UploadCap : EnsureUploadSurface(n)
             \/ \E v \in UploadPages : PlaceUpload(v)
             \/ UploadOutOfFrames \/ ReleaseUploadSurface
             \/ UNCHANGED vars
    BY <2>7 DEF LoadUserPage, MapDevice, EnsureUploadSurface, PlaceUpload,
       UploadOutOfFrames, ReleaseUploadSurface, vars
  <2>8. QED
    BY <2>1, <2>2, <2>3, <2>4, <2>5, <2>6, <2>7 DEF Next
<1>4. paging' \in BOOLEAN
  BY <1>3 DEF MemInv, TypeOK
<1>5. stray' \in BOOLEAN
  BY DEF Next, vars, MemInv, TypeOK, InitDirectory, InitIdentity, EnablePaging, GrowHeap,
     AddHeapPage, HeapExhausted, LoadUserPage, MapDevice, EnsureUploadSurface,
     PlaceUpload, UploadOutOfFrames, ReleaseUploadSurface, MapPage
<1>6. placing' \subseteq UploadPages
  <2>1. \A n \in 1 .. UploadCap : UploadBase .. UploadBase + n - 1 \subseteq UploadPages
    BY MemoryConstants DEF UploadPages
  <2>2. \/ placing' = placing \/ placing' = {} \/ \E v : placing' = placing \ {v}
        \/ \E n \in 1 .. UploadCap : placing' = UploadBase .. UploadBase + n - 1
    BY DEF Next, vars, InitDirectory, InitIdentity, EnablePaging, GrowHeap, AddHeapPage,
       HeapExhausted, LoadUserPage, MapDevice, EnsureUploadSurface, PlaceUpload,
       UploadOutOfFrames, ReleaseUploadSurface
  <2>3. QED
    BY <2>1, <2>2 DEF MemInv, TypeOK
<1>7. QED
  BY <1>1, <1>2, <1>3, <1>4, <1>5, <1>6 DEF TypeOK, OwnerInv

(***************************************************************************)
(* The inductive invariant of the kernel's memory: owned frames are marked *)
(* in the bitmap and owned once, for every memory size and layout.         *)
(***************************************************************************)
THEOREM MemoryInvariant == Spec => []MemInv
<1>1. Init => MemInv
  <2> SUFFICES ASSUME Init PROVE MemInv
    OBVIOUS
  <2> USE NotFrames DEF Init
  <2>1. IsFiniteSet(Frame \ Reserved) /\ freeFrames \in Nat
    BY FS_Difference, FS_CardinalityType
  <2>2. Backed = {} /\ TableFrames = {}
    BY DEF Backed, TableFrames
  <2>3. FreeCountExact /\ FramesHaveOneOwner /\ Covered /\ Uploads /\ Tabled
    BY <2>2, MemoryConstants DEF FreeCountExact, FramesHaveOneOwner, Covered, Uploads,
       Tabled
  <2>4. TypeOK
    <3>1. /\ used \subseteq Frame /\ freeFrames \in Nat /\ pd \in Frame \cup {None}
          /\ table \in [Dir -> Frame \cup {None}]
          /\ pte \in [Page -> Frame \cup {None, Device}]
          /\ upload \in [UploadPages -> Frame \cup {None}]
      BY <2>1, MemoryConstants
    <3> placing \subseteq UploadPages
      OBVIOUS
    <3>2. /\ booted \in 0 .. IdLimit /\ heapEnd \in HeapBase .. HeapCap
          /\ growing \in 0 .. HeapCap - heapEnd
      BY MemoryConstants
    <3>3. paging \in BOOLEAN /\ stray \in BOOLEAN
      OBVIOUS
    <3>4. QED
      BY <3>1, <3>2, <3>3 DEF TypeOK
  <2>5. QED
    BY <2>3, <2>4 DEF MemInv, OwnerInv, TypeOK, Booting
<1>2. MemInv /\ [Next]_vars => MemInv'
  BY StepKeepsOwners, StepKeepsTypes DEF MemInv
<1>3. QED
  BY <1>1, <1>2, PTL DEF Spec

(***************************************************************************)
(* The type invariant of the allocator and the page tables (pmm.cpp:33-86, *)
(* paging.cpp:168-204).                                                    *)
(***************************************************************************)
THEOREM MemoryTypeCorrect == Spec => []TypeOK
<1>1. MemInv => TypeOK
  BY DEF MemInv
<1>2. QED
  BY <1>1, MemoryInvariant, PTL

(***************************************************************************)
(* No frame ever has two owners: heap, program and upload pages, page      *)
(* tables, the page directory and the reserved frames stay apart           *)
(* (pmm.cpp:106-128, paging.cpp:33-98).                                    *)
(***************************************************************************)
THEOREM MemoryOwners == Spec => []FramesHaveOneOwner
<1>1. MemInv => FramesHaveOneOwner
  BY DEF MemInv, OwnerInv
<1>2. QED
  BY <1>1, MemoryInvariant, PTL

(***************************************************************************)
(* The counter FreeFrames() reports is the number of clear bits, also      *)
(* after failed mappings and frees (pmm.cpp:106-128).                      *)
(***************************************************************************)
THEOREM MemoryFreeCount == Spec => []FreeCountExact
<1>1. MemInv => FreeCountExact
  BY DEF MemInv, OwnerInv
<1>2. QED
  BY <1>1, MemoryInvariant, PTL

------------------------------------------------------------------------------
\* The directory entries of the identity map.
LowDirs == {v \div TableSpan : v \in 0 .. IdLimit - 1}

\* Page v has a frame that is nobody else's.
OwnFrame(v) ==
  /\ pte[v] \in used \ (Reserved \cup {pd})
  /\ \A d \in Dir : table[d] # pte[v]
  /\ \A w \in Backed : w # v => pte[w] # pte[v]
  /\ \A w \in UploadPages : upload[w] # pte[v]

\* The heap's pages below the end of the identity map have frames of their own.
LowHeap == \A v \in HeapBase .. heapEnd - 1 : v < IdLimit => OwnFrame(v)

\* Pages mapped at boot have tables.
BootTables == \A v \in 0 .. booted - 1 : table[DirOf(v)] # None

\* Until paging is on, only the directory and tables of the identity map took
\* frames.
BootFrames ==
  /\ paging => pd # None /\ booted = IdLimit
  /\ ~paging => /\ placing = {}
                /\ \A d \in Dir : table[d] # None => d \in LowDirs
                /\ used \subseteq Reserved \cup {pd} \cup TableFrames

LowInv == BootTables /\ BootFrames /\ LowHeap

(***************************************************************************)
(* The values of a function over a finite set are no more than its         *)
(* arguments: the page tables are no more than the directory entries that  *)
(* name them (paging.cpp:33-60).                                           *)
(***************************************************************************)
LEMMA ImageSize ==
  ASSUME NEW S, IsFiniteSet(S), NEW f, NEW T, T = {f[x] : x \in S}
  PROVE  IsFiniteSet(T) /\ Cardinality(T) <= Cardinality(S)
<1> DEFINE g == [x \in S |-> f[x]]
<1>1. g \in Surjection(S, T)
  BY DEF Surjection
<1> HIDE DEF g
<1>2. QED
  BY <1>1, FS_Surjection

(***************************************************************************)
(* While Paging::Init maps the first 64 MiB there is a free frame for each *)
(* table it needs (paging.cpp:33-60, 177-181).                             *)
(***************************************************************************)
LEMMA BootHasFrames ==
  ASSUME MemInv, LowInv, ~paging, booted < IdLimit, table[DirOf(booted)] = None
  PROVE  ~Full(used) /\ FirstFree(used) < IdLimit
<1> DEFINE low == {f \in Frame \ Reserved : f < IdLimit}
           made == {d \in Dir : table[d] # None}
<1>1. /\ IsFiniteSet(0 .. IdLimit - 1) /\ IsFiniteSet(low)
      /\ LowDirs = {DirOf(v) : v \in 0 .. IdLimit - 1}
  <2>1. IsFiniteSet(0 .. IdLimit - 1)
    BY MemoryConstants, FS_Interval
  <2>2. IsFiniteSet(low)
    BY NotFrames, FS_Subset
  <2>3. QED
    BY <2>1, <2>2 DEF LowDirs, DirOf
<1>2. IsFiniteSet(LowDirs) /\ Cardinality(LowDirs) \in Nat
  <2>1. PICK f : f = [v \in 0 .. IdLimit - 1 |-> DirOf(v)]
    OBVIOUS
  <2>2. LowDirs = {f[v] : v \in 0 .. IdLimit - 1}
    BY <1>1, <2>1
  <2>3. IsFiniteSet(LowDirs)
    <3>1. PICK S : S = 0 .. IdLimit - 1
      OBVIOUS
    <3>2. IsFiniteSet(S) /\ LowDirs = {f[v] : v \in S}
      BY <1>1, <2>2, <3>1
    <3>3. QED
      BY <3>2, ImageSize
  <2>4. QED
    BY <2>3, FS_CardinalityType
<1>3. booted \in 0 .. IdLimit - 1 /\ DirOf(booted) \in LowDirs
  <2>1. booted \in 0 .. IdLimit - 1
    BY MemoryConstants DEF MemInv, TypeOK
  <2>2. QED
    BY <1>1, <2>1
<1>4. made \subseteq LowDirs \ {DirOf(booted)}
  BY DEF LowInv, BootFrames
<1>5. /\ IsFiniteSet(LowDirs \ {DirOf(booted)}) /\ IsFiniteSet(made)
      /\ Cardinality(made) <= Cardinality(LowDirs) - 1
      /\ Cardinality(made) \in Nat
  <2>1. /\ IsFiniteSet(LowDirs \ {DirOf(booted)})
        /\ Cardinality(LowDirs \ {DirOf(booted)}) = Cardinality(LowDirs) - 1
    BY <1>2, <1>3, FS_RemoveElement
  <2>2. /\ IsFiniteSet(made)
        /\ Cardinality(made) <= Cardinality(LowDirs \ {DirOf(booted)})
    BY <1>4, <2>1, FS_Subset
  <2>3. Cardinality(made) \in Nat
    BY <2>2, FS_CardinalityType
  <2>4. QED
    BY <2>1, <2>2, <2>3
<1>6. /\ IsFiniteSet({table[d] : d \in made})
      /\ Cardinality({table[d] : d \in made}) <= Cardinality(made)
      /\ Cardinality({table[d] : d \in made}) \in Nat
  <2>1. /\ IsFiniteSet({table[d] : d \in made})
        /\ Cardinality({table[d] : d \in made}) <= Cardinality(made)
    BY <1>5, ImageSize
  <2>2. QED
    BY <2>1, FS_CardinalityType
<1>7. TableFrames = {table[d] : d \in made}
  BY DEF TableFrames
<1>8. PICK taken : taken = TableFrames \cup {pd}
  OBVIOUS
<1>9. /\ IsFiniteSet(taken) /\ Cardinality(taken) \in Nat
      /\ Cardinality(taken) <= Cardinality(LowDirs)
  <2>1. /\ IsFiniteSet(taken)
        /\ \/ Cardinality(taken) = Cardinality(TableFrames)
           \/ Cardinality(taken) = Cardinality(TableFrames) + 1
    BY <1>6, <1>7, <1>8, FS_AddElement
  <2>2. Cardinality(taken) \in Nat
    BY <2>1, FS_CardinalityType
  <2>3. QED
    BY <1>2, <1>5, <1>6, <1>7, <2>1, <2>2
<1>10. ~(low \subseteq taken)
  <2>1. Cardinality(low) > Cardinality(LowDirs) /\ Cardinality(low) \in Nat
    BY <1>1, LowMemory, FS_CardinalityType DEF LowDirs
  <2>2. low \subseteq taken => Cardinality(low) <= Cardinality(taken)
    BY <1>9, FS_Subset
  <2>3. QED
    BY <1>2, <1>9, <2>1, <2>2
<1>11. PICK f \in Frame : f \notin Reserved /\ f < IdLimit /\ f \notin taken
  BY <1>10
<1>12. f \notin used
  BY <1>8, <1>11 DEF LowInv, BootFrames
<1>13. ~Full(used)
  BY <1>12 DEF Full
<1>14. \E x \in Frame \ used : \A y \in Frame \ used : x <= y
  <2>1. Frame \ used # {} /\ Frame \ used \subseteq Nat
    BY <1>12, NotFrames
  <2>2. QED
    BY <2>1, MinimumExists
<1>15. FirstFree(used) <= f /\ FirstFree(used) \in Frame
  BY <1>12, <1>14 DEF FirstFree
<1>16. QED
  BY <1>11, <1>13, <1>15, MemoryConstants, NotFrames DEF Frame

(***************************************************************************)
(* Paging::MapPage finds the table when there is one, and makes one when   *)
(* it can (paging.cpp:33-98).                                              *)
(***************************************************************************)
LEMMA MapPageTable ==
  ASSUME NEW u, NEW n, NEW p, NEW v \in Page, NEW g,
         table \in [Dir -> Frame \cup {None}],
         p \in [Page -> Frame \cup {None, Device}],
         MapPage(u, n, p, v, g)
  PROVE  /\ CanMap(u, v) => table'[DirOf(v)] # None /\ pte'[v] = g
         /\ table[DirOf(v)] # None => table' = table /\ used' = u /\ pte'[v] = g
         /\ used' \subseteq u \cup {table'[d] : d \in Dir}
<1> USE NotFrames
<1>1. CASE ~CanMap(u, v)
  <2>1. used' = u /\ table[DirOf(v)] = None
    BY <1>1 DEF MapPage, CanMap
  <2>2. QED
    BY <1>1, <2>1
<1>2. CASE CanMap(u, v) /\ table[DirOf(v)] # None
  <2>1. /\ used' = u /\ pte' = [p EXCEPT ![v] = g]
        /\ table' = [table EXCEPT ![DirOf(v)] = table[DirOf(v)]]
    BY <1>2 DEF MapPage
  <2>2. table' = table
    BY <2>1
  <2>3. QED
    BY <1>2, <2>1, <2>2
<1>3. CASE CanMap(u, v) /\ table[DirOf(v)] = None
  <2>1. PICK t : t = FirstFree(u)
    OBVIOUS
  <2>2. t \in Frame \ u
    BY <1>3, <2>1, FirstFreeIsFree DEF CanMap
  <2>3. /\ used' = u \cup {t} /\ pte' = [p EXCEPT ![v] = g]
        /\ table' = [table EXCEPT ![DirOf(v)] = t]
    BY <1>3, <2>1 DEF MapPage, bset
  <2>4. table'[DirOf(v)] = t /\ DirOf(v) \in Dir
    BY <2>3
  <2>5. QED
    BY <1>3, <2>2, <2>3, <2>4
<1>4. QED
  BY <1>1, <1>2, <1>3

(***************************************************************************)
(* Mapping a fresh frame or device memory at another page leaves a page    *)
(* its own frame (paging.cpp:83-98).                                       *)
(***************************************************************************)
LEMMA MapKeepsOwnFrames ==
  ASSUME OwnerInv, NEW v \in Page, NEW u, NEW p, NEW g,
         \/ g \in Frame \ used /\ u = used \cup {g}
         \/ g = Device /\ u = used,
         p = pte \/ p = [pte EXCEPT ![v] = None],
         Mapped(u, p, v, g),
         pd' = pd,
         \A w \in UploadPages : upload'[w] = upload[w] \/ upload'[w] \in Frame \ used,
         NEW w \in Page, w # v, OwnFrame(w)
  PROVE  OwnFrame(w)'
<1> USE NotFrames
<1>1. /\ u \subseteq used' /\ used \subseteq u
      /\ \A d \in Dir : table'[d] = table[d] \/ table'[d] \in used' \ u
      /\ \A x \in Page \ {v} : pte'[x] = p[x]
      /\ pte'[v] = p[v] \/ pte'[v] = g
  BY DEF Mapped
<1>2. \A x \in Page : p[x] = pte[x] \/ p[x] = None
  BY DEF OwnerInv
<1>3. pte'[w] = pte[w] /\ pte[w] \in used
  <2>1. p[w] = pte[w]
    BY DEF OwnerInv
  <2>2. QED
    BY <1>1, <2>1 DEF OwnFrame
<1>4. pte'[w] \in used' \ (Reserved \cup {pd'})
  BY <1>1, <1>3 DEF OwnFrame
<1>5. \A d \in Dir : table'[d] # pte'[w]
  BY <1>1, <1>3 DEF OwnFrame
<1>6. \A x \in Backed' : x # w => pte'[x] # pte'[w]
  <2> SUFFICES ASSUME NEW x \in Page, pte'[x] \in Frame, pte'[x] # x, x # w
               PROVE  pte'[x] # pte'[w]
    BY DEF Backed
  <2>1. CASE pte'[x] = pte[x]
    <3>1. x \in Backed
      BY <2>1 DEF Backed
    <3>2. QED
      BY <1>3, <2>1, <3>1 DEF OwnFrame
  <2>2. CASE pte'[x] # pte[x]
    <3>1. pte'[x] = g
      BY <1>1, <1>2, <2>2
    <3>2. g \notin used
      BY <3>1
    <3>3. QED
      BY <1>3, <3>1, <3>2
  <2>3. QED
    BY <2>1, <2>2
<1>7. \A x \in UploadPages : upload'[x] # pte'[w]
  BY <1>3 DEF OwnFrame
<1>8. QED
  BY <1>4, <1>5, <1>6, <1>7 DEF OwnFrame

(***************************************************************************)
(* A page mapped to a fresh frame owns it (heap.cpp:111-117).              *)
(***************************************************************************)
LEMMA MappedOwnsFrame ==
  ASSUME OwnerInv, NEW v \in Page, NEW u, NEW g \in Frame \ used, u = used \cup {g},
         Mapped(u, pte, v, g), pte'[v] = g,
         pd' = pd, upload' = upload
  PROVE  OwnFrame(v)'
<1> USE NotFrames
<1>1. /\ u \subseteq used'
      /\ \A d \in Dir : table'[d] = table[d] \/ table'[d] \in used' \ u
      /\ \A x \in Page \ {v} : pte'[x] = pte[x]
  BY DEF Mapped
<1>2. g \in used' \ (Reserved \cup {pd})
  BY <1>1 DEF OwnerInv, Covered
<1>3. \A d \in Dir : table'[d] # g
  BY <1>1 DEF OwnerInv, Covered
<1>4. \A x \in Backed' : x # v => pte'[x] # g
  <2> SUFFICES ASSUME NEW x \in Page, pte'[x] \in Frame, pte'[x] # x, x # v
               PROVE  pte'[x] # g
    BY DEF Backed
  <2>1. pte'[x] = pte[x] /\ x \in Backed
    BY <1>1 DEF Backed
  <2>2. QED
    BY <2>1 DEF OwnerInv, Covered
<1>5. \A x \in UploadPages : upload'[x] # g
  BY DEF OwnerInv, Uploads
<1>6. QED
  BY <1>2, <1>3, <1>4, <1>5 DEF OwnFrame

(***************************************************************************)
(* PMM::AllocFrame, then Paging::MapPage outside the low heap: low heap    *)
(* pages keep their frames, and the fresh frame is mapped where there is a *)
(* table (elfloader.cpp:91-100, vmsvga.cpp:345-351, heap.cpp:111-117).     *)
(***************************************************************************)
LEMMA AllocOwnFrames ==
  ASSUME OwnerInv, NEW v \in Page, NEW p, NEW f, f = FirstFree(used), ~Full(used),
         p = pte \/ p = [pte EXCEPT ![v] = None],
         MapPage(bset(used, f), Taken(freeFrames), p, v, f),
         pd' = pd,
         upload' = upload \/ (v \in UploadPages /\ upload' = [upload EXCEPT ![v] = f])
  PROVE  /\ \A w \in Page : w # v /\ OwnFrame(w) => OwnFrame(w)'
         /\ table[DirOf(v)] # None /\ p = pte /\ upload' = upload => OwnFrame(v)'
         /\ \A d \in Dir : table[d] # None => table'[d] # None
<1>1. f \in Frame \ used
  BY FirstFreeIsFree
<1>2. PICK u : u = bset(used, f)
  OBVIOUS
<1>3. u = used \cup {f} /\ u \subseteq Frame
  BY <1>1, <1>2 DEF bset, OwnerInv
<1>4. Taken(freeFrames) = Cardinality(Frame \ u)
  BY <1>1, <1>2, TakeFrame DEF OwnerInv, FreeCountExact
<1>5. PICK n : n = Taken(freeFrames)
  OBVIOUS
<1>6. MapPage(u, n, p, v, f)
  BY <1>2, <1>5
<1>7. /\ p \in [Page -> Frame \cup {None, Device}]
      /\ table \in [Dir -> Frame \cup {None}]
  BY DEF OwnerInv
<1>8. Mapped(u, p, v, f)
  BY <1>1, <1>3, <1>4, <1>5, <1>6, <1>7, MapPageEffect
<1>9. \A w \in UploadPages : upload'[w] = upload[w] \/ upload'[w] \in Frame \ used
  BY <1>1 DEF OwnerInv
<1>10. \A w \in Page : w # v /\ OwnFrame(w) => OwnFrame(w)'
  BY <1>1, <1>3, <1>8, <1>9, MapKeepsOwnFrames
<1>11. ASSUME table[DirOf(v)] # None, p = pte, upload' = upload PROVE OwnFrame(v)'
  <2>1. pte'[v] = f
    BY <1>6, <1>7, <1>11, MapPageTable
  <2>2. QED
    BY <1>1, <1>3, <1>8, <1>11, <2>1, MappedOwnsFrame
<1>12. \A d \in Dir : table[d] # None => table'[d] # None
  BY <1>8 DEF Mapped
<1>13. QED
  BY <1>10, <1>11, <1>12

(***************************************************************************)
(* With paging on, tables stay and the low heap keeps its frames when a    *)
(* step leaves its end alone.                                              *)
(***************************************************************************)
LEMMA LowStable ==
  ASSUME MemInv, LowInv, paging, paging' = paging, pd' = pd, booted' = booted,
         \A d \in Dir : table[d] # None => table'[d] # None,
         heapEnd' = heapEnd,
         \A w \in HeapBase .. heapEnd - 1 : OwnFrame(w) => OwnFrame(w)'
  PROVE  LowInv'
<1>1. BootTables'
  <2>1. \A v \in 0 .. booted - 1 : v \in Page
    BY MemoryConstants DEF MemInv, TypeOK, Page
  <2>2. QED
    BY <2>1, NotFrames DEF BootTables, LowInv
<1>2. BootFrames'
  BY DEF BootFrames, LowInv
<1>3. LowHeap'
  BY DEF LowHeap, LowInv
<1>4. QED
  BY <1>1, <1>2, <1>3 DEF LowInv

(***************************************************************************)
(* Releasing the upload surface leaves a page of another owner its frame   *)
(* (vmsvga.cpp:276-286).                                                   *)
(***************************************************************************)
LEMMA ReleaseOwnFrames ==
  ASSUME OwnerInv, ReleaseUploadSurface, NEW w \in Page \ UploadPages, OwnFrame(w)
  PROVE  OwnFrame(w)'
<1> DEFINE pages == {v \in UploadPages : upload[v] # None}
           frames == {upload[v] : v \in pages}
           present == {v \in pages : table[DirOf(v)] # None}
<1>1. /\ used' = used \ frames /\ pd' = pd /\ table' = table
      /\ upload' = [v \in UploadPages |-> None]
      /\ pte' = [v \in Page |-> IF v \in present THEN None ELSE pte[v]]
  BY DEF ReleaseUploadSurface
<1>2. pte'[w] = pte[w] /\ \A x \in Page : pte'[x] = pte[x] \/ pte'[x] = None
  BY <1>1
<1>3. pte[w] \notin frames
  BY DEF OwnFrame
<1> HIDE DEF pages, frames, present
<1>4. \A x \in Backed' : x \in Backed /\ pte'[x] = pte[x]
  BY <1>2, NotFrames DEF Backed
<1>5. pte[w] \in Frame
  BY DEF OwnFrame, OwnerInv
<1>6. \A x \in UploadPages : upload'[x] # pte'[w]
  BY <1>1, <1>2, <1>5, NotFrames
<1>7. QED
  BY <1>1, <1>2, <1>3, <1>4, <1>6 DEF OwnFrame

(***************************************************************************)
(* While the identity map is made, every page of it gets its table         *)
(* (paging.cpp:177-181).                                                   *)
(***************************************************************************)
LEMMA BootStep ==
  ASSUME MemInv, LowInv, InitIdentity
  PROVE  LowInv'
<1> USE NotFrames
<1>0. ~paging /\ ~paging' /\ heapEnd = HeapBase /\ heapEnd' = HeapBase /\ pd' = pd
      /\ placing' = {}
  <2>1. ~paging /\ UNCHANGED <<paging, heapEnd, pd, placing>>
    BY MemoryConstants DEF InitIdentity, LowInv, BootFrames, MemInv, TypeOK
  <2>2. QED
    BY <2>1 DEF LowInv, BootFrames, MemInv, Booting
<1>1. /\ MapPage(used, freeFrames, pte, booted, booted)
      /\ booted' = booted + 1 /\ booted \in Nat /\ booted < IdLimit
      /\ booted \in Page /\ booted \in Frame
  BY MemoryConstants DEF InitIdentity, MemInv, TypeOK, Page, Frame
<1>2. /\ table \in [Dir -> Frame \cup {None}] /\ used \subseteq Frame
      /\ pte \in [Page -> Frame \cup {None, Device}]
      /\ freeFrames = Cardinality(Frame \ used)
  BY DEF MemInv, OwnerInv, FreeCountExact
<1>3. CanMap(used, booted)
  BY <1>0, <1>1, BootHasFrames DEF CanMap
<1>4. /\ table'[DirOf(booted)] # None
      /\ used' \subseteq used \cup {table'[d] : d \in Dir}
  BY <1>1, <1>2, <1>3, MapPageTable
<1>5. Mapped(used, pte, booted, booted)
  BY <1>1, <1>2, MapPageEffect
<1>6. /\ \A d \in Dir : table'[d] = table[d] \/ (d = DirOf(booted) /\ table[d] = None)
      /\ used' \subseteq Frame
  BY <1>5 DEF Mapped
<1>7. BootTables'
  <2>1. \A v \in 0 .. booted : v \in Page /\ (v = booted \/ v \in 0 .. booted - 1)
    BY <1>1, MemoryConstants DEF Page
  <2>2. ASSUME NEW v \in 0 .. booted PROVE table'[DirOf(v)] # None
    <3>1. DirOf(v) \in Dir
      BY <2>1
    <3>2. v = booted \/ table[DirOf(v)] # None
      BY <2>1 DEF LowInv, BootTables
    <3>3. QED
      BY <1>4, <1>6, <3>1, <3>2
  <2>3. 0 .. booted' - 1 = 0 .. booted
    BY <1>1
  <2>4. QED
    BY <2>2, <2>3 DEF BootTables
<1>8. BootFrames'
  <2>1. DirOf(booted) \in LowDirs
    BY <1>1, MemoryConstants DEF LowDirs, DirOf
  <2>2. \A d \in Dir : table'[d] # None => d \in LowDirs
    BY <1>0, <1>6, <2>1 DEF LowInv, BootFrames
  <2>3. used \subseteq Reserved \cup {pd} \cup TableFrames
    BY <1>0 DEF LowInv, BootFrames
  <2>4. TableFrames \subseteq TableFrames'
    BY <1>6 DEF TableFrames
  <2>5. used' \subseteq used \cup TableFrames'
    BY <1>4, <1>6 DEF TableFrames
  <2>6. QED
    BY <1>0, <2>2, <2>3, <2>4, <2>5 DEF BootFrames
<1>9. LowHeap'
  <2>1. HeapBase .. heapEnd' - 1 = {}
    BY <1>0, MemoryConstants
  <2>2. QED
    BY <2>1 DEF LowHeap
<1>10. QED
  BY <1>7, <1>8, <1>9 DEF LowInv

(***************************************************************************)
(* One turn of the heap's page loop: a page whose table was made at boot   *)
(* gets the fresh frame (heap.cpp:111-117, 160-169).                       *)
(***************************************************************************)
LEMMA AddHeapPageLow ==
  ASSUME MemInv, LowInv, AddHeapPage
  PROVE  LowInv'
<1> USE NotFrames
<1>0. OwnerInv
  BY DEF MemInv
<1>1. /\ heapEnd \in Nat /\ HeapBase <= heapEnd /\ heapEnd < HeapCap /\ heapEnd \in Page
      /\ paging
  <2>1. growing > 0
    BY DEF AddHeapPage
  <2>2. paging
    BY <2>1 DEF MemInv, Booting
  <2>3. QED
    BY <2>1, <2>2, MemoryConstants DEF MemInv, TypeOK, Page
<1>e. PICK e \in Page : e = heapEnd
  BY <1>1
<1>2. PICK f : /\ f = FirstFree(used)
               /\ MapPage(bset(used, f), Taken(freeFrames), pte, e, f)
  BY <1>e DEF AddHeapPage
<1>3. /\ ~Full(used) /\ pd' = pd /\ upload' = upload /\ heapEnd' = heapEnd + 1
      /\ paging' = paging /\ booted' = booted
  BY DEF AddHeapPage
<1>4. /\ \A w \in Page : w # e /\ OwnFrame(w) => OwnFrame(w)'
      /\ table[DirOf(e)] # None => OwnFrame(e)'
      /\ \A d \in Dir : table[d] # None => table'[d] # None
  BY <1>0, <1>1, <1>2, <1>3, AllocOwnFrames
<1>5. BootTables'
  <2>1. \A v \in 0 .. booted - 1 : v \in Page
    BY MemoryConstants DEF MemInv, TypeOK, Page
  <2>2. QED
    BY <1>3, <1>4, <2>1 DEF BootTables, LowInv
<1>6. BootFrames'
  BY <1>1, <1>3 DEF BootFrames, LowInv
<1>7. LowHeap'
  <2> SUFFICES ASSUME NEW v \in HeapBase .. heapEnd' - 1, v < IdLimit
               PROVE  OwnFrame(v)'
    BY DEF LowHeap
  <2>1. v \in HeapBase .. heapEnd - 1 \/ v = e
    BY <1>1, <1>3, <1>e, MemoryConstants
  <2>2. CASE v \in HeapBase .. heapEnd - 1
    <3>1. OwnFrame(v)
      BY <2>2 DEF LowInv, LowHeap
    <3>2. v \in Page /\ v # e
      BY <1>1, <1>e, <2>2, MemoryConstants DEF Page
    <3>3. QED
      BY <1>4, <3>1, <3>2
  <2>3. CASE v = e
    <3>1. booted = IdLimit
      BY <1>1 DEF LowInv, BootFrames
    <3>2. e \in 0 .. booted - 1
      BY <1>1, <1>e, <2>3, <3>1, MemoryConstants
    <3>3. table[DirOf(e)] # None
      BY <3>2 DEF LowInv, BootTables
    <3>4. QED
      BY <1>4, <2>3, <3>3
  <2>4. QED
    BY <2>1, <2>2, <2>3
<1>8. QED
  BY <1>5, <1>6, <1>7 DEF LowInv

(***************************************************************************)
(* Every step keeps the low heap's frames its own: one case per operation  *)
(* (paging.cpp:168-204, heap.cpp:106-169, elfloader.cpp:73-143,            *)
(* vmsvga.cpp:276-359).                                                    *)
(***************************************************************************)
LEMMA StepKeepsLow ==
  ASSUME MemInv, LowInv, [Next]_vars
  PROVE  LowInv'
<1> USE NotFrames
<1>0. OwnerInv
  BY DEF MemInv
<1>h. \A w \in HeapBase .. heapEnd - 1 :
        w \in Page /\ w \notin UserPages \cup DevicePages \cup UploadPages
  BY MemoryConstants DEF MemInv, TypeOK, Page, UploadPages
<1>a. UNCHANGED <<used, pd, table, pte, upload>> =>
        (\A w : OwnFrame(w) => OwnFrame(w)') /\ TableFrames' = TableFrames
  BY DEF OwnFrame, Backed, TableFrames
<1>1. CASE UNCHANGED vars
  BY <1>1 DEF vars, LowInv, BootTables, BootFrames, LowHeap, OwnFrame, Backed, TableFrames
<1>2. CASE InitDirectory
  <2>1. /\ ~paging /\ ~paging' /\ heapEnd' = HeapBase /\ placing' = {}
        /\ UNCHANGED <<table, booted>>
    BY <1>2 DEF InitDirectory, LowInv, BootFrames, MemInv, Booting
  <2>2. pd = None /\ used' = used \cup {pd'}
    BY <1>2 DEF InitDirectory, bset
  <2>3. BootTables'
    BY <2>1 DEF LowInv, BootTables
  <2>4. used' \subseteq Reserved \cup {pd'} \cup TableFrames'
    <3>1. used \subseteq Reserved \cup {pd} \cup TableFrames /\ TableFrames' = TableFrames
      BY <2>1 DEF LowInv, BootFrames, TableFrames
    <3>2. None \notin used
      BY <1>0 DEF OwnerInv
    <3>3. QED
      BY <2>2, <3>1, <3>2
  <2>5. BootFrames'
    BY <2>1, <2>4 DEF LowInv, BootFrames
  <2>6. HeapBase .. heapEnd' - 1 = {}
    BY <2>1, MemoryConstants
  <2>7. QED
    BY <2>3, <2>5, <2>6 DEF LowInv, LowHeap
<1>3. CASE InitIdentity
  BY <1>3, BootStep
<1>4. CASE EnablePaging
  <2>1. /\ pd # None /\ booted = IdLimit /\ paging'
        /\ UNCHANGED <<used, pd, table, pte, upload, booted, heapEnd>>
    BY <1>4 DEF EnablePaging
  <2>2. QED
    BY <1>a, <2>1 DEF LowInv, BootTables, BootFrames, LowHeap
<1>5. CASE \/ \E n \in 1 .. MaxGrow : GrowHeap(n)
           \/ HeapExhausted
           \/ \E n \in 1 .. UploadCap : EnsureUploadSurface(n)
  <2>1. /\ paging /\ UNCHANGED <<used, pd, table, pte, upload, booted, paging, heapEnd>>
    BY <1>5 DEF GrowHeap, HeapExhausted, EnsureUploadSurface, Ready, MemInv, Booting
  <2>2. QED
    BY <1>a, <2>1, LowStable
<1>6. CASE AddHeapPage
  BY <1>6, AddHeapPageLow
<1>7. ASSUME NEW v \in UserPages, LoadUserPage(v) PROVE LowInv'
  <2>1. v \in Page /\ paging /\ UNCHANGED <<pd, upload, booted, paging, heapEnd>>
    BY <1>7, MemoryConstants DEF LoadUserPage, Ready, Page
  <2>2. PICK p : /\ p = IF table[DirOf(v)] # None THEN [pte EXCEPT ![v] = None] ELSE pte
                 /\ \/ /\ pte' = p /\ used' = used /\ table' = table
                    \/ /\ ~Full(used)
                       /\ LET f == FirstFree(used)
                          IN MapPage(bset(used, f), Taken(freeFrames), p, v, f)
    BY <1>7 DEF LoadUserPage
  <2>3. p = pte \/ p = [pte EXCEPT ![v] = None]
    BY <2>2
  <2>4. CASE pte' = p /\ used' = used /\ table' = table
    <3>1. \A x \in Page : (x # v => pte'[x] = pte[x]) /\ (pte'[x] = pte[x] \/ pte'[x] = None)
      BY <1>0, <2>1, <2>3, <2>4 DEF OwnerInv
    <3>2. \A x \in Backed' : x \in Backed /\ pte'[x] = pte[x]
      BY <3>1 DEF Backed
    <3>3. \A w \in Page : w # v /\ OwnFrame(w) => OwnFrame(w)'
      BY <2>1, <2>4, <3>1, <3>2 DEF OwnFrame
    <3>4. \A d \in Dir : table[d] # None => table'[d] # None
      BY <2>4
    <3>5. QED
      BY <1>h, <2>1, <3>3, <3>4, LowStable
  <2>5. ASSUME ~Full(used), NEW f, f = FirstFree(used),
               MapPage(bset(used, f), Taken(freeFrames), p, v, f)
        PROVE  LowInv'
    <3>1. /\ \A w \in Page : w # v /\ OwnFrame(w) => OwnFrame(w)'
          /\ \A d \in Dir : table[d] # None => table'[d] # None
      BY <1>0, <2>1, <2>3, <2>5, AllocOwnFrames
    <3>2. QED
      BY <1>h, <2>1, <3>1, LowStable
  <2>6. QED
    BY <2>2, <2>4, <2>5
<1>8. ASSUME NEW v \in DevicePages, MapDevice(v) PROVE LowInv'
  <2>1. v \in Page /\ paging /\ UNCHANGED <<pd, upload, booted, paging, heapEnd>>
    BY <1>8, MemoryConstants DEF MapDevice, Ready, Page
  <2>2. MapPage(used, freeFrames, pte, v, Device)
    BY <1>8 DEF MapDevice
  <2>3. Mapped(used, pte, v, Device)
    BY <1>0, <2>1, <2>2, MapPageEffect DEF OwnerInv, FreeCountExact
  <2>4. \A w \in Page : w # v /\ OwnFrame(w) => OwnFrame(w)'
    BY <1>0, <2>1, <2>3, MapKeepsOwnFrames
  <2>5. \A d \in Dir : table[d] # None => table'[d] # None
    BY <2>3 DEF Mapped
  <2>6. QED
    BY <1>h, <2>1, <2>4, <2>5, LowStable
<1>9. ASSUME NEW v \in UploadPages, PlaceUpload(v) PROVE LowInv'
  <2>1. v \in Page /\ paging /\ ~Full(used) /\ UNCHANGED <<pd, booted, paging, heapEnd>>
    BY <1>9, MemoryConstants DEF PlaceUpload, UploadPages, Page, LowInv, BootFrames
  <2>2. PICK f : /\ f = FirstFree(used)
                 /\ MapPage(bset(used, f), Taken(freeFrames), pte, v, f)
                 /\ upload' = [upload EXCEPT ![v] = f]
    BY <1>9 DEF PlaceUpload
  <2>3. /\ \A w \in Page : w # v /\ OwnFrame(w) => OwnFrame(w)'
        /\ \A d \in Dir : table[d] # None => table'[d] # None
    BY <1>0, <2>1, <2>2, AllocOwnFrames
  <2>4. QED
    BY <1>h, <2>1, <2>3, LowStable
<1>10. CASE UploadOutOfFrames
  <2>1. /\ paging /\ UNCHANGED <<used, pd, table, pte, booted, paging, heapEnd>>
        /\ upload' = [v \in UploadPages |-> None]
    BY <1>10 DEF UploadOutOfFrames, LowInv, BootFrames
  <2>2. Backed' = Backed
    BY <2>1 DEF Backed
  <2>3. \A w : OwnFrame(w) => OwnFrame(w)'
    <3> SUFFICES ASSUME NEW w, OwnFrame(w) PROVE OwnFrame(w)'
      OBVIOUS
    <3>1. pte[w] # None
      BY <1>0 DEF OwnFrame, OwnerInv
    <3>2. QED
      BY <2>1, <2>2, <3>1 DEF OwnFrame
  <2>4. QED
    BY <2>1, <2>3, LowStable
<1>11. CASE ReleaseUploadSurface
  <2>1. paging /\ UNCHANGED <<pd, table, booted, paging, heapEnd>>
    BY <1>11 DEF ReleaseUploadSurface, Ready
  <2>2. \A w \in HeapBase .. heapEnd - 1 : OwnFrame(w) => OwnFrame(w)'
    BY <1>0, <1>11, <1>h, ReleaseOwnFrames
  <2>3. QED
    BY <2>1, <2>2, LowStable
<1>12. QED
  BY <1>1, <1>2, <1>3, <1>4, <1>5, <1>6, <1>7, <1>8, <1>9, <1>10, <1>11 DEF Next

(***************************************************************************)
(* Every heap page below the end of the identity map has a frame of its    *)
(* own: never the one the identity map left there, and never lost to a     *)
(* program, a device, the upload surface or a page table (heap.cpp:111-    *)
(* 117, 160-169, paging.cpp:177-181).                                      *)
(***************************************************************************)
THEOREM LowHeapHolds == Spec => []LowHeapOwned
<1>1. Init => LowInv
  <2> SUFFICES ASSUME Init PROVE LowInv
    OBVIOUS
  <2>1. HeapBase .. heapEnd - 1 = {} /\ 0 .. booted - 1 = {}
    BY MemoryConstants DEF Init
  <2>2. BootFrames
    BY DEF Init, BootFrames
  <2>3. QED
    BY <2>1, <2>2 DEF LowInv, BootTables, LowHeap
<1>2. MemInv /\ LowInv /\ [Next]_vars => LowInv'
  BY StepKeepsLow
<1>3. LowInv => LowHeapOwned
  <2> SUFFICES ASSUME LowInv, NEW v \in HeapBase .. heapEnd - 1, v < IdLimit
               PROVE  /\ pte[v] \in used \ (Reserved \cup TableFrames \cup {pd})
                      /\ \A w \in Backed \ {v} : pte[w] # pte[v]
    BY DEF LowHeapOwned
  <2>1. OwnFrame(v)
    BY DEF LowInv, LowHeap
  <2>2. QED
    BY <2>1 DEF OwnFrame, TableFrames
<1>4. QED
  BY <1>1, <1>2, <1>3, MemoryInvariant, PTL DEF Spec

------------------------------------------------------------------------------
(***************************************************************************)
(* Rounding up reaches the next multiple (heap.cpp:24-27).                 *)
(***************************************************************************)
LEMMA AlignUpBounds ==
  ASSUME NEW x \in Nat, NEW a \in Nat \ {0}
  PROVE  /\ AlignUp(x, a) \in Nat /\ x <= AlignUp(x, a) /\ AlignUp(x, a) < x + a
         /\ AlignUp(x, a) % a = 0
<1>1. PICK y \in Nat : y = x + a - 1
  OBVIOUS
<1>2. PICK q \in Nat : q = y \div a
  OBVIOUS
<1>3. q * a <= y /\ y < (q + 1) * a
  BY <1>2
<1>4. AlignUp(x, a) = q * a
  BY <1>1, <1>2 DEF AlignUp
<1>5. PICK m \in Nat : m = q * a
  OBVIOUS
<1>6. (q + 1) * a = m + a
  BY <1>5
<1>7. m % a = 0
  BY <1>5
<1>8. QED
  BY <1>1, <1>3, <1>4, <1>5, <1>6, <1>7

------------------------------------------------------------------------------
\* f is the function of the partial sums of w[1] .. w[n].
Partial(f, w, n) ==
  /\ f \in [0 .. n -> Int] /\ f[0] = 0
  /\ \A k \in 1 .. n : f[k] = f[k - 1] + w[k]

(***************************************************************************)
(* There are partial sums (of block sizes, heap.cpp:195, 213).             *)
(***************************************************************************)
LEMMA PartialExists ==
  ASSUME NEW w, NEW n \in Nat, \A k \in 1 .. n : w[k] \in Int
  PROVE  \E f : Partial(f, w, n)
<1> DEFINE T == {m \in 0 .. n : ~ \E f : Partial(f, w, m)}
<1> SUFFICES ASSUME T # {} PROVE FALSE
  OBVIOUS
<1>0. T \subseteq Nat
  OBVIOUS
<1>1. PICK m \in T : \A i \in T : m <= i
  BY <1>0, MinimumExists, Zenon
<1>2. m \in 0 .. n /\ ~ \E f : Partial(f, w, m)
  OBVIOUS
<1>3. m # 0
  <2>1. Partial([k \in 0 .. 0 |-> 0], w, 0)
    BY DEF Partial
  <2>2. QED
    BY <1>2, <2>1
<1>4. m - 1 \in 0 .. n /\ m - 1 \notin T
  BY <1>1, <1>2, <1>3
<1>5. PICK f : Partial(f, w, m - 1)
  BY <1>4
<1>6. PICK g : g = [k \in 0 .. m |-> IF k = m THEN f[m - 1] + w[m] ELSE f[k]]
  OBVIOUS
<1>7. m \in 1 .. n /\ w[m] \in Int /\ f[m - 1] \in Int
  BY <1>2, <1>3, <1>5 DEF Partial
<1>8. g \in [0 .. m -> Int]
  <2>1. \A k \in 0 .. m : k = m \/ k \in 0 .. m - 1
    BY <1>2
  <2>2. \A k \in 0 .. m - 1 : f[k] \in Int
    BY <1>5 DEF Partial
  <2>3. f[m - 1] + w[m] \in Int
    BY <1>7
  <2>4. QED
    BY <1>6, <2>1, <2>2, <2>3
<1>9. g[0] = 0
  BY <1>2, <1>3, <1>5, <1>6 DEF Partial
<1>10. ASSUME NEW k \in 1 .. m PROVE g[k] = g[k - 1] + w[k]
  <2>1. CASE k = m
    BY <1>2, <1>3, <1>6, <2>1
  <2>2. CASE k # m
    <3>1. k \in 1 .. m - 1 /\ k - 1 \in 0 .. m /\ k - 1 # m
      BY <1>2, <2>2
    <3>2. f[k] = f[k - 1] + w[k]
      BY <1>5, <3>1 DEF Partial
    <3>3. QED
      BY <1>6, <2>2, <3>1, <3>2
  <2>3. QED
    BY <2>1, <2>2
<1>11. Partial(g, w, m)
  BY <1>8, <1>9, <1>10 DEF Partial
<1>12. QED
  BY <1>2, <1>11

(***************************************************************************)
(* What SumTo adds up.                                                     *)
(***************************************************************************)
LEMMA SumToPartial ==
  ASSUME NEW w, NEW n \in Nat, \A k \in 1 .. n : w[k] \in Int,
         NEW f, Partial(f, w, n)
  PROVE  SumTo(w, n) = f[n] /\ SumTo(w, n) \in Int
<1> DEFINE Rec(s) == s = [k \in 0 .. n |-> IF k = 0 THEN 0 ELSE s[k - 1] + w[k]]
           sum == CHOOSE s : Rec(s)
<1>1. Rec(f)
  <2>1. \A k \in 0 .. n : f[k] = IF k = 0 THEN 0 ELSE f[k - 1] + w[k]
    BY DEF Partial
  <2>2. QED
    BY <2>1 DEF Partial
<1>2. Rec(sum)
  BY <1>1
<1>3. SumTo(w, n) = sum[n]
  BY DEF SumTo
<1> HIDE DEF sum
<1>4. \A k \in 0 .. n : sum[k] = f[k]
  <2> DEFINE T == {k \in 0 .. n : sum[k] # f[k]}
  <2> SUFFICES ASSUME T # {} PROVE FALSE
    OBVIOUS
  <2>0. T \subseteq Nat
    OBVIOUS
  <2>1. PICK m \in T : \A i \in T : m <= i
    BY <2>0, MinimumExists, Zenon
  <2>2. m # 0
    BY <1>2 DEF Partial
  <2>3. m - 1 \in 0 .. n /\ m - 1 \notin T /\ m \in 1 .. n
    BY <2>1, <2>2
  <2>4. sum[m - 1] = f[m - 1]
    BY <2>3
  <2>5. f[m] = f[m - 1] + w[m] /\ sum[m] = sum[m - 1] + w[m]
    BY <1>2, <2>2, <2>3 DEF Partial
  <2>6. QED
    BY <2>4, <2>5
<1>5. QED
  BY <1>3, <1>4 DEF Partial

(***************************************************************************)
(* Splitting a block in two, and merging two into one, keeps a sum to      *)
(* which the two add what the one did (heap.cpp:66-85).                    *)
(***************************************************************************)
LEMMA SumSplit ==
  ASSUME NEW n \in Nat, NEW w, \A k \in 1 .. n : w[k] \in Int,
         NEW v, \A k \in 1 .. n + 1 : v[k] \in Int, NEW i \in 1 .. n,
         \A k \in 1 .. n : k < i => v[k] = w[k],
         v[i] + v[i + 1] = w[i],
         \A k \in 1 .. n : k > i => v[k + 1] = w[k]
  PROVE  SumTo(v, n + 1) = SumTo(w, n)
<1>1. PICK f : Partial(f, w, n)
  BY PartialExists
<1>2. /\ f \in [0 .. n -> Int] /\ f[0] = 0
      /\ \A k \in 1 .. n : f[k] = f[k - 1] + w[k]
  BY <1>1 DEF Partial
<1>3. PICK g : g = [k \in 0 .. n + 1 |-> IF k < i THEN f[k]
                      ELSE IF k = i THEN f[i - 1] + v[i] ELSE f[k - 1]]
  OBVIOUS
<1>4. i - 1 \in 0 .. n /\ f[i - 1] \in Int /\ v[i] \in Int /\ v[i + 1] \in Int
  BY <1>2
<1>5. g \in [0 .. n + 1 -> Int]
  <2>1. ASSUME NEW k \in 0 .. n + 1 PROVE g[k] \in Int
    <3>1. CASE k < i
      <4>1. k \in 0 .. n
        BY <3>1
      <4>2. g[k] = f[k]
        BY <1>3, <3>1
      <4>3. QED
        BY <1>2, <4>1, <4>2
    <3>2. CASE k = i
      BY <1>3, <1>4, <3>2
    <3>3. CASE k > i
      <4>1. k - 1 \in 0 .. n
        BY <3>3
      <4>2. QED
        BY <1>2, <1>3, <3>3, <4>1
    <3>4. QED
      BY <3>1, <3>2, <3>3
  <2>2. QED
    BY <1>3, <2>1
<1>6. g[0] = 0
  BY <1>2, <1>3
<1>7. ASSUME NEW k \in 1 .. n + 1 PROVE g[k] = g[k - 1] + v[k]
  <2>0. k \in 0 .. n + 1 /\ k - 1 \in 0 .. n + 1
    OBVIOUS
  <2>1. CASE k < i
    <3>1. g[k] = f[k] /\ g[k - 1] = f[k - 1] /\ k \in 1 .. n
      BY <1>3, <2>0, <2>1
    <3>2. v[k] = w[k]
      BY <2>1, <3>1
    <3>3. QED
      BY <1>2, <3>1, <3>2
  <2>2. CASE k = i
    BY <1>3, <2>0, <2>2
  <2>3. CASE k = i + 1
    <3>1. g[k] = f[i] /\ g[k - 1] = f[i - 1] + v[i]
      BY <1>3, <2>0, <2>3
    <3>2. f[i] = f[i - 1] + w[i]
      BY <1>2
    <3>3. QED
      BY <1>4, <2>3, <3>1, <3>2
  <2>4. CASE k > i + 1
    <3>1. g[k] = f[k - 1] /\ g[k - 1] = f[(k - 1) - 1] /\ k - 1 \in 1 .. n /\ k - 1 > i
      BY <1>3, <2>0, <2>4
    <3>2. v[(k - 1) + 1] = w[k - 1]
      BY <3>1
    <3>3. f[k - 1] = f[(k - 1) - 1] + w[k - 1]
      BY <1>2, <3>1
    <3>4. (k - 1) + 1 = k
      OBVIOUS
    <3>5. QED
      BY <3>1, <3>2, <3>3, <3>4
  <2>5. QED
    BY <2>1, <2>2, <2>3, <2>4
<1>8. Partial(g, v, n + 1) /\ n + 1 \in Nat
  BY <1>5, <1>6, <1>7 DEF Partial
<1>9. SumTo(v, n + 1) = g[n + 1]
  BY <1>8, SumToPartial
<1>10. SumTo(w, n) = f[n]
  BY <1>1, SumToPartial
<1>11. g[n + 1] = f[n]
  BY <1>3
<1>12. QED
  BY <1>9, <1>10, <1>11

(***************************************************************************)
(* One block changes: so does the sum (heap.cpp:119-121, 194-195, 213-215).*)
(***************************************************************************)
LEMMA SumChange ==
  ASSUME NEW n \in Nat, NEW w, \A k \in 1 .. n : w[k] \in Int,
         NEW v, \A k \in 1 .. n : v[k] \in Int, NEW i \in 1 .. n,
         \A k \in 1 .. n : k # i => v[k] = w[k]
  PROVE  SumTo(v, n) = SumTo(w, n) + (v[i] - w[i])
<1>1. PICK f : Partial(f, w, n)
  BY PartialExists
<1>2. /\ f \in [0 .. n -> Int] /\ f[0] = 0
      /\ \A k \in 1 .. n : f[k] = f[k - 1] + w[k]
  BY <1>1 DEF Partial
<1>3. PICK d \in Int : d = v[i] - w[i]
  OBVIOUS
<1>4. PICK g : g = [k \in 0 .. n |-> IF k < i THEN f[k] ELSE f[k] + d]
  OBVIOUS
<1>5. g \in [0 .. n -> Int] /\ g[0] = 0
  BY <1>2, <1>4
<1>6. ASSUME NEW k \in 1 .. n PROVE g[k] = g[k - 1] + v[k]
  <2>0. k \in 0 .. n /\ k - 1 \in 0 .. n /\ f[k - 1] \in Int /\ f[k] = f[k - 1] + w[k]
    BY <1>2
  <2>1. CASE k < i
    BY <1>4, <2>0, <2>1
  <2>2. CASE k = i
    <3>1. g[k] = f[k] + d /\ g[k - 1] = f[k - 1]
      BY <1>4, <2>0, <2>2
    <3>2. QED
      BY <1>3, <2>0, <2>2, <3>1
  <2>3. CASE k > i
    <3>1. g[k] = f[k] + d /\ g[k - 1] = f[k - 1] + d /\ v[k] = w[k]
      BY <1>4, <2>0, <2>3
    <3>2. QED
      BY <1>3, <2>0, <3>1
  <2>4. QED
    BY <2>1, <2>2, <2>3
<1>7. Partial(g, v, n)
  BY <1>5, <1>6 DEF Partial
<1>8. SumTo(v, n) = g[n] /\ SumTo(w, n) = f[n]
  BY <1>1, <1>7, SumToPartial
<1>9. g[n] = f[n] + d
  BY <1>4
<1>10. QED
  BY <1>3, <1>8, <1>9

(***************************************************************************)
(* A block is added at the end (heap.cpp:122-126).                         *)
(***************************************************************************)
LEMMA SumAppend ==
  ASSUME NEW n \in Nat, NEW w, \A k \in 1 .. n : w[k] \in Int,
         NEW v, \A k \in 1 .. n + 1 : v[k] \in Int,
         \A k \in 1 .. n : v[k] = w[k]
  PROVE  SumTo(v, n + 1) = SumTo(w, n) + v[n + 1]
<1>1. PICK f : Partial(f, w, n)
  BY PartialExists
<1>2. /\ f \in [0 .. n -> Int] /\ f[0] = 0
      /\ \A k \in 1 .. n : f[k] = f[k - 1] + w[k]
  BY <1>1 DEF Partial
<1>3. PICK g : g = [k \in 0 .. n + 1 |-> IF k <= n THEN f[k] ELSE f[n] + v[n + 1]]
  OBVIOUS
<1>4. f[n] + v[n + 1] \in Int
  BY <1>2
<1>5. g \in [0 .. n + 1 -> Int] /\ g[0] = 0
  BY <1>2, <1>3, <1>4
<1>6. ASSUME NEW k \in 1 .. n + 1 PROVE g[k] = g[k - 1] + v[k]
  <2>1. CASE k <= n
    <3>1. k \in 1 .. n /\ k \in 0 .. n + 1 /\ k - 1 \in 0 .. n + 1 /\ k - 1 <= n
      BY <2>1
    <3>2. g[k] = f[k] /\ g[k - 1] = f[k - 1] /\ v[k] = w[k]
      BY <1>3, <2>1, <3>1
    <3>3. QED
      BY <1>2, <3>1, <3>2
  <2>2. CASE k = n + 1
    BY <1>3, <2>2
  <2>3. QED
    BY <2>1, <2>2
<1>7. Partial(g, v, n + 1) /\ n + 1 \in Nat
  BY <1>5, <1>6 DEF Partial
<1>8. SumTo(v, n + 1) = g[n + 1]
  BY <1>7, SumToPartial
<1>9. SumTo(w, n) = f[n]
  BY <1>1, SumToPartial
<1>10. g[n + 1] = f[n] + v[n + 1]
  BY <1>3
<1>11. QED
  BY <1>8, <1>9, <1>10

(***************************************************************************)
(* Numbers that are not negative have a sum that is not (heap.cpp:195).    *)
(***************************************************************************)
LEMMA SumNotNegative ==
  ASSUME NEW n \in Nat, NEW w, \A k \in 1 .. n : w[k] \in Int /\ w[k] >= 0
  PROVE  SumTo(w, n) \in Int /\ SumTo(w, n) >= 0
<1>1. PICK f : Partial(f, w, n)
  BY PartialExists
<1>2. /\ f \in [0 .. n -> Int] /\ f[0] = 0
      /\ \A k \in 1 .. n : f[k] = f[k - 1] + w[k]
  BY <1>1 DEF Partial
<1>3. SumTo(w, n) = f[n] /\ SumTo(w, n) \in Int
  BY <1>1, SumToPartial
<1>4. \A k \in 0 .. n : f[k] >= 0
  <2> DEFINE T == {k \in 0 .. n : ~ (f[k] >= 0)}
  <2> SUFFICES ASSUME T # {} PROVE FALSE
    OBVIOUS
  <2>0. T \subseteq Nat
    OBVIOUS
  <2>1. PICK m \in T : \A i \in T : m <= i
    BY <2>0, MinimumExists, Zenon
  <2>2. m # 0
    BY <1>2
  <2>3. m - 1 \in 0 .. n /\ m - 1 \notin T /\ m \in 1 .. n
    BY <2>1, <2>2
  <2>4. f[m - 1] >= 0 /\ f[m] = f[m - 1] + w[m] /\ w[m] >= 0 /\ ~ (f[m] >= 0)
    BY <1>2, <2>3
  <2>5. f[m - 1] \in Int /\ w[m] \in Int
    BY <1>2, <2>3
  <2>6. QED
    BY <2>4, <2>5
<1>5. QED
  BY <1>3, <1>4

(***************************************************************************)
(* A part is no more than the sum, so the clamp of Free is never needed    *)
(* (heap.cpp:213-214).                                                     *)
(***************************************************************************)
LEMMA PartOfSum ==
  ASSUME NEW n \in Nat, NEW w, \A k \in 1 .. n : w[k] \in Int /\ w[k] >= 0,
         NEW i \in 1 .. n
  PROVE  w[i] <= SumTo(w, n)
<1>1. PICK v : v = [k \in 1 .. n |-> IF k = i THEN 0 ELSE w[k]]
  OBVIOUS
<1>2. \A k \in 1 .. n : v[k] \in Int /\ v[k] >= 0
  BY <1>1
<1>3. (\A k \in 1 .. n : k # i => v[k] = w[k]) /\ v[i] = 0
  BY <1>1
<1>4. SumTo(v, n) \in Int /\ SumTo(v, n) >= 0
  BY <1>2, SumNotNegative
<1>5. SumTo(v, n) = SumTo(w, n) + (v[i] - w[i])
  BY <1>2, <1>3, SumChange
<1>6. SumTo(w, n) \in Int /\ w[i] \in Int
  BY SumNotNegative
<1>7. QED
  BY <1>3, <1>4, <1>5, <1>6

(***************************************************************************)
(* Smaller parts have a smaller sum: the used payload is no more than the  *)
(* mapped heap (heap.cpp:195).                                             *)
(***************************************************************************)
LEMMA SumMonotone ==
  ASSUME NEW n \in Nat, NEW w, \A k \in 1 .. n : w[k] \in Int,
         NEW v, \A k \in 1 .. n : v[k] \in Int,
         \A k \in 1 .. n : w[k] <= v[k]
  PROVE  SumTo(w, n) <= SumTo(v, n)
<1>1. PICK f : Partial(f, w, n)
  BY PartialExists
<1>2. PICK g : Partial(g, v, n)
  BY PartialExists
<1>3. /\ f \in [0 .. n -> Int] /\ f[0] = 0
      /\ \A k \in 1 .. n : f[k] = f[k - 1] + w[k]
  BY <1>1 DEF Partial
<1>4. /\ g \in [0 .. n -> Int] /\ g[0] = 0
      /\ \A k \in 1 .. n : g[k] = g[k - 1] + v[k]
  BY <1>2 DEF Partial
<1>5. SumTo(w, n) = f[n] /\ SumTo(v, n) = g[n]
  BY <1>1, <1>2, SumToPartial
<1>6. \A k \in 0 .. n : f[k] <= g[k]
  <2> DEFINE T == {k \in 0 .. n : ~ (f[k] <= g[k])}
  <2> SUFFICES ASSUME T # {} PROVE FALSE
    OBVIOUS
  <2>0. T \subseteq Nat
    OBVIOUS
  <2>1. PICK m \in T : \A i \in T : m <= i
    BY <2>0, MinimumExists, Zenon
  <2>2. m # 0
    BY <1>3, <1>4
  <2>3. m - 1 \in 0 .. n /\ m - 1 \notin T /\ m \in 1 .. n
    BY <2>1, <2>2
  <2>4. f[m - 1] <= g[m - 1] /\ w[m] <= v[m] /\ ~ (f[m] <= g[m])
    BY <2>3
  <2>5. f[m] = f[m - 1] + w[m] /\ g[m] = g[m - 1] + v[m]
    BY <1>3, <1>4, <2>3
  <2>6. f[m - 1] \in Int /\ g[m - 1] \in Int /\ w[m] \in Int /\ v[m] \in Int
    BY <1>3, <1>4, <2>3
  <2>7. QED
    BY <2>4, <2>5, <2>6
<1>7. QED
  BY <1>5, <1>6

------------------------------------------------------------------------------
\* t holds the elements of a, then those of b.
Join(t, a, b, S) ==
  /\ t \in Seq(S) /\ Len(t) = Len(a) + Len(b)
  /\ \A k \in 1 .. Len(a) : t[k] = a[k]
  /\ \A k \in 1 .. Len(b) : t[Len(a) + k] = b[k]

(***************************************************************************)
(* One list after another (heap.cpp:66-85).                                *)
(***************************************************************************)
LEMMA Joined ==
  ASSUME NEW S, NEW a \in Seq(S), NEW b \in Seq(S), NEW t, t = a \o b
  PROVE  Join(t, a, b, S)
<1>1. t \in Seq(S) /\ Len(t) = Len(a) + Len(b)
  OBVIOUS
<1>2. ASSUME NEW k \in 1 .. Len(a) PROVE t[k] = a[k]
  OBVIOUS
<1>3. ASSUME NEW k \in 1 .. Len(b) PROVE t[Len(a) + k] = b[k]
  <2>1. PICK m \in Nat : m = Len(a) + k
    OBVIOUS
  <2>2. m \in 1 .. Len(a) + Len(b) /\ ~ (m <= Len(a)) /\ m - Len(a) = k
    BY <2>1
  <2>3. (a \o b)[m] = b[m - Len(a)]
    BY <2>2
  <2>4. QED
    BY <2>1, <2>2, <2>3
<1>4. QED
  BY <1>1, <1>2, <1>3 DEF Join

\* t is s with elements i .. j replaced by those of mid.
Spliced(t, s, mid, i, j, S) ==
  /\ t \in Seq(S) /\ Len(t) = (i - 1) + Len(mid) + (Len(s) - j)
  /\ \A k \in 1 .. i - 1 : t[k] = s[k]
  /\ \A k \in 1 .. Len(mid) : t[(i - 1) + k] = mid[k]
  /\ \A k \in 1 .. Len(s) - j : t[(i - 1) + Len(mid) + k] = s[j + k]

(***************************************************************************)
(* Elements i .. j of a list give way to those of mid: what relinking      *)
(* headers does to the list (heap.cpp:66-85).                              *)
(***************************************************************************)
LEMMA Splice ==
  ASSUME NEW S, NEW s \in Seq(S), NEW mid \in Seq(S),
         NEW i \in 1 .. Len(s), NEW j \in i .. Len(s),
         NEW t, t = SubSeq(s, 1, i - 1) \o mid \o SubSeq(s, j + 1, Len(s))
  PROVE  Spliced(t, s, mid, i, j, S)
<1> DEFINE front == SubSeq(s, 1, i - 1)
           back == SubSeq(s, j + 1, Len(s))
<1>1. front \in Seq(S) /\ Len(front) = i - 1 /\ \A k \in 1 .. i - 1 : front[k] = s[k]
  OBVIOUS
<1>2. back \in Seq(S) /\ Len(back) = Len(s) - j
  OBVIOUS
<1>3. \A k \in 1 .. Len(s) - j : back[k] = s[j + k]
  OBVIOUS
<1> HIDE DEF front, back
<1>4. PICK fm : fm = front \o mid
  OBVIOUS
<1>5. /\ fm \in Seq(S) /\ Len(fm) = (i - 1) + Len(mid)
      /\ \A k \in 1 .. i - 1 : fm[k] = front[k]
      /\ \A k \in 1 .. Len(mid) : fm[(i - 1) + k] = mid[k]
  <2>1. /\ fm \in Seq(S) /\ Len(fm) = Len(front) + Len(mid)
        /\ \A k \in 1 .. Len(front) : fm[k] = front[k]
        /\ \A k \in 1 .. Len(mid) : fm[Len(front) + k] = mid[k]
    <3>1. front \in Seq(S) /\ mid \in Seq(S) /\ fm = front \o mid
      BY <1>1, <1>4
    <3>2. Join(fm, front, mid, S)
      BY <3>1, Joined, Zenon
    <3>3. QED
      BY <3>2 DEF Join
  <2>2. QED
    BY <1>1, <2>1
<1>6. t = fm \o back
  BY <1>4 DEF front, back
<1>7. /\ t \in Seq(S) /\ Len(t) = Len(fm) + Len(back)
      /\ \A k \in 1 .. Len(fm) : t[k] = fm[k]
      /\ \A k \in 1 .. Len(back) : t[Len(fm) + k] = back[k]
  <2>1. fm \in Seq(S) /\ back \in Seq(S) /\ t = fm \o back
    BY <1>2, <1>5, <1>6
  <2>2. Join(t, fm, back, S)
    BY <2>1, Joined, Zenon
  <2>3. QED
    BY <2>2 DEF Join
<1>8. Len(mid) \in Nat /\ Len(s) - j \in Nat /\ i - 1 \in Nat
  OBVIOUS
<1>9. ASSUME NEW k \in 1 .. i - 1 PROVE t[k] = s[k]
  <2>1. k \in 1 .. Len(fm)
    BY <1>5, <1>8
  <2>2. QED
    BY <1>1, <1>5, <1>7, <2>1
<1>10. ASSUME NEW k \in 1 .. Len(mid) PROVE t[(i - 1) + k] = mid[k]
  <2>1. (i - 1) + k \in 1 .. Len(fm)
    BY <1>5, <1>8
  <2>2. QED
    BY <1>5, <1>7, <2>1
<1>11. ASSUME NEW k \in 1 .. Len(s) - j
       PROVE  t[(i - 1) + Len(mid) + k] = s[j + k]
  <2>1. k \in 1 .. Len(back)
    BY <1>2
  <2>2. t[Len(fm) + k] = back[k]
    BY <1>7, <2>1
  <2>3. Len(fm) + k = (i - 1) + Len(mid) + k
    BY <1>5
  <2>4. QED
    BY <1>3, <2>2, <2>3
<1>12. QED
  BY <1>2, <1>5, <1>7, <1>8, <1>9, <1>10, <1>11 DEF Spliced

------------------------------------------------------------------------------
Block == [addr : Nat, size : Nat, used : BOOLEAN]

\* rs is bs with free block i cut in two free ones.
SplitOf(rs, bs, i) ==
  /\ rs \in Seq(Block) /\ Len(rs) = Len(bs) + 1
  /\ \A k \in 1 .. i - 1 : rs[k] = bs[k]
  /\ \A k \in i + 1 .. Len(bs) : rs[k + 1] = bs[k]
  /\ rs[i].addr = bs[i].addr /\ rs[i].used = bs[i].used /\ ~rs[i + 1].used
  /\ rs[i + 1].addr = rs[i].addr + HeaderSize + rs[i].size
  /\ bs[i].size = rs[i].size + HeaderSize + rs[i + 1].size

\* rs is bs with block i + 1 merged into block i.
MergeOf(rs, bs, i) ==
  /\ rs \in Seq(Block) /\ Len(bs) = Len(rs) + 1
  /\ \A k \in 1 .. i - 1 : rs[k] = bs[k]
  /\ \A k \in i + 1 .. Len(rs) : rs[k] = bs[k + 1]
  /\ rs[i].addr = bs[i].addr /\ rs[i].used = bs[i].used
  /\ rs[i].size = bs[i].size + HeaderSize + bs[i + 1].size

\* rs is bs with block i, at its address, of another size or use.
ChangeOf(rs, bs, i, size, inUse) ==
  /\ rs \in Seq(Block) /\ Len(rs) = Len(bs)
  /\ \A k \in 1 .. Len(bs) : k # i => rs[k] = bs[k]
  /\ rs[i].addr = bs[i].addr /\ rs[i].size = size /\ rs[i].used = inUse

\* rs is bs and a last block b.
AppendOf(rs, bs, b) ==
  /\ rs \in Seq(Block) /\ Len(rs) = Len(bs) + 1
  /\ \A k \in 1 .. Len(bs) : rs[k] = bs[k]
  /\ rs[Len(bs) + 1] = b

(***************************************************************************)
(* split_block cuts a block in two, or leaves it whole (heap.cpp:66-76).   *)
(***************************************************************************)
LEMMA SplitShape ==
  ASSUME NEW bs \in Seq(Block), NEW i \in 1 .. Len(bs), NEW n \in Nat
  PROVE  \/ bs[i].size <= n + HeaderSize + SPLIT_THRESHOLD /\ split_block(bs, i, n) = bs
         \/ SplitOf(split_block(bs, i, n), bs, i) /\ split_block(bs, i, n)[i].size = n
<1>1. CASE bs[i].size <= n + HeaderSize + SPLIT_THRESHOLD
  BY <1>1 DEF split_block
<1>2. CASE ~ (bs[i].size <= n + HeaderSize + SPLIT_THRESHOLD)
  <2>1. PICK b : b = bs[i]
    OBVIOUS
  <2>2. b \in Block
    BY <2>1
  <2>3. PICK c : c = [b EXCEPT !.size = n]
    OBVIOUS
  <2>4. c \in Block /\ c.addr = b.addr /\ c.used = b.used /\ c.size = n
    BY <2>2, <2>3 DEF Block
  <2>5. PICK r : r = [addr |-> payload_start(b) + n, size |-> b.size - n - HeaderSize, used |-> FALSE]
    OBVIOUS
  <2>6. /\ b.addr \in Nat /\ b.size \in Nat /\ HeaderSize \in Nat /\ SPLIT_THRESHOLD \in Nat
        /\ b.size > n + HeaderSize + SPLIT_THRESHOLD
    BY <1>2, <2>1, <2>2, HeapConstants DEF Block
  <2>7. r \in Block /\ r.addr = b.addr + HeaderSize + n /\ r.size = b.size - n - HeaderSize /\ ~r.used
    BY <2>5, <2>6 DEF Block, payload_start
  <2>8. PICK t : t = split_block(bs, i, n)
    OBVIOUS
  <2>9. t = SubSeq(bs, 1, i - 1) \o <<c, r>> \o SubSeq(bs, i + 1, Len(bs))
    BY <1>2, <2>1, <2>3, <2>5, <2>8 DEF split_block
  <2>10. PICK mid : mid = <<c, r>>
    OBVIOUS
  <2>11. mid \in Seq(Block) /\ Len(mid) = 2 /\ mid[1] = c /\ mid[2] = r
    BY <2>4, <2>7, <2>10
  <2>12. t = SubSeq(bs, 1, i - 1) \o mid \o SubSeq(bs, i + 1, Len(bs))
    BY <2>9, <2>10
  <2>13. i \in i .. Len(bs)
    OBVIOUS
  <2>14. /\ t \in Seq(Block) /\ Len(t) = (i - 1) + Len(mid) + (Len(bs) - i)
         /\ \A k \in 1 .. i - 1 : t[k] = bs[k]
         /\ \A k \in 1 .. Len(mid) : t[(i - 1) + k] = mid[k]
         /\ \A k \in 1 .. Len(bs) - i : t[(i - 1) + Len(mid) + k] = bs[i + k]
    <3>1. Spliced(t, bs, mid, i, i, Block)
      BY <2>11, <2>12, <2>13, Splice, Zenon
    <3>2. QED
      BY <3>1 DEF Spliced
  <2>15. Len(t) = Len(bs) + 1
    BY <2>11, <2>14
  <2>16. t[i] = c /\ t[i + 1] = r
    <3>1. t[(i - 1) + 1] = mid[1] /\ t[(i - 1) + 2] = mid[2]
      BY <2>11, <2>14
    <3>2. (i - 1) + 1 = i /\ (i - 1) + 2 = i + 1
      OBVIOUS
    <3>3. QED
      BY <2>11, <3>1, <3>2
  <2>17. ASSUME NEW k \in i + 1 .. Len(bs) PROVE t[k + 1] = bs[k]
    <3>1. PICK m \in 1 .. Len(bs) - i : m = k - i
      OBVIOUS
    <3>2. t[(i - 1) + Len(mid) + m] = bs[i + m]
      BY <2>14
    <3>3. (i - 1) + Len(mid) + m = k + 1 /\ i + m = k
      BY <2>11, <3>1
    <3>4. QED
      BY <3>2, <3>3
  <2>18. SplitOf(t, bs, i) /\ t[i].size = n
    <3>1. t[i].addr = bs[i].addr /\ t[i].used = bs[i].used /\ ~t[i + 1].used /\ t[i].size = n
      BY <2>1, <2>4, <2>7, <2>16
    <3>2. t[i + 1].addr = t[i].addr + HeaderSize + t[i].size
      BY <2>4, <2>7, <2>16
    <3>3. bs[i].size = t[i].size + HeaderSize + t[i + 1].size
      <4>1. b.size = c.size + HeaderSize + r.size
        BY <2>4, <2>6, <2>7
      <4>2. QED
        BY <4>1, <2>1, <2>16
    <3>4. QED
      BY <2>14, <2>15, <2>17, <3>1, <3>2, <3>3 DEF SplitOf
  <2>19. QED
    BY <2>8, <2>18
<1>3. QED
  BY <1>1, <1>2

(***************************************************************************)
(* absorb_next merges the next block, when it is free (heap.cpp:78-85).    *)
(***************************************************************************)
LEMMA MergeShape ==
  ASSUME NEW bs \in Seq(Block), NEW i \in 1 .. Len(bs), i < Len(bs), ~bs[i + 1].used,
         bs[i].size + HeaderSize + bs[i + 1].size < Word
  PROVE  MergeOf(absorb_next(bs, i), bs, i)
<1>1. i + 1 \in 1 .. Len(bs) /\ i + 1 \in i .. Len(bs)
  OBVIOUS
<1>2. PICK b : b = bs[i]
  OBVIOUS
<1>3. PICK z : z = bs[i + 1].size
  OBVIOUS
<1>4. b \in Block /\ b.size \in Nat /\ z \in Nat /\ HeaderSize \in Nat /\ Word \in Nat
  <2>1. b \in Block /\ bs[i + 1] \in Block
    BY <1>1, <1>2
  <2>2. b.size \in Nat /\ bs[i + 1].size \in Nat
    BY <2>1 DEF Block
  <2>3. QED
    BY <1>3, <2>1, <2>2, HeapConstants
<1>5. PICK m : m = b.size + HeaderSize + z
  OBVIOUS
<1>6. m \in Nat /\ m < Word
  BY <1>2, <1>3, <1>4, <1>5
<1>7. m % Word = m
  BY <1>4, <1>6
<1>8. PICK c : c = [b EXCEPT !.size = m]
  OBVIOUS
<1>9. c \in Block /\ c.addr = b.addr /\ c.used = b.used /\ c.size = m
  BY <1>4, <1>6, <1>8 DEF Block
<1>10. PICK t : t = absorb_next(bs, i)
  OBVIOUS
<1>11. PICK mid : mid = <<c>>
  OBVIOUS
<1>12. mid \in Seq(Block) /\ Len(mid) = 1 /\ mid[1] = c
  BY <1>9, <1>11
<1>13. [bs[i] EXCEPT !.size = (@ + HeaderSize + bs[i + 1].size) % Word] = c
  BY <1>2, <1>3, <1>4, <1>5, <1>7, <1>8 DEF Block
<1>14. t = SubSeq(bs, 1, i - 1) \o mid \o SubSeq(bs, (i + 1) + 1, Len(bs))
  <2>1. (i + 1) + 1 = i + 2
    OBVIOUS
  <2>2. QED
    BY <1>10, <1>11, <1>13, <2>1 DEF absorb_next
<1>15. /\ t \in Seq(Block) /\ Len(t) = (i - 1) + Len(mid) + (Len(bs) - (i + 1))
       /\ \A k \in 1 .. i - 1 : t[k] = bs[k]
       /\ \A k \in 1 .. Len(mid) : t[(i - 1) + k] = mid[k]
       /\ \A k \in 1 .. Len(bs) - (i + 1) : t[(i - 1) + Len(mid) + k] = bs[(i + 1) + k]
  <2>1. Spliced(t, bs, mid, i, i + 1, Block)
    BY <1>1, <1>12, <1>14, Splice, Zenon
  <2>2. QED
    BY <2>1 DEF Spliced
<1>16. Len(bs) = Len(t) + 1
  <2>1. PICK n \in Nat : n = Len(bs)
    BY <1>1
  <2>2. Len(t) = (i - 1) + 1 + (n - (i + 1))
    BY <1>12, <1>15, <2>1
  <2>3. (i - 1) + 1 + (n - (i + 1)) = n - 1
    BY <2>1
  <2>4. QED
    BY <2>1, <2>2, <2>3
<1>17. t[i] = c
  <2>1. t[(i - 1) + 1] = mid[1]
    BY <1>12, <1>15
  <2>2. (i - 1) + 1 = i
    OBVIOUS
  <2>3. QED
    BY <1>12, <2>1, <2>2
<1>18. ASSUME NEW k \in i + 1 .. Len(t) PROVE t[k] = bs[k + 1]
  <2>1. PICK j \in 1 .. Len(bs) - (i + 1) : j = k - i
    BY <1>16
  <2>2. t[(i - 1) + Len(mid) + j] = bs[(i + 1) + j]
    <3>1. \A x \in 1 .. Len(bs) - (i + 1) : t[(i - 1) + Len(mid) + x] = bs[(i + 1) + x]
      BY <1>15
    <3>2. QED
      BY <3>1, Zenon
  <2>3. (i - 1) + Len(mid) + j = k /\ (i + 1) + j = k + 1
    <3>1. PICK l \in Nat : l = Len(mid) /\ l = 1
      BY <1>12
    <3>2. i \in Int /\ j \in Int /\ k \in Int /\ j = k - i
      BY <2>1
    <3>3. (i - 1) + l + j = k /\ (i + 1) + j = k + 1
      BY <3>1, <3>2
    <3>4. QED
      BY <3>1, <3>3
  <2>4. QED
    BY <2>2, <2>3
<1>19. t[i].addr = bs[i].addr /\ t[i].used = bs[i].used
  BY <1>2, <1>9, <1>17
<1>20. t[i].size = bs[i].size + HeaderSize + bs[i + 1].size
  BY <1>2, <1>3, <1>5, <1>9, <1>17
<1>21. MergeOf(t, bs, i)
  BY <1>15, <1>16, <1>18, <1>19, <1>20 DEF MergeOf
<1>22. QED
  BY <1>10, <1>21

(***************************************************************************)
(* What a header holds (heap.cpp:9-16).                                    *)
(***************************************************************************)
LEMMA BlockTypes ==
  ASSUME NEW bs \in Seq(Block), NEW k \in 1 .. Len(bs)
  PROVE  /\ bs[k] \in Block /\ bs[k].addr \in Nat /\ bs[k].size \in Nat
         /\ bs[k].used \in BOOLEAN
<1>1. bs[k] \in Block
  OBVIOUS
<1>2. QED
  BY <1>1 DEF Block

(***************************************************************************)
(* A size or a use written in a header (heap.cpp:119-121, 194, 215).       *)
(***************************************************************************)
LEMMA ChangeShape ==
  ASSUME NEW bs \in Seq(Block), NEW i \in 1 .. Len(bs)
  PROVE  /\ \A u \in BOOLEAN : ChangeOf([bs EXCEPT ![i].used = u], bs, i, bs[i].size, u)
         /\ \A z \in Nat : ChangeOf([bs EXCEPT ![i].size = z], bs, i, z, bs[i].used)
<1>1. bs[i] \in Block
  BY BlockTypes
<1>2. ASSUME NEW u \in BOOLEAN
      PROVE  ChangeOf([bs EXCEPT ![i].used = u], bs, i, bs[i].size, u)
  <2>1. PICK c : c = [bs[i] EXCEPT !.used = u]
    OBVIOUS
  <2>2. c \in Block /\ c.addr = bs[i].addr /\ c.size = bs[i].size /\ c.used = u
    BY <1>1, <2>1 DEF Block
  <2>3. PICK rs : rs = [bs EXCEPT ![i] = c]
    OBVIOUS
  <2>4. /\ rs \in Seq(Block) /\ Len(rs) = Len(bs) /\ rs[i] = c
        /\ \A k \in 1 .. Len(bs) : k # i => rs[k] = bs[k]
    BY <2>2, <2>3
  <2>5. [bs EXCEPT ![i].used = u] = rs
    BY <2>1, <2>3
  <2>6. ChangeOf(rs, bs, i, bs[i].size, u)
    BY <2>2, <2>4 DEF ChangeOf
  <2>7. QED
    BY <2>5, <2>6
<1>3. ASSUME NEW z \in Nat
      PROVE  ChangeOf([bs EXCEPT ![i].size = z], bs, i, z, bs[i].used)
  <2>1. PICK c : c = [bs[i] EXCEPT !.size = z]
    OBVIOUS
  <2>2. c \in Block /\ c.addr = bs[i].addr /\ c.size = z /\ c.used = bs[i].used
    BY <1>1, <2>1 DEF Block
  <2>3. PICK rs : rs = [bs EXCEPT ![i] = c]
    OBVIOUS
  <2>4. /\ rs \in Seq(Block) /\ Len(rs) = Len(bs) /\ rs[i] = c
        /\ \A k \in 1 .. Len(bs) : k # i => rs[k] = bs[k]
    BY <2>2, <2>3
  <2>5. [bs EXCEPT ![i].size = z] = rs
    BY <2>1, <2>3
  <2>6. ChangeOf(rs, bs, i, z, bs[i].used)
    BY <2>2, <2>4 DEF ChangeOf
  <2>7. QED
    BY <2>5, <2>6
<1>4. QED
  BY <1>2, <1>3

(***************************************************************************)
(* A new last block (heap.cpp:122-126).                                    *)
(***************************************************************************)
LEMMA AppendShape ==
  ASSUME NEW bs \in Seq(Block), NEW b \in Block
  PROVE  AppendOf(Append(bs, b), bs, b)
<1>1. PICK rs : rs = Append(bs, b)
  OBVIOUS
<1>2. rs \in Seq(Block) /\ Len(rs) = Len(bs) + 1 /\ rs[Len(bs) + 1] = b
  BY <1>1
<1>3. \A k \in 1 .. Len(bs) : rs[k] = bs[k]
  BY <1>1
<1>4. QED
  BY <1>1, <1>2, <1>3 DEF AppendOf

------------------------------------------------------------------------------
EndOf(bs, k) == bs[k].addr + HeaderSize + bs[k].size

\* The headers lie in the mapped heap, each before the ones after it.
Ordered(bs, end) ==
  /\ \A k \in 1 .. Len(bs) : bs[k].addr >= Base /\ EndOf(bs, k) <= end
  /\ \A k, m \in 1 .. Len(bs) : k < m => EndOf(bs, k) <= bs[m].addr

\* No two neighbours are free, but for the pairs that start at an index in S.
NoFreeBut(bs, S) ==
  \A k \in 1 .. Len(bs) - 1 : k \notin S => bs[k].used \/ bs[k + 1].used

\* Every used block of bs is one of rs.
KeepsUsed(rs, bs) ==
  \A k \in 1 .. Len(bs) : bs[k].used => \E m \in 1 .. Len(rs) : rs[m] = bs[k]

(***************************************************************************)
(* The halves of a block lie where the block did (heap.cpp:66-76).         *)
(***************************************************************************)
LEMMA SplitOrdered ==
  ASSUME NEW bs \in Seq(Block), NEW rs, NEW i \in 1 .. Len(bs), NEW end \in Nat,
         SplitOf(rs, bs, i), Ordered(bs, end)
  PROVE  Ordered(rs, end)
<1>1. HeaderSize \in Nat /\ Base \in Nat
  BY HeapConstants
<1>2. rs \in Seq(Block) /\ Len(rs) = Len(bs) + 1
  BY DEF SplitOf
<1>3. PICK old : old = [k \in 1 .. Len(rs) |-> IF k <= i THEN k ELSE k - 1]
  OBVIOUS
<1>4. \A k \in 1 .. Len(rs) : old[k] \in 1 .. Len(bs)
  BY <1>2, <1>3
<1>5. ASSUME NEW k \in 1 .. Len(rs)
      PROVE  rs[k].addr >= bs[old[k]].addr /\ EndOf(rs, k) <= EndOf(bs, old[k])
  <2>1. CASE k < i
    <3>1. rs[k] = bs[k] /\ old[k] = k
      BY <1>3, <2>1 DEF SplitOf
    <3>2. k \in 1 .. Len(bs) /\ bs[k].addr \in Nat /\ bs[k].size \in Nat
      BY <2>1, BlockTypes
    <3>3. QED
      BY <1>1, <3>1, <3>2 DEF EndOf
  <2>2. CASE k = i \/ k = i + 1
    <3>1. i \in 1 .. Len(rs) /\ i + 1 \in 1 .. Len(rs)
      BY <1>2
    <3>2. rs[i].addr \in Nat /\ rs[i].size \in Nat /\ rs[i + 1].size \in Nat
      BY <1>2, <3>1, BlockTypes
    <3>3. rs[i].addr = bs[i].addr /\ rs[i + 1].addr = rs[i].addr + HeaderSize + rs[i].size
      BY DEF SplitOf
    <3>4. bs[i].size = rs[i].size + HeaderSize + rs[i + 1].size
      BY DEF SplitOf
    <3>5. old[k] = i
      BY <1>3, <2>2
    <3>6. PICK a, z, y, h : a = rs[i].addr /\ z = rs[i].size /\ y = rs[i + 1].size /\ h = HeaderSize
      OBVIOUS
    <3>a. a \in Nat /\ z \in Nat /\ y \in Nat /\ h \in Nat
      BY <1>1, <3>2, <3>6
    <3>b. rs[i + 1].addr = a + h + z /\ bs[i].addr = a /\ bs[i].size = z + h + y
      BY <3>3, <3>4, <3>6
    <3>c. /\ EndOf(rs, i) = a + h + z /\ EndOf(rs, i + 1) = (a + h + z) + h + y
          /\ EndOf(bs, i) = a + h + (z + h + y)
      BY <3>6, <3>b DEF EndOf
    <3>d. a >= a /\ a + h + z >= a
      BY <3>a
    <3>7. rs[i].addr >= bs[i].addr /\ rs[i + 1].addr >= bs[i].addr
      <4>1. PICK x, y1 : x = rs[i + 1].addr /\ y1 = bs[i].addr
        OBVIOUS
      <4>2. x >= y1 /\ a >= y1
        BY <3>b, <3>d, <4>1
      <4>3. QED
        BY <3>6, <4>1, <4>2
    <3>8. EndOf(rs, i) <= EndOf(bs, i) /\ EndOf(rs, i + 1) <= EndOf(bs, i)
      BY <3>a, <3>c
    <3>9. CASE k = i
      BY <3>5, <3>7, <3>8, <3>9
    <3>10. CASE k = i + 1
      BY <3>5, <3>7, <3>8, <3>10
    <3>11. QED
      BY <2>2, <3>9, <3>10
  <2>3. CASE k > i + 1
    <3>1. k - 1 \in i + 1 .. Len(bs) /\ k - 1 \in 1 .. Len(bs) /\ old[k] = k - 1
      BY <1>2, <1>3, <2>3
    <3>2. rs[(k - 1) + 1] = bs[k - 1] /\ (k - 1) + 1 = k
      BY <3>1 DEF SplitOf
    <3>3. bs[k - 1].addr \in Nat /\ bs[k - 1].size \in Nat
      BY <3>1, BlockTypes
    <3>4. QED
      BY <1>1, <3>1, <3>2, <3>3 DEF EndOf
  <2>4. QED
    BY <2>1, <2>2, <2>3
<1>6. \A k \in 1 .. Len(rs) : rs[k].addr \in Nat /\ rs[k].size \in Nat /\ EndOf(rs, k) \in Nat
  BY <1>1, <1>2, BlockTypes DEF EndOf
<1>7. \A k \in 1 .. Len(bs) : bs[k].addr \in Nat /\ EndOf(bs, k) \in Nat
  BY <1>1, BlockTypes DEF EndOf
<1>8. ASSUME NEW k \in 1 .. Len(rs) PROVE rs[k].addr >= Base /\ EndOf(rs, k) <= end
  <2>1. bs[old[k]].addr >= Base /\ EndOf(bs, old[k]) <= end
    BY <1>4 DEF Ordered
  <2>2. PICK m \in 1 .. Len(bs) : m = old[k]
    BY <1>4
  <2>3. rs[k].addr >= bs[m].addr /\ EndOf(rs, k) <= EndOf(bs, m)
    BY <1>5, <2>2
  <2>4. /\ rs[k].addr \in Nat /\ EndOf(rs, k) \in Nat /\ bs[m].addr \in Nat /\ EndOf(bs, m) \in Nat
        /\ Base \in Nat /\ end \in Int
    BY <1>1, <1>6, <1>7
  <2>5. bs[m].addr >= Base /\ EndOf(bs, m) <= end
    BY <2>1, <2>2
  <2>6. PICK x, y, z, w : x = rs[k].addr /\ y = bs[m].addr /\ z = EndOf(rs, k) /\ w = EndOf(bs, m)
    OBVIOUS
  <2>7. QED
    BY <2>3, <2>4, <2>5, <2>6
<1>9. ASSUME NEW k \in 1 .. Len(rs), NEW m \in 1 .. Len(rs), k < m
      PROVE  EndOf(rs, k) <= rs[m].addr
  <2>1. CASE old[k] < old[m]
    <3>1. EndOf(bs, old[k]) <= bs[old[m]].addr
      BY <1>4, <2>1 DEF Ordered
    <3>2. EndOf(rs, k) <= EndOf(bs, old[k]) /\ rs[m].addr >= bs[old[m]].addr
      BY <1>5
    <3>3. EndOf(rs, k) \in Nat /\ EndOf(bs, old[k]) \in Nat
      BY <1>4, <1>6, <1>7
    <3>4. rs[m].addr \in Nat /\ bs[old[m]].addr \in Nat
      BY <1>4, <1>6, <1>7
    <3>5. QED
      BY <3>1, <3>2, <3>3, <3>4
  <2>2. CASE ~ (old[k] < old[m])
    <3>1. k = i /\ m = i + 1
      BY <1>2, <1>3, <1>9, <2>2
    <3>2. QED
      BY <1>6, <3>1 DEF SplitOf, EndOf
  <2>3. QED
    BY <2>1, <2>2
<1>10. QED
  BY <1>8, <1>9 DEF Ordered

(***************************************************************************)
(* A merged block reaches from the first to the end of the second at most, *)
(* a hole between them included (heap.cpp:78-85).                          *)
(***************************************************************************)
LEMMA MergeOrdered ==
  ASSUME NEW bs \in Seq(Block), NEW rs, NEW i \in 1 .. Len(bs), i < Len(bs), NEW end \in Nat,
         MergeOf(rs, bs, i), Ordered(bs, end)
  PROVE  Ordered(rs, end)
<1>1. HeaderSize \in Nat /\ Base \in Nat
  BY HeapConstants
<1>2. rs \in Seq(Block) /\ Len(bs) = Len(rs) + 1 /\ Len(rs) \in Nat /\ i \in 1 .. Len(rs)
  BY DEF MergeOf
<1>3. PICK lo : lo = [k \in 1 .. Len(rs) |-> IF k <= i THEN k ELSE k + 1]
  OBVIOUS
<1>4. PICK hi : hi = [k \in 1 .. Len(rs) |-> IF k < i THEN k ELSE k + 1]
  OBVIOUS
<1>5. \A k \in 1 .. Len(rs) : lo[k] \in 1 .. Len(bs) /\ hi[k] \in 1 .. Len(bs)
  BY <1>2, <1>3, <1>4
<1>6. \A k \in 1 .. Len(rs) : rs[k].addr \in Nat /\ rs[k].size \in Nat /\ EndOf(rs, k) \in Nat
  BY <1>1, <1>2, BlockTypes DEF EndOf
<1>7. \A k \in 1 .. Len(bs) : bs[k].addr \in Nat /\ bs[k].size \in Nat /\ EndOf(bs, k) \in Nat
  BY <1>1, BlockTypes DEF EndOf
<1>8. ASSUME NEW k \in 1 .. Len(rs)
      PROVE  rs[k].addr = bs[lo[k]].addr /\ EndOf(rs, k) <= EndOf(bs, hi[k])
  <2>1. CASE k < i
    <3>1. rs[k] = bs[k] /\ lo[k] = k /\ hi[k] = k
      BY <1>3, <1>4, <2>1 DEF MergeOf
    <3>2. EndOf(rs, k) = EndOf(bs, k)
      BY <3>1 DEF EndOf
    <3>3. QED
      BY <1>6, <3>1, <3>2
  <2>2. CASE k = i
    <3>1. lo[k] = i /\ hi[k] = i + 1 /\ i + 1 \in 1 .. Len(bs)
      BY <1>3, <1>4, <2>2
    <3>2. rs[i].addr = bs[i].addr /\ rs[i].size = bs[i].size + HeaderSize + bs[i + 1].size
      BY DEF MergeOf
    <3>3. EndOf(bs, i) <= bs[i + 1].addr
      BY <3>1 DEF Ordered
    <3>4. PICK a, z, y, h, b : /\ a = bs[i].addr /\ z = bs[i].size /\ y = bs[i + 1].size
                               /\ h = HeaderSize /\ b = bs[i + 1].addr
      OBVIOUS
    <3>5. a \in Nat /\ z \in Nat /\ y \in Nat /\ h \in Nat /\ b \in Nat
      BY <1>1, <1>7, <3>1, <3>4
    <3>6. EndOf(rs, i) = a + h + (z + h + y) /\ EndOf(bs, i + 1) = b + h + y
      BY <3>2, <3>4 DEF EndOf
    <3>7. a + h + z <= b
      BY <3>3, <3>4 DEF EndOf
    <3>8. a + h + (z + h + y) <= b + h + y
      BY <3>5, <3>7
    <3>9. QED
      BY <2>2, <3>1, <3>2, <3>6, <3>8
  <2>3. CASE k > i
    <3>1. rs[k] = bs[k + 1] /\ lo[k] = k + 1 /\ hi[k] = k + 1
      BY <1>3, <1>4, <2>3 DEF MergeOf
    <3>2. EndOf(rs, k) = EndOf(bs, k + 1)
      BY <3>1 DEF EndOf
    <3>3. QED
      BY <1>6, <3>1, <3>2
  <2>4. QED
    BY <2>1, <2>2, <2>3
<1>9. ASSUME NEW k \in 1 .. Len(rs) PROVE rs[k].addr >= Base /\ EndOf(rs, k) <= end
  <2>1. bs[lo[k]].addr >= Base /\ EndOf(bs, hi[k]) <= end
    BY <1>5 DEF Ordered
  <2>2. rs[k].addr = bs[lo[k]].addr /\ EndOf(rs, k) <= EndOf(bs, hi[k])
    BY <1>8
  <2>3. EndOf(rs, k) \in Nat /\ EndOf(bs, hi[k]) \in Nat
    BY <1>5, <1>6, <1>7
  <2>4. QED
    BY <2>1, <2>2, <2>3
<1>10. ASSUME NEW k \in 1 .. Len(rs), NEW m \in 1 .. Len(rs), k < m
       PROVE  EndOf(rs, k) <= rs[m].addr
  <2>1. hi[k] < lo[m]
    BY <1>2, <1>3, <1>4, <1>10
  <2>2. EndOf(bs, hi[k]) <= bs[lo[m]].addr
    BY <1>5, <2>1 DEF Ordered
  <2>3. EndOf(rs, k) <= EndOf(bs, hi[k]) /\ rs[m].addr = bs[lo[m]].addr
    BY <1>8
  <2>4. EndOf(rs, k) \in Nat /\ EndOf(bs, hi[k]) \in Nat /\ bs[lo[m]].addr \in Nat
    BY <1>5, <1>6, <1>7
  <2>5. QED
    BY <2>2, <2>3, <2>4
<1>11. QED
  BY <1>9, <1>10 DEF Ordered

(***************************************************************************)
(* A block is marked, or the last one stretched into the pages added after *)
(* it (heap.cpp:119-121, 194, 215).                                        *)
(***************************************************************************)
LEMMA ChangeOrdered ==
  ASSUME NEW bs \in Seq(Block), NEW rs, NEW i \in 1 .. Len(bs), NEW z \in Nat, NEW u,
         NEW end \in Nat, NEW end2 \in Nat, end <= end2,
         ChangeOf(rs, bs, i, z, u), Ordered(bs, end),
         z = bs[i].size \/ (i = Len(bs) /\ bs[i].addr + HeaderSize + z <= end2)
  PROVE  Ordered(rs, end2)
<1>1. HeaderSize \in Nat /\ Base \in Nat
  BY HeapConstants
<1>2. rs \in Seq(Block) /\ Len(bs) = Len(rs) /\ Len(rs) \in Nat
  BY DEF ChangeOf
<1>3. \A k \in 1 .. Len(bs) : bs[k].addr \in Nat /\ bs[k].size \in Nat /\ EndOf(bs, k) \in Nat
  BY <1>1, BlockTypes DEF EndOf
<1>4. \A k \in 1 .. Len(bs) : rs[k].addr = bs[k].addr
  BY DEF ChangeOf
<1>5. \A k \in 1 .. Len(bs) : k # i => EndOf(rs, k) = EndOf(bs, k)
  BY DEF ChangeOf, EndOf
<1>6. EndOf(rs, i) = bs[i].addr + HeaderSize + z
  BY DEF ChangeOf, EndOf
<1>7. i = Len(bs) \/ EndOf(rs, i) = EndOf(bs, i)
  BY <1>6 DEF EndOf
<1>8. ASSUME NEW k \in 1 .. Len(rs) PROVE rs[k].addr >= Base /\ EndOf(rs, k) <= end2
  <2>1. bs[k].addr >= Base /\ EndOf(bs, k) <= end /\ EndOf(bs, k) \in Nat
    BY <1>2, <1>3 DEF Ordered
  <2>2. EndOf(bs, k) <= end2
    BY <2>1
  <2>3. CASE EndOf(rs, k) = EndOf(bs, k)
    BY <1>2, <1>4, <2>1, <2>2, <2>3
  <2>4. CASE k = i /\ z # bs[i].size
    BY <1>2, <1>4, <1>6, <2>1, <2>4
  <2>5. CASE k = i /\ z = bs[i].size
    <3>1. EndOf(rs, k) = EndOf(bs, k)
      BY <1>6, <2>5 DEF EndOf
    <3>2. QED
      BY <3>1, <2>3
  <2>6. QED
    BY <1>2, <1>5, <2>3, <2>4, <2>5
<1>9. ASSUME NEW k \in 1 .. Len(rs), NEW m \in 1 .. Len(rs), k < m
      PROVE  EndOf(rs, k) <= rs[m].addr
  <2>1. k # Len(bs)
    BY <1>2, <1>9
  <2>2. EndOf(rs, k) = EndOf(bs, k)
    BY <1>2, <1>5, <1>7, <2>1
  <2>3. EndOf(bs, k) <= bs[m].addr
    BY <1>2, <1>9 DEF Ordered
  <2>4. QED
    BY <1>2, <1>4, <2>2, <2>3
<1>10. QED
  BY <1>8, <1>9 DEF Ordered

(***************************************************************************)
(* A new last block in the pages added (heap.cpp:122-126).                 *)
(***************************************************************************)
LEMMA AppendOrdered ==
  ASSUME NEW bs \in Seq(Block), NEW rs, NEW b \in Block,
         NEW end \in Nat, NEW end2 \in Nat, end <= end2, end >= Base,
         AppendOf(rs, bs, b), Ordered(bs, end),
         b.addr = end, b.addr + HeaderSize + b.size <= end2
  PROVE  Ordered(rs, end2)
<1>1. HeaderSize \in Nat /\ Base \in Nat
  BY HeapConstants
<1>2. rs \in Seq(Block) /\ Len(rs) = Len(bs) + 1 /\ Len(bs) \in Nat
  BY DEF AppendOf
<1>3. \A k \in 1 .. Len(bs) : bs[k].addr \in Nat /\ EndOf(bs, k) \in Nat
  BY <1>1, BlockTypes DEF EndOf
<1>4. \A k \in 1 .. Len(bs) : rs[k] = bs[k] /\ EndOf(rs, k) = EndOf(bs, k)
  BY DEF AppendOf, EndOf
<1>5. rs[Len(bs) + 1] = b /\ EndOf(rs, Len(bs) + 1) = b.addr + HeaderSize + b.size
  BY DEF AppendOf, EndOf
<1>6. ASSUME NEW k \in 1 .. Len(rs) PROVE rs[k].addr >= Base /\ EndOf(rs, k) <= end2
  <2>1. CASE k \in 1 .. Len(bs)
    <3>1. bs[k].addr >= Base /\ EndOf(bs, k) <= end /\ EndOf(bs, k) \in Nat
      BY <1>3, <2>1 DEF Ordered
    <3>2. EndOf(bs, k) <= end2
      BY <3>1
    <3>3. QED
      BY <1>4, <2>1, <3>1, <3>2
  <2>2. CASE k = Len(bs) + 1
    BY <1>5, <2>2
  <2>3. QED
    BY <1>2, <2>1, <2>2
<1>7. ASSUME NEW k \in 1 .. Len(rs), NEW m \in 1 .. Len(rs), k < m
      PROVE  EndOf(rs, k) <= rs[m].addr
  <2>1. k \in 1 .. Len(bs)
    BY <1>2, <1>7
  <2>2. CASE m \in 1 .. Len(bs)
    BY <1>4, <1>7, <2>1, <2>2 DEF Ordered
  <2>3. CASE m = Len(bs) + 1
    <3>1. EndOf(bs, k) <= end
      BY <2>1 DEF Ordered
    <3>2. QED
      BY <1>4, <1>5, <2>1, <2>3, <3>1
  <2>4. QED
    BY <1>2, <2>2, <2>3
<1>8. QED
  BY <1>6, <1>7 DEF Ordered

(***************************************************************************)
(* Splitting leaves free neighbours only around the block that Alloc       *)
(* marks used next (heap.cpp:66-76, 192-194).                              *)
(***************************************************************************)
LEMMA SplitFree ==
  ASSUME NEW bs \in Seq(Block), NEW rs, NEW i \in 1 .. Len(bs), ~bs[i].used,
         SplitOf(rs, bs, i), NoFreeBut(bs, {})
  PROVE  NoFreeBut(rs, {i - 1, i}) /\ KeepsUsed(rs, bs)
<1>1. Len(rs) = Len(bs) + 1 /\ Len(bs) \in Nat
  BY DEF SplitOf
<1>2. ASSUME NEW k \in 1 .. Len(rs) - 1, k \notin {i - 1, i} PROVE rs[k].used \/ rs[k + 1].used
  <2>1. CASE k < i - 1
    <3>1. rs[k] = bs[k] /\ rs[k + 1] = bs[k + 1]
      BY <2>1 DEF SplitOf
    <3>2. k \in 1 .. Len(bs) - 1
      BY <2>1
    <3>3. QED
      BY <3>1, <3>2 DEF NoFreeBut
  <2>2. CASE k = i + 1
    <3>1. i + 1 \in i + 1 .. Len(bs) /\ i \in 1 .. Len(bs) - 1
      BY <1>1, <2>2
    <3>2. rs[(i + 1) + 1] = bs[i + 1] /\ (bs[i].used \/ bs[i + 1].used)
      BY <3>1 DEF SplitOf, NoFreeBut
    <3>3. QED
      BY <2>2, <3>2
  <2>3. CASE k > i + 1
    <3>1. PICK m : m = k - 1
      OBVIOUS
    <3>2. m \in i + 1 .. Len(bs) /\ m + 1 \in i + 1 .. Len(bs) /\ m \in 1 .. Len(bs) - 1 /\ m + 1 = k
      BY <1>1, <2>3, <3>1
    <3>3. rs[m + 1] = bs[m] /\ rs[(m + 1) + 1] = bs[m + 1]
      BY <3>2 DEF SplitOf
    <3>4. bs[m].used \/ bs[m + 1].used
      BY <3>2 DEF NoFreeBut
    <3>5. QED
      BY <3>2, <3>3, <3>4
  <2>4. QED
    BY <1>1, <1>2, <2>1, <2>2, <2>3
<1>3. ASSUME NEW k \in 1 .. Len(bs), bs[k].used PROVE \E m \in 1 .. Len(rs) : rs[m] = bs[k]
  <2>1. CASE k < i
    <3>1. rs[k] = bs[k] /\ k \in 1 .. Len(rs)
      BY <1>1, <2>1 DEF SplitOf
    <3>2. QED
      BY <3>1
  <2>2. CASE k > i
    <3>1. rs[k + 1] = bs[k] /\ k + 1 \in 1 .. Len(rs)
      BY <1>1, <2>2 DEF SplitOf
    <3>2. QED
      BY <3>1
  <2>3. CASE k = i
    BY <1>3, <2>3
  <2>4. QED
    BY <2>1, <2>2, <2>3
<1>4. QED
  BY <1>2, <1>3 DEF NoFreeBut, KeepsUsed

(***************************************************************************)
(* Merging a free block with the free one after it closes that pair        *)
(* (heap.cpp:78-85).                                                       *)
(***************************************************************************)
LEMMA MergeFree ==
  ASSUME NEW bs \in Seq(Block), NEW rs, NEW i \in 1 .. Len(bs), i < Len(bs),
         ~bs[i].used, ~bs[i + 1].used, MergeOf(rs, bs, i),
         NEW S, S \subseteq {i - 1, i}, NoFreeBut(bs, S)
  PROVE  NoFreeBut(rs, S \ {i}) /\ KeepsUsed(rs, bs) /\ ~rs[i].used
<1>1. Len(bs) = Len(rs) + 1 /\ Len(rs) \in Nat
  BY DEF MergeOf
<1>2. ~rs[i].used /\ rs[i].used = bs[i].used
  BY DEF MergeOf
<1>3. ASSUME NEW k \in 1 .. Len(rs) - 1, k \notin S \ {i} PROVE rs[k].used \/ rs[k + 1].used
  <2>1. CASE k < i - 1
    <3>1. rs[k] = bs[k] /\ rs[k + 1] = bs[k + 1]
      BY <2>1 DEF MergeOf
    <3>2. k \in 1 .. Len(bs) - 1 /\ k \notin S
      BY <2>1
    <3>3. QED
      BY <3>1, <3>2 DEF NoFreeBut
  <2>2. CASE k = i - 1
    <3>1. rs[k] = bs[k] /\ k + 1 = i /\ k \in 1 .. Len(bs) - 1 /\ k \notin S
      BY <1>3, <2>2 DEF MergeOf
    <3>2. bs[k].used \/ bs[k + 1].used
      BY <3>1 DEF NoFreeBut
    <3>3. QED
      BY <1>2, <3>1, <3>2
  <2>3. CASE k = i
    <3>1. i + 1 \in i + 1 .. Len(rs) /\ i + 1 \in 1 .. Len(bs) - 1 /\ i + 1 \notin S
      BY <1>1, <2>3
    <3>2. rs[i + 1] = bs[(i + 1) + 1] /\ (bs[i + 1].used \/ bs[(i + 1) + 1].used)
      BY <3>1 DEF MergeOf, NoFreeBut
    <3>3. QED
      BY <2>3, <3>2
  <2>4. CASE k > i
    <3>1. PICK m : m = k + 1
      OBVIOUS
    <3>2. /\ k \in i + 1 .. Len(rs) /\ m \in i + 1 .. Len(rs)
          /\ m \in 1 .. Len(bs) - 1 /\ m \notin S
      BY <1>1, <2>4, <3>1
    <3>3. rs[k] = bs[m] /\ rs[m] = bs[m + 1]
      BY <3>1, <3>2 DEF MergeOf
    <3>4. bs[m].used \/ bs[m + 1].used
      BY <3>2 DEF NoFreeBut
    <3>5. QED
      BY <3>1, <3>3, <3>4
  <2>5. QED
    BY <1>1, <2>1, <2>2, <2>3, <2>4
<1>4. ASSUME NEW k \in 1 .. Len(bs), bs[k].used PROVE \E m \in 1 .. Len(rs) : rs[m] = bs[k]
  <2>1. CASE k < i
    <3>1. rs[k] = bs[k] /\ k \in 1 .. Len(rs)
      BY <1>1, <2>1 DEF MergeOf
    <3>2. QED
      BY <3>1
  <2>2. CASE k > i + 1
    <3>1. PICK m : m = k - 1
      OBVIOUS
    <3>2. m \in i + 1 .. Len(rs) /\ m + 1 = k /\ m \in 1 .. Len(rs)
      BY <1>1, <2>2, <3>1
    <3>3. rs[m] = bs[m + 1]
      BY <3>2 DEF MergeOf
    <3>4. QED
      BY <3>2, <3>3
  <2>3. CASE k = i \/ k = i + 1
    BY <1>4, <2>3
  <2>4. QED
    BY <2>1, <2>2, <2>3
<1>5. QED
  BY <1>2, <1>3, <1>4 DEF NoFreeBut, KeepsUsed

(***************************************************************************)
(* A block marked used is no longer free beside another; one marked free   *)
(* may be, beside its neighbours only; a stretched one stays free          *)
(* (heap.cpp:119-121, 194, 215).                                           *)
(***************************************************************************)
LEMMA ChangeFree ==
  ASSUME NEW bs \in Seq(Block), NEW rs, NEW i \in 1 .. Len(bs), NEW z, NEW u,
         ChangeOf(rs, bs, i, z, u)
  PROVE  /\ rs[i].used /\ NoFreeBut(bs, {i - 1, i}) => NoFreeBut(rs, {})
         /\ NoFreeBut(bs, {}) => NoFreeBut(rs, {i - 1, i})
         /\ rs[i].used = bs[i].used /\ NoFreeBut(bs, {}) => NoFreeBut(rs, {})
         /\ ~bs[i].used => KeepsUsed(rs, bs)
<1>1. /\ Len(rs) = Len(bs) /\ \A k \in 1 .. Len(bs) : k # i => rs[k] = bs[k]
      /\ Len(bs) \in Nat
  BY DEF ChangeOf
<1>2. ASSUME rs[i].used, NoFreeBut(bs, {i - 1, i}), NEW k \in 1 .. Len(rs) - 1
      PROVE  rs[k].used \/ rs[k + 1].used
  <2>1. CASE k = i \/ k + 1 = i
    BY <1>1, <1>2, <2>1
  <2>2. CASE k # i /\ k + 1 # i
    <3>1. k \in 1 .. Len(bs) /\ k + 1 \in 1 .. Len(bs) /\ k \notin {i - 1, i}
      BY <1>1, <2>2
    <3>2. QED
      BY <1>1, <1>2, <2>2, <3>1 DEF NoFreeBut
  <2>3. QED
    BY <2>1, <2>2
<1>3. ASSUME NoFreeBut(bs, {}), NEW k \in 1 .. Len(rs) - 1, k \notin {i - 1, i}
      PROVE  rs[k].used \/ rs[k + 1].used
  <2>1. k \in 1 .. Len(bs) /\ k + 1 \in 1 .. Len(bs) /\ k # i /\ k + 1 # i
    BY <1>1, <1>3
  <2>2. QED
    BY <1>1, <1>3, <2>1 DEF NoFreeBut
<1>4. ASSUME rs[i].used = bs[i].used, NoFreeBut(bs, {}), NEW k \in 1 .. Len(rs) - 1
      PROVE  rs[k].used \/ rs[k + 1].used
  <2>1. k \in 1 .. Len(bs) /\ k + 1 \in 1 .. Len(bs)
    BY <1>1
  <2>2. rs[k].used = bs[k].used /\ rs[k + 1].used = bs[k + 1].used
    BY <1>1, <1>4, <2>1
  <2>3. QED
    BY <1>1, <1>4, <2>2 DEF NoFreeBut
<1>5. ASSUME ~bs[i].used PROVE KeepsUsed(rs, bs)
  BY <1>1, <1>5 DEF KeepsUsed
<1>6. QED
  BY <1>2, <1>3, <1>4, <1>5 DEF NoFreeBut

(***************************************************************************)
(* A new last block after a used one, or the first block of all            *)
(* (heap.cpp:118-126).                                                     *)
(***************************************************************************)
LEMMA AppendFree ==
  ASSUME NEW bs \in Seq(Block), NEW rs, NEW b, AppendOf(rs, bs, b),
         NoFreeBut(bs, {}), Len(bs) = 0 \/ bs[Len(bs)].used
  PROVE  NoFreeBut(rs, {}) /\ KeepsUsed(rs, bs)
<1>1. /\ Len(rs) = Len(bs) + 1 /\ Len(bs) \in Nat
      /\ \A k \in 1 .. Len(bs) : rs[k] = bs[k]
  BY DEF AppendOf
<1>2. ASSUME NEW k \in 1 .. Len(rs) - 1 PROVE rs[k].used \/ rs[k + 1].used
  <2>1. CASE k = Len(bs)
    BY <1>1, <2>1
  <2>2. CASE k # Len(bs)
    <3>1. k \in 1 .. Len(bs) - 1 /\ k \in 1 .. Len(bs) /\ k + 1 \in 1 .. Len(bs)
      BY <1>1, <2>2
    <3>2. QED
      BY <1>1, <3>1 DEF NoFreeBut
  <2>3. QED
    BY <2>1, <2>2
<1>3. KeepsUsed(rs, bs)
  <2>1. ASSUME NEW k \in 1 .. Len(bs) PROVE k \in 1 .. Len(rs) /\ rs[k] = bs[k]
    BY <1>1
  <2>2. QED
    BY <2>1 DEF KeepsUsed
<1>4. QED
  BY <1>2, <1>3 DEF NoFreeBut

------------------------------------------------------------------------------
Spans(bs) == [i \in DOMAIN bs |-> HeaderSize + bs[i].size]

Payloads(bs) == [i \in DOMAIN bs |-> IF bs[i].used THEN bs[i].size ELSE 0]

(***************************************************************************)
(* What the two sums of the block list add up (heap.hpp:22-24).            *)
(***************************************************************************)
LEMMA Weights ==
  ASSUME NEW bs \in Seq(Block)
  PROVE  /\ Len(bs) \in Nat
         /\ TotalSize(bs) = SumTo(Spans(bs), Len(bs))
         /\ UsedSize(bs) = SumTo(Payloads(bs), Len(bs))
         /\ \A k \in 1 .. Len(bs) :
              /\ Spans(bs)[k] = HeaderSize + bs[k].size
              /\ Payloads(bs)[k] = IF bs[k].used THEN bs[k].size ELSE 0
              /\ Spans(bs)[k] \in Int /\ Payloads(bs)[k] \in Int
              /\ 0 <= Payloads(bs)[k] /\ Payloads(bs)[k] <= Spans(bs)[k] /\ 0 <= Spans(bs)[k]
<1>1. HeaderSize \in Nat
  BY HeapConstants
<1>2. Len(bs) \in Nat /\ DOMAIN bs = 1 .. Len(bs)
  OBVIOUS
<1>3. TotalSize(bs) = SumTo(Spans(bs), Len(bs)) /\ UsedSize(bs) = SumTo(Payloads(bs), Len(bs))
  BY DEF TotalSize, UsedSize, Spans, Payloads
<1>4. ASSUME NEW k \in 1 .. Len(bs)
      PROVE  /\ Spans(bs)[k] = HeaderSize + bs[k].size
             /\ Payloads(bs)[k] = IF bs[k].used THEN bs[k].size ELSE 0
             /\ Spans(bs)[k] \in Int /\ Payloads(bs)[k] \in Int
             /\ 0 <= Payloads(bs)[k] /\ Payloads(bs)[k] <= Spans(bs)[k] /\ 0 <= Spans(bs)[k]
  <2>1. /\ Spans(bs)[k] = HeaderSize + bs[k].size
        /\ Payloads(bs)[k] = IF bs[k].used THEN bs[k].size ELSE 0
    BY <1>2 DEF Spans, Payloads
  <2>2. bs[k].size \in Nat
    BY BlockTypes
  <2>3. PICK z \in Nat : z = bs[k].size
    BY <2>2
  <2>4. PICK h \in Nat : h = HeaderSize
    BY <1>1
  <2>5. Spans(bs)[k] = h + z /\ (Payloads(bs)[k] = z \/ Payloads(bs)[k] = 0)
    BY <2>1, <2>3, <2>4
  <2>6. QED
    BY <2>1, <2>5
<1>5. QED
  BY <1>2, <1>3, <1>4

(***************************************************************************)
(* The used payload is part of the heap, and one used block part of that   *)
(* (heap.cpp:195, 213-214).                                                *)
(***************************************************************************)
LEMMA SumBounds ==
  ASSUME NEW bs \in Seq(Block)
  PROVE  /\ TotalSize(bs) \in Nat /\ UsedSize(bs) \in Nat
         /\ UsedSize(bs) <= TotalSize(bs)
         /\ \A i \in 1 .. Len(bs) : bs[i].used => bs[i].size <= UsedSize(bs)
<1>1. PICK n \in Nat : n = Len(bs)
  OBVIOUS
<1>2. PICK w : w = Spans(bs)
  OBVIOUS
<1>3. PICK v : v = Payloads(bs)
  OBVIOUS
<1>4. TotalSize(bs) = SumTo(w, n) /\ UsedSize(bs) = SumTo(v, n)
  BY <1>1, <1>2, <1>3, Weights
<1>5. \A k \in 1 .. n : w[k] \in Int /\ w[k] >= 0 /\ v[k] \in Int /\ v[k] >= 0 /\ v[k] <= w[k]
  BY <1>1, <1>2, <1>3, Weights
<1>6. SumTo(w, n) \in Int /\ SumTo(w, n) >= 0
  BY <1>5, SumNotNegative
<1>7. SumTo(v, n) \in Int /\ SumTo(v, n) >= 0
  BY <1>5, SumNotNegative
<1>8. SumTo(v, n) <= SumTo(w, n)
  BY <1>5, SumMonotone
<1>9. ASSUME NEW i \in 1 .. Len(bs), bs[i].used PROVE bs[i].size <= UsedSize(bs)
  <2>1. v[i] = bs[i].size
    BY <1>3, <1>9, Weights
  <2>2. v[i] <= SumTo(v, n)
    BY <1>1, <1>5, PartOfSum
  <2>3. QED
    BY <1>4, <2>1, <2>2
<1>10. QED
  BY <1>4, <1>6, <1>7, <1>8, <1>9

(***************************************************************************)
(* The two halves and the header between them are what the block was       *)
(* (heap.cpp:66-76).                                                       *)
(***************************************************************************)
LEMMA SplitSums ==
  ASSUME NEW bs \in Seq(Block), NEW rs, NEW i \in 1 .. Len(bs), ~bs[i].used,
         SplitOf(rs, bs, i)
  PROVE  TotalSize(rs) = TotalSize(bs) /\ UsedSize(rs) = UsedSize(bs)
<1>1. PICK n \in Nat : n = Len(bs)
  OBVIOUS
<1>2. rs \in Seq(Block) /\ Len(rs) = n + 1 /\ i \in 1 .. n
  BY <1>1 DEF SplitOf
<1>3. PICK w, v, x, y : w = Spans(bs) /\ v = Spans(rs) /\ x = Payloads(bs) /\ y = Payloads(rs)
  OBVIOUS
<1>4. /\ TotalSize(bs) = SumTo(w, n) /\ UsedSize(bs) = SumTo(x, n)
      /\ \A k \in 1 .. n : /\ w[k] = HeaderSize + bs[k].size /\ w[k] \in Int /\ x[k] \in Int
                           /\ x[k] = IF bs[k].used THEN bs[k].size ELSE 0
  BY <1>1, <1>3, Weights
<1>5. /\ TotalSize(rs) = SumTo(v, n + 1) /\ UsedSize(rs) = SumTo(y, n + 1)
      /\ \A k \in 1 .. n + 1 : /\ v[k] = HeaderSize + rs[k].size /\ v[k] \in Int /\ y[k] \in Int
                               /\ y[k] = IF rs[k].used THEN rs[k].size ELSE 0
  BY <1>2, <1>3, Weights
<1>6. ASSUME NEW k \in 1 .. n, k < i PROVE v[k] = w[k] /\ y[k] = x[k]
  <2>1. rs[k] = bs[k] /\ k \in 1 .. n + 1
    BY <1>6 DEF SplitOf
  <2>2. QED
    BY <1>4, <1>5, <2>1
<1>7. ASSUME NEW k \in 1 .. n, k > i PROVE v[k + 1] = w[k] /\ y[k + 1] = x[k]
  <2>1. rs[k + 1] = bs[k] /\ k + 1 \in 1 .. n + 1
    BY <1>1, <1>7 DEF SplitOf
  <2>2. QED
    BY <1>4, <1>5, <2>1
<1>8. v[i] + v[i + 1] = w[i] /\ y[i] + y[i + 1] = x[i]
  <2>1. i \in 1 .. n + 1 /\ i + 1 \in 1 .. n + 1
    BY <1>2
  <2>2. y[i] = 0 /\ y[i + 1] = 0 /\ x[i] = 0
    BY <1>2, <1>4, <1>5, <2>1 DEF SplitOf
  <2>3. PICK h, a, b : h = HeaderSize /\ a = rs[i].size /\ b = rs[i + 1].size
    OBVIOUS
  <2>4. h \in Nat /\ a \in Nat /\ b \in Nat
    BY <1>2, <2>1, <2>3, BlockTypes, HeapConstants
  <2>5. bs[i].size = a + h + b
    BY <2>3 DEF SplitOf
  <2>6. v[i] = h + a /\ v[i + 1] = h + b /\ w[i] = h + (a + h + b)
    BY <1>2, <1>4, <1>5, <2>1, <2>3, <2>5
  <2>7. QED
    BY <2>2, <2>4, <2>6
<1>9. SumTo(v, n + 1) = SumTo(w, n)
  BY <1>2, <1>4, <1>5, <1>6, <1>7, <1>8, SumSplit
<1>10. SumTo(y, n + 1) = SumTo(x, n)
  BY <1>2, <1>4, <1>5, <1>6, <1>7, <1>8, SumSplit
<1>11. QED
  BY <1>4, <1>5, <1>9, <1>10

(***************************************************************************)
(* Merging gives the header of the second block to the payload of the      *)
(* first (heap.cpp:78-85).                                                 *)
(***************************************************************************)
LEMMA MergeSums ==
  ASSUME NEW bs \in Seq(Block), NEW rs, NEW i \in 1 .. Len(bs), i < Len(bs),
         ~bs[i].used, ~bs[i + 1].used, MergeOf(rs, bs, i)
  PROVE  TotalSize(rs) = TotalSize(bs) /\ UsedSize(rs) = UsedSize(bs)
<1>1. PICK n : n = Len(rs)
  OBVIOUS
<1>2. rs \in Seq(Block) /\ n \in Nat /\ Len(bs) = n + 1 /\ i \in 1 .. n
  BY <1>1 DEF MergeOf
<1>3. PICK w, v, x, y : w = Spans(rs) /\ v = Spans(bs) /\ x = Payloads(rs) /\ y = Payloads(bs)
  OBVIOUS
<1>4. /\ TotalSize(rs) = SumTo(w, n) /\ UsedSize(rs) = SumTo(x, n)
      /\ \A k \in 1 .. n : /\ w[k] = HeaderSize + rs[k].size /\ w[k] \in Int /\ x[k] \in Int
                           /\ x[k] = IF rs[k].used THEN rs[k].size ELSE 0
  BY <1>1, <1>2, <1>3, Weights
<1>5. /\ TotalSize(bs) = SumTo(v, n + 1) /\ UsedSize(bs) = SumTo(y, n + 1)
      /\ \A k \in 1 .. n + 1 : /\ v[k] = HeaderSize + bs[k].size /\ v[k] \in Int /\ y[k] \in Int
                               /\ y[k] = IF bs[k].used THEN bs[k].size ELSE 0
  BY <1>2, <1>3, Weights
<1>6. ASSUME NEW k \in 1 .. n, k < i PROVE v[k] = w[k] /\ y[k] = x[k]
  <2>1. rs[k] = bs[k] /\ k \in 1 .. n + 1
    BY <1>2, <1>6 DEF MergeOf
  <2>2. QED
    BY <1>4, <1>5, <2>1
<1>7. ASSUME NEW k \in 1 .. n, k > i PROVE v[k + 1] = w[k] /\ y[k + 1] = x[k]
  <2>1. rs[k] = bs[k + 1] /\ k + 1 \in 1 .. n + 1
    BY <1>1, <1>2, <1>7 DEF MergeOf
  <2>2. QED
    BY <1>4, <1>5, <2>1
<1>8. v[i] + v[i + 1] = w[i] /\ y[i] + y[i + 1] = x[i]
  <2>1. i \in 1 .. n + 1 /\ i + 1 \in 1 .. n + 1
    BY <1>2
  <2>2. y[i] = 0 /\ y[i + 1] = 0 /\ x[i] = 0
    BY <1>2, <1>4, <1>5, <2>1 DEF MergeOf
  <2>3. PICK h, a, b : h = HeaderSize /\ a = bs[i].size /\ b = bs[i + 1].size
    OBVIOUS
  <2>4. h \in Nat /\ a \in Nat /\ b \in Nat
    BY <1>2, <2>1, <2>3, BlockTypes, HeapConstants
  <2>5. rs[i].size = a + h + b
    BY <2>3 DEF MergeOf
  <2>6. v[i] = h + a /\ v[i + 1] = h + b /\ w[i] = h + (a + h + b)
    BY <1>2, <1>4, <1>5, <2>1, <2>3, <2>5
  <2>7. QED
    BY <2>2, <2>4, <2>6
<1>9. SumTo(v, n + 1) = SumTo(w, n)
  BY <1>2, <1>4, <1>5, <1>6, <1>7, <1>8, SumSplit
<1>10. SumTo(y, n + 1) = SumTo(x, n)
  BY <1>2, <1>4, <1>5, <1>6, <1>7, <1>8, SumSplit
<1>11. QED
  BY <1>4, <1>5, <1>9, <1>10

PayloadOf(size, inUse) == IF inUse THEN size ELSE 0

\* The sums when block i of bs has become of size z and of the use it has in rs.
SumsChange(rs, bs, i, z) ==
  /\ TotalSize(rs) = TotalSize(bs) + (z - bs[i].size)
  /\ UsedSize(rs) = UsedSize(bs) + (PayloadOf(z, rs[i].used) - PayloadOf(bs[i].size, bs[i].used))

(***************************************************************************)
(* Marking a block moves its payload into or out of the used bytes;        *)
(* stretching it adds to the heap (heap.cpp:119-121, 194-195, 213-215).    *)
(***************************************************************************)
LEMMA ChangeSums ==
  ASSUME NEW bs \in Seq(Block), NEW rs, NEW i \in 1 .. Len(bs), NEW z \in Nat,
         NEW u, ChangeOf(rs, bs, i, z, u)
  PROVE  SumsChange(rs, bs, i, z)
<1>1. PICK n \in Nat : n = Len(bs)
  OBVIOUS
<1>2. rs \in Seq(Block) /\ Len(rs) = n /\ i \in 1 .. n
  BY <1>1 DEF ChangeOf
<1>3. PICK w, v, x, y : w = Spans(bs) /\ v = Spans(rs) /\ x = Payloads(bs) /\ y = Payloads(rs)
  OBVIOUS
<1>4. /\ TotalSize(bs) = SumTo(w, n) /\ UsedSize(bs) = SumTo(x, n)
      /\ \A k \in 1 .. n : /\ w[k] = HeaderSize + bs[k].size /\ w[k] \in Int /\ x[k] \in Int
                           /\ x[k] = PayloadOf(bs[k].size, bs[k].used)
  BY <1>1, <1>3, Weights DEF PayloadOf
<1>5. /\ TotalSize(rs) = SumTo(v, n) /\ UsedSize(rs) = SumTo(y, n)
      /\ \A k \in 1 .. n : /\ v[k] = HeaderSize + rs[k].size /\ v[k] \in Int /\ y[k] \in Int
                           /\ y[k] = PayloadOf(rs[k].size, rs[k].used)
  BY <1>2, <1>3, Weights DEF PayloadOf
<1>6. ASSUME NEW k \in 1 .. n, k # i PROVE v[k] = w[k] /\ y[k] = x[k]
  <2>1. rs[k] = bs[k]
    BY <1>1, <1>6 DEF ChangeOf
  <2>2. QED
    BY <1>4, <1>5, <2>1
<1>7. SumTo(v, n) = SumTo(w, n) + (v[i] - w[i])
  BY <1>2, <1>4, <1>5, <1>6, SumChange
<1>8. SumTo(y, n) = SumTo(x, n) + (y[i] - x[i])
  BY <1>2, <1>4, <1>5, <1>6, SumChange
<1>9. v[i] - w[i] = z - bs[i].size
  <2>1. PICK h, a : h = HeaderSize /\ a = bs[i].size
    OBVIOUS
  <2>2. h \in Nat /\ a \in Nat
    BY <2>1, BlockTypes, HeapConstants
  <2>3. v[i] = h + z /\ w[i] = h + a
    BY <1>2, <1>4, <1>5, <2>1 DEF ChangeOf
  <2>4. QED
    BY <2>1, <2>2, <2>3
<1>10. y[i] = PayloadOf(z, rs[i].used) /\ x[i] = PayloadOf(bs[i].size, bs[i].used)
  BY <1>2, <1>4, <1>5 DEF ChangeOf
<1>11. QED
  BY <1>4, <1>5, <1>7, <1>8, <1>9, <1>10 DEF SumsChange

(***************************************************************************)
(* The pages added become one free block (heap.cpp:122-126).               *)
(***************************************************************************)
LEMMA AppendSums ==
  ASSUME NEW bs \in Seq(Block), NEW rs, NEW b \in Block, ~b.used, AppendOf(rs, bs, b)
  PROVE  /\ TotalSize(rs) = TotalSize(bs) + (HeaderSize + b.size)
         /\ UsedSize(rs) = UsedSize(bs)
<1>1. PICK n \in Nat : n = Len(bs)
  OBVIOUS
<1>2. rs \in Seq(Block) /\ Len(rs) = n + 1 /\ rs[n + 1] = b
  BY <1>1 DEF AppendOf
<1>3. PICK w, v, x, y : w = Spans(bs) /\ v = Spans(rs) /\ x = Payloads(bs) /\ y = Payloads(rs)
  OBVIOUS
<1>4. /\ TotalSize(bs) = SumTo(w, n) /\ UsedSize(bs) = SumTo(x, n)
      /\ \A k \in 1 .. n : /\ w[k] = HeaderSize + bs[k].size /\ w[k] \in Int /\ x[k] \in Int
                           /\ x[k] = PayloadOf(bs[k].size, bs[k].used)
  BY <1>1, <1>3, Weights DEF PayloadOf
<1>5. /\ TotalSize(rs) = SumTo(v, n + 1) /\ UsedSize(rs) = SumTo(y, n + 1)
      /\ \A k \in 1 .. n + 1 : /\ v[k] = HeaderSize + rs[k].size /\ v[k] \in Int /\ y[k] \in Int
                               /\ y[k] = PayloadOf(rs[k].size, rs[k].used)
  BY <1>2, <1>3, Weights DEF PayloadOf
<1>6. ASSUME NEW k \in 1 .. n PROVE v[k] = w[k] /\ y[k] = x[k]
  <2>1. rs[k] = bs[k] /\ k \in 1 .. n + 1
    BY <1>1 DEF AppendOf
  <2>2. QED
    BY <1>4, <1>5, <2>1
<1>7. SumTo(v, n + 1) = SumTo(w, n) + v[n + 1]
  BY <1>4, <1>5, <1>6, SumAppend
<1>8. SumTo(y, n + 1) = SumTo(x, n) + y[n + 1]
  BY <1>4, <1>5, <1>6, SumAppend
<1>9. n + 1 \in 1 .. n + 1
  OBVIOUS
<1>10. v[n + 1] = HeaderSize + b.size /\ y[n + 1] = 0
  BY <1>2, <1>5, <1>9 DEF PayloadOf
<1>11. UsedSize(bs) \in Nat
  BY SumBounds
<1>12. QED
  BY <1>4, <1>5, <1>7, <1>8, <1>10, <1>11

------------------------------------------------------------------------------
\* A list of headers in order, with free neighbours only at the indices in S.
SoundList(bs, end, S) ==
  bs \in Seq(Block) /\ Ordered(bs, end) /\ NoFreeBut(bs, S)

SameBefore(rs, bs, i) == \A k \in 1 .. i - 1 : rs[k] = bs[k]

SameSums(rs, bs) == TotalSize(rs) = TotalSize(bs) /\ UsedSize(rs) = UsedSize(bs)

(***************************************************************************)
(* Blocks kept by two steps in turn are kept (heap.cpp:202-223).           *)
(***************************************************************************)
LEMMA KeepsTwice ==
  ASSUME NEW bs, NEW rs, NEW ts, KeepsUsed(rs, bs), KeepsUsed(ts, rs)
  PROVE  KeepsUsed(ts, bs)
<1>1. ASSUME NEW k \in 1 .. Len(bs), bs[k].used PROVE \E m \in 1 .. Len(ts) : ts[m] = bs[k]
  <2>1. PICK j \in 1 .. Len(rs) : rs[j] = bs[k]
    BY <1>1 DEF KeepsUsed
  <2>2. rs[j].used
    BY <1>1, <2>1
  <2>3. PICK m \in 1 .. Len(ts) : ts[m] = rs[j]
    BY <2>2 DEF KeepsUsed
  <2>4. QED
    BY <2>1, <2>3
<1>2. QED
  BY <1>1 DEF KeepsUsed

\* rs is bs with block i, which sp has split off, used.
TakenBytes(rs, bs, sp, i, c, end) ==
  /\ SoundList(rs, end, {}) /\ TotalSize(rs) = TotalSize(bs)
  /\ UsedSize(rs) = UsedSize(bs) + sp[i].size /\ KeepsUsed(rs, bs)
  /\ i \in 1 .. Len(rs) /\ rs[i].addr = bs[i].addr /\ rs[i].used
  /\ rs[i].size = sp[i].size /\ sp[i].size \in Nat /\ c <= sp[i].size

(***************************************************************************)
(* Alloc splits the block it found and marks it: the list stays sound, the *)
(* used bytes grow by what the block now holds (heap.cpp:192-195).         *)
(***************************************************************************)
LEMMA TakeList ==
  ASSUME NEW bs, NEW end \in Nat, SoundList(bs, end, {}), NEW i \in 1 .. Len(bs),
         ~bs[i].used, NEW c \in Nat, c <= bs[i].size,
         NEW sp, sp = split_block(bs, i, c), NEW rs, rs = [sp EXCEPT ![i].used = TRUE]
  PROVE  TakenBytes(rs, bs, sp, i, c, end)
<1>1. bs \in Seq(Block) /\ Ordered(bs, end) /\ NoFreeBut(bs, {})
  BY DEF SoundList
<1>2. /\ sp \in Seq(Block) /\ Ordered(sp, end) /\ NoFreeBut(sp, {i - 1, i}) /\ SameSums(sp, bs)
      /\ KeepsUsed(sp, bs) /\ i \in 1 .. Len(sp) /\ sp[i].addr = bs[i].addr /\ ~sp[i].used
      /\ c <= sp[i].size
  <2>1. CASE sp = bs
    <3>1. NoFreeBut(sp, {i - 1, i}) /\ KeepsUsed(sp, bs)
      BY <1>1, <2>1 DEF NoFreeBut, KeepsUsed
    <3>2. QED
      BY <1>1, <2>1, <3>1 DEF SameSums
  <2>2. CASE SplitOf(sp, bs, i) /\ sp[i].size = c
    <3>1. sp \in Seq(Block) /\ Len(sp) = Len(bs) + 1 /\ i \in 1 .. Len(sp)
      BY <1>1, <2>2 DEF SplitOf
    <3>2. Ordered(sp, end)
      BY <1>1, <2>2, SplitOrdered, Zenon
    <3>3. NoFreeBut(sp, {i - 1, i}) /\ KeepsUsed(sp, bs)
      BY <1>1, <2>2, SplitFree, Zenon
    <3>4. SameSums(sp, bs)
      BY <1>1, <2>2, SplitSums DEF SameSums
    <3>5. sp[i].addr = bs[i].addr /\ ~sp[i].used /\ c <= sp[i].size
      BY <2>2 DEF SplitOf
    <3>6. QED
      BY <3>1, <3>2, <3>3, <3>4, <3>5
  <2>3. QED
    BY <1>1, <2>1, <2>2, SplitShape
<1>3. sp[i].size \in Nat
  BY <1>2, BlockTypes
<1>b. sp \in Seq(Block) /\ i \in 1 .. Len(sp)
  BY <1>2
<1>4. ChangeOf(rs, sp, i, sp[i].size, TRUE)
  BY <1>2, ChangeShape
<1>5. rs \in Seq(Block) /\ Len(rs) = Len(sp) /\ rs[i].addr = sp[i].addr /\ rs[i].size = sp[i].size /\ rs[i].used
  BY <1>4 DEF ChangeOf
<1>6. Ordered(rs, end)
  <2>1. end <= end
    OBVIOUS
  <2>2. QED
    BY <1>2, <1>3, <1>4, <2>1, ChangeOrdered, Zenon
<1>7. NoFreeBut(rs, {}) /\ KeepsUsed(rs, sp)
  <2>1. /\ rs[i].used /\ NoFreeBut(sp, {i - 1, i}) => NoFreeBut(rs, {})
        /\ ~sp[i].used => KeepsUsed(rs, sp)
    BY <1>b, <1>4, ChangeFree
  <2>2. QED
    BY <1>2, <1>5, <2>1
<1>8. KeepsUsed(rs, bs)
  BY <1>2, <1>7, KeepsTwice
<1>9. /\ TotalSize(rs) = TotalSize(sp) + (sp[i].size - sp[i].size)
      /\ UsedSize(rs) = UsedSize(sp) + (PayloadOf(sp[i].size, rs[i].used) - PayloadOf(sp[i].size, sp[i].used))
  <2>1. PICK z \in Nat : z = sp[i].size
    BY <1>3
  <2>2. PICK u : u = TRUE
    OBVIOUS
  <2>3. ChangeOf(rs, sp, i, z, u)
    BY <1>4, <2>1, <2>2
  <2>4. SumsChange(rs, sp, i, z)
    BY <1>b, <2>3, ChangeSums, Zenon
  <2>5. QED
    BY <2>1, <2>4 DEF SumsChange
<1>10. PayloadOf(sp[i].size, rs[i].used) = sp[i].size /\ PayloadOf(sp[i].size, sp[i].used) = 0
  BY <1>2, <1>5 DEF PayloadOf
<1>11. TotalSize(sp) \in Nat /\ UsedSize(sp) \in Nat
  BY <1>2, SumBounds
<1>12. TotalSize(rs) = TotalSize(bs) /\ UsedSize(rs) = UsedSize(bs) + sp[i].size
  <2>1. PICK z \in Nat : z = sp[i].size
    BY <1>3
  <2>2. TotalSize(rs) = TotalSize(sp) + (z - z) /\ UsedSize(rs) = UsedSize(sp) + (z - 0)
    BY <1>9, <1>10, <2>1
  <2>3. TotalSize(rs) = TotalSize(sp) /\ UsedSize(rs) = UsedSize(sp) + z
    BY <1>11, <2>2
  <2>4. QED
    BY <1>2, <2>1, <2>3 DEF SameSums
<1>13. QED
  BY <1>2, <1>3, <1>5, <1>6, <1>7, <1>8, <1>12 DEF SoundList, TakenBytes

(***************************************************************************)
(* One merge of Free, done or not needed (heap.cpp:78-85, 217-222).        *)
(***************************************************************************)
LEMMA AbsorbList ==
  ASSUME NEW bs, NEW end \in Nat, end < Word, NEW i \in 1 .. Len(bs), ~bs[i].used,
         NEW S, S \subseteq {i - 1, i}, SoundList(bs, end, S),
         NEW rs, rs = absorb_next(bs, i)
  PROVE  /\ SoundList(rs, end, S \ {i}) /\ SameSums(rs, bs) /\ KeepsUsed(rs, bs)
         /\ i \in 1 .. Len(rs) /\ ~rs[i].used /\ SameBefore(rs, bs, i)
<1>1. bs \in Seq(Block) /\ Ordered(bs, end) /\ NoFreeBut(bs, S)
  BY DEF SoundList
<1>2. CASE i < Len(bs) /\ ~bs[i + 1].used
  <2>1. bs[i].size + HeaderSize + bs[i + 1].size < Word
    <3>1. i + 1 \in 1 .. Len(bs) /\ i < i + 1
      BY <1>2
    <3>2. EndOf(bs, i) <= bs[i + 1].addr /\ EndOf(bs, i + 1) <= end
      BY <1>1, <3>1 DEF Ordered
    <3>3. PICK h, a, z, b, y : /\ h = HeaderSize /\ a = bs[i].addr /\ z = bs[i].size
                               /\ b = bs[i + 1].addr /\ y = bs[i + 1].size
      OBVIOUS
    <3>4. a \in Nat /\ z \in Nat /\ b \in Nat /\ y \in Nat
      BY <1>1, <3>1, <3>3, BlockTypes
    <3>5. h \in Nat /\ Word \in Nat
      BY <3>3, HeapConstants
    <3>6. a + h + z <= b /\ b + h + y <= end
      BY <3>2, <3>3 DEF EndOf
    <3>7. z + h + y < Word
      BY <3>4, <3>5, <3>6
    <3>8. QED
      BY <3>3, <3>7
  <2>2. MergeOf(rs, bs, i)
    BY <1>1, <1>2, <2>1, MergeShape, Zenon
  <2>3. rs \in Seq(Block) /\ i \in 1 .. Len(rs) /\ SameBefore(rs, bs, i)
    BY <1>2, <2>2 DEF MergeOf, SameBefore
  <2>4. Ordered(rs, end)
    BY <1>1, <1>2, <2>2, MergeOrdered, Zenon
  <2>5. NoFreeBut(rs, S \ {i}) /\ KeepsUsed(rs, bs) /\ ~rs[i].used
    BY <1>1, <1>2, <2>2, MergeFree, Zenon
  <2>6. SameSums(rs, bs)
    BY <1>1, <1>2, <2>2, MergeSums DEF SameSums
  <2>7. QED
    BY <2>3, <2>4, <2>5, <2>6 DEF SoundList
<1>3. CASE ~ (i < Len(bs) /\ ~bs[i + 1].used)
  <2>1. rs = bs
    BY <1>3 DEF absorb_next
  <2>2. NoFreeBut(bs, S \ {i})
    <3>1. ASSUME NEW k \in 1 .. Len(bs) - 1, k \notin S \ {i} PROVE bs[k].used \/ bs[k + 1].used
      <4>1. CASE k = i
        BY <1>3, <4>1
      <4>2. CASE k # i
        BY <1>1, <3>1, <4>2 DEF NoFreeBut
      <4>3. QED
        BY <4>1, <4>2
    <3>2. QED
      BY <3>1 DEF NoFreeBut
  <2>3. QED
    BY <1>1, <2>1, <2>2 DEF SoundList, SameSums, KeepsUsed, SameBefore
<1>4. QED
  BY <1>2, <1>3

(***************************************************************************)
(* A freed block is merged with both its neighbours (heap.cpp:215-223).    *)
(***************************************************************************)
LEMMA CoalesceList ==
  ASSUME NEW bs, NEW end \in Nat, end < Word, NEW i \in 1 .. Len(bs), ~bs[i].used,
         SoundList(bs, end, {i - 1, i}), NEW rs, rs = coalesce(bs, i)
  PROVE  SoundList(rs, end, {}) /\ SameSums(rs, bs) /\ KeepsUsed(rs, bs)
<1>1. PICK ms : ms = absorb_next(bs, i)
  OBVIOUS
<1>2. PICK S : S = {i - 1, i}
  OBVIOUS
<1>3. S \subseteq {i - 1, i} /\ SoundList(bs, end, S)
  BY <1>2
<1>4. /\ SoundList(ms, end, S \ {i}) /\ SameSums(ms, bs) /\ KeepsUsed(ms, bs)
      /\ i \in 1 .. Len(ms) /\ ~ms[i].used /\ \A k \in 1 .. i - 1 : ms[k] = bs[k]
  <2>1. /\ SoundList(ms, end, S \ {i}) /\ SameSums(ms, bs) /\ KeepsUsed(ms, bs)
        /\ i \in 1 .. Len(ms) /\ ~ms[i].used /\ SameBefore(ms, bs, i)
    BY <1>1, <1>3, AbsorbList, Zenon
  <2>2. QED
    BY <2>1 DEF SameBefore
<1>5. SoundList(ms, end, {i - 1})
  <2>1. S \ {i} = {i - 1}
    BY <1>2
  <2>2. QED
    BY <1>4, <2>1
<1>6. CASE i > 1 /\ ~bs[i - 1].used
  <2>1. PICK j : j = i - 1
    OBVIOUS
  <2>2. j \in 1 .. Len(ms) /\ j \in 1 .. i - 1
    BY <1>4, <1>6, <2>1
  <2>3. ~ms[j].used
    BY <1>4, <1>6, <2>1, <2>2
  <2>4. PICK T : T = {j}
    OBVIOUS
  <2>5. T \subseteq {j - 1, j} /\ SoundList(ms, end, T) /\ T \ {j} = {}
    BY <1>5, <2>1, <2>4
  <2>6. rs = absorb_next(ms, j)
    BY <1>1, <1>6, <2>1 DEF coalesce
  <2>7. SoundList(rs, end, T \ {j}) /\ SameSums(rs, ms) /\ KeepsUsed(rs, ms)
    BY <2>2, <2>3, <2>5, <2>6, AbsorbList, Zenon
  <2>8. KeepsUsed(rs, bs)
    BY <1>4, <2>7, KeepsTwice
  <2>9. SameSums(rs, bs)
    BY <1>4, <2>7 DEF SameSums
  <2>10. QED
    BY <2>5, <2>7, <2>8, <2>9
<1>7. CASE ~ (i > 1 /\ ~bs[i - 1].used)
  <2>1. rs = ms
    BY <1>1, <1>7 DEF coalesce
  <2>2. NoFreeBut(ms, {})
    <3>1. ASSUME NEW k \in 1 .. Len(ms) - 1 PROVE ms[k].used \/ ms[k + 1].used
      <4>1. CASE k = i - 1
        <5>1. i > 1 /\ k \in 1 .. i - 1
          BY <4>1
        <5>2. QED
          BY <1>4, <1>7, <4>1, <5>1
      <4>2. CASE k # i - 1
        BY <1>5, <4>2 DEF SoundList, NoFreeBut
      <4>3. QED
        BY <4>1, <4>2
    <3>2. QED
      BY <3>1 DEF NoFreeBut
  <2>3. QED
    BY <1>4, <1>5, <2>1, <2>2 DEF SoundList
<1>8. QED
  BY <1>6, <1>7

(***************************************************************************)
(* grow_heap's pages end the list as one free block, of their own or       *)
(* joined to the free block before them (heap.cpp:111-126).                *)
(***************************************************************************)
LEMMA ExtendList ==
  ASSUME NEW bs, NEW end \in Nat, end >= Base, SoundList(bs, end, {}),
         NEW added \in Nat, added >= HeaderSize, NEW rs, rs = extend(bs, end, added)
  PROVE  /\ SoundList(rs, end + added, {}) /\ KeepsUsed(rs, bs)
         /\ TotalSize(rs) = TotalSize(bs) + added /\ UsedSize(rs) = UsedSize(bs)
         /\ Len(rs) \in 1 .. Len(rs) /\ ~rs[Len(rs)].used
         /\ rs[Len(rs)].size >= added - HeaderSize
<1>1. bs \in Seq(Block) /\ Ordered(bs, end) /\ NoFreeBut(bs, {}) /\ Len(bs) \in Nat
  BY DEF SoundList
<1>2. HeaderSize \in Nat
  BY HeapConstants
<1>3. TotalSize(bs) \in Nat /\ UsedSize(bs) \in Nat
  BY <1>1, SumBounds
<1>4. PICK e2 \in Nat : e2 = end + added
  OBVIOUS
<1>5. end <= e2
  BY <1>4
<1>6. CASE bs # <<>> /\ ~Last(bs).used
  <2>1. PICK i : i = Len(bs)
    OBVIOUS
  <2>2. i \in 1 .. Len(bs) /\ ~bs[i].used
    BY <1>1, <1>6, <2>1 DEF Last
  <2>3. PICK y \in Nat : y = bs[i].size
    BY <1>1, <2>2, BlockTypes
  <2>4. PICK z \in Nat : z = y + added
    OBVIOUS
  <2>5. rs = [bs EXCEPT ![i].size = z]
    BY <1>6, <2>1, <2>3, <2>4 DEF extend
  <2>6. PICK u : u = bs[i].used
    OBVIOUS
  <2>7. ChangeOf(rs, bs, i, z, u)
    BY <1>1, <2>2, <2>5, <2>6, ChangeShape
  <2>8. rs \in Seq(Block) /\ Len(rs) = Len(bs) /\ rs[i].size = z /\ rs[i].used = bs[i].used
    BY <2>6, <2>7 DEF ChangeOf
  <2>9. bs[i].addr + HeaderSize + z <= e2
    <3>1. PICK a \in Nat : a = bs[i].addr
      BY <1>1, <2>2, BlockTypes
    <3>2. EndOf(bs, i) <= end
      BY <1>1, <2>2 DEF Ordered
    <3>3. a + HeaderSize + y <= end
      BY <2>3, <3>1, <3>2 DEF EndOf
    <3>4. a + HeaderSize + z <= e2
      BY <1>2, <1>4, <2>4, <3>3
    <3>5. QED
      BY <3>1, <3>4
  <2>10. Ordered(rs, e2)
    BY <1>1, <1>5, <2>1, <2>2, <2>7, <2>9, ChangeOrdered, Zenon
  <2>11. NoFreeBut(rs, {}) /\ KeepsUsed(rs, bs)
    <3>1. /\ rs[i].used = bs[i].used /\ NoFreeBut(bs, {}) => NoFreeBut(rs, {})
          /\ ~bs[i].used => KeepsUsed(rs, bs)
      BY <1>1, <2>2, <2>7, ChangeFree
    <3>2. QED
      BY <1>1, <2>2, <2>8, <3>1
  <2>12. TotalSize(rs) = TotalSize(bs) + added /\ UsedSize(rs) = UsedSize(bs)
    <3>1. SumsChange(rs, bs, i, z)
      BY <1>1, <2>2, <2>7, ChangeSums, Zenon
    <3>2. /\ TotalSize(rs) = TotalSize(bs) + (z - y)
          /\ UsedSize(rs) = UsedSize(bs) + (0 - 0)
      BY <2>2, <2>3, <2>8, <3>1 DEF SumsChange, PayloadOf
    <3>3. QED
      BY <1>3, <2>4, <3>2
  <2>13. Len(rs) = i /\ ~rs[i].used
    BY <2>1, <2>2, <2>8
  <2>14. rs[i].size >= added - HeaderSize
    BY <1>2, <2>4, <2>8
  <2>15. Len(rs) \in 1 .. Len(rs) /\ ~rs[Len(rs)].used /\ rs[Len(rs)].size >= added - HeaderSize
    BY <2>2, <2>8, <2>13, <2>14
  <2>16. QED
    BY <1>4, <2>8, <2>10, <2>11, <2>12, <2>15 DEF SoundList
<1>7. CASE ~ (bs # <<>> /\ ~Last(bs).used)
  <2>1. PICK b : b = [addr |-> end, size |-> added - HeaderSize, used |-> FALSE]
    OBVIOUS
  <2>2. b \in Block /\ b.addr = end /\ b.size = added - HeaderSize /\ ~b.used
    BY <1>2, <2>1 DEF Block
  <2>3. rs = Append(bs, b)
    BY <1>7, <2>1 DEF extend
  <2>4. AppendOf(rs, bs, b)
    BY <1>1, <2>2, <2>3, AppendShape
  <2>5. rs \in Seq(Block) /\ Len(rs) = Len(bs) + 1 /\ rs[Len(bs) + 1] = b
    BY <2>4 DEF AppendOf
  <2>6. b.addr + HeaderSize + b.size <= e2
    <3>1. end + HeaderSize + (added - HeaderSize) <= e2
      BY <1>2, <1>4
    <3>2. QED
      BY <2>2, <3>1
  <2>7. Ordered(rs, e2)
    BY <1>1, <1>5, <2>2, <2>4, <2>6, AppendOrdered, Zenon
  <2>8. Len(bs) = 0 \/ bs[Len(bs)].used
    BY <1>1, <1>7 DEF Last
  <2>9. NoFreeBut(rs, {}) /\ KeepsUsed(rs, bs)
    BY <1>1, <2>4, <2>8, AppendFree
  <2>10. TotalSize(rs) = TotalSize(bs) + (HeaderSize + b.size) /\ UsedSize(rs) = UsedSize(bs)
    BY <1>1, <2>2, <2>4, AppendSums
  <2>11. HeaderSize + b.size = added
    BY <1>2, <2>2
  <2>12. Len(rs) \in 1 .. Len(rs) /\ rs[Len(rs)] = b
    BY <1>1, <2>5
  <2>13. b.size >= added - HeaderSize
    BY <1>2, <2>2
  <2>14. QED
    BY <1>4, <2>2, <2>5, <2>7, <2>9, <2>10, <2>11, <2>12, <2>13 DEF SoundList
<1>8. QED
  BY <1>6, <1>7

------------------------------------------------------------------------------
\* A request that fits 32 bits with all that is added to it.
Fits(size, a) ==
  /\ size \in Nat /\ a \in Nat \ {0}
  /\ size + a + PointerSize + HeaderSize + PAGE_SIZE < Word

(***************************************************************************)
(* The pointer lies behind the prefix, and what it takes of the block is   *)
(* not wrapped (heap.cpp:45-56).                                           *)
(***************************************************************************)
LEMMA ConsumedExact ==
  ASSUME NEW b \in Block, NEW size, NEW a, Fits(size, a)
  PROVE  /\ user(b, a) \in Nat /\ user(b, a) % a = 0
         /\ user(b, a) >= b.addr + HeaderSize + PointerSize
         /\ consumed(b, size, a) \in Nat
         /\ user(b, a) + size = b.addr + HeaderSize + consumed(b, size, a)
         /\ consumed(b, size, a) < PointerSize + a + size
<1>1. size \in Nat /\ a \in Nat \ {0} /\ size + a + PointerSize + HeaderSize + PAGE_SIZE < Word
  BY DEF Fits
<1>2. PointerSize \in Nat /\ HeaderSize \in Nat /\ PAGE_SIZE \in Nat /\ Word \in Nat
  BY HeapConstants
<1>3. PICK p \in Nat : p = payload_start(b)
  BY <1>2 DEF Block, payload_start
<1>4. p = b.addr + HeaderSize
  BY <1>3 DEF payload_start
<1>5. PICK x \in Nat : x = p + PointerSize
  BY <1>2
<1>6. PICK v : v = AlignUp(x, a)
  OBVIOUS
<1>7. v \in Nat /\ x <= v /\ v < x + a /\ v % a = 0
  BY <1>1, <1>6, AlignUpBounds
<1>8. user(b, a) = v
  BY <1>3, <1>5, <1>6 DEF user
<1>9. PICK c : c = v - p + size
  OBVIOUS
<1>10. c \in Nat /\ c < PointerSize + a + size /\ v + size = p + c
  BY <1>1, <1>2, <1>5, <1>7, <1>9
<1>11. c < Word
  BY <1>1, <1>2, <1>10
<1>12. c % Word = c
  BY <1>2, <1>10, <1>11
<1>13. consumed(b, size, a) = c
  BY <1>3, <1>8, <1>9, <1>12 DEF consumed
<1>14. v >= p + PointerSize
  BY <1>5, <1>7
<1>15. b.addr + HeaderSize + PointerSize = p + PointerSize /\ b.addr + HeaderSize + c = p + c
  BY <1>4
<1>16. QED
  BY <1>7, <1>8, <1>10, <1>13, <1>14, <1>15

(***************************************************************************)
(* The first-fit search answers with a free block that holds the request,  *)
(* or there is none (heap.cpp:37-64).                                      *)
(***************************************************************************)
LEMMA FirstFit ==
  ASSUME NEW bs \in Seq(Block), NEW size, NEW a
  PROVE  \/ /\ find_block(bs, size, a) = 0
            /\ \A k \in 1 .. Len(bs) : bs[k].used \/ ~ (consumed(bs[k], size, a) <= bs[k].size)
         \/ /\ find_block(bs, size, a) \in 1 .. Len(bs)
            /\ ~bs[find_block(bs, size, a)].used
            /\ consumed(bs[find_block(bs, size, a)], size, a) <= bs[find_block(bs, size, a)].size
<1> DEFINE fits == {k \in DOMAIN bs : ~bs[k].used /\ consumed(bs[k], size, a) <= bs[k].size}
<1>1. fits \subseteq 1 .. Len(bs) /\ fits \subseteq Nat
  OBVIOUS
<1>2. CASE fits = {}
  <2>1. find_block(bs, size, a) = 0
    BY <1>2 DEF find_block
  <2>2. QED
    BY <1>2, <2>1
<1>3. CASE fits # {}
  <2>1. \E m \in fits : \A j \in fits : m <= j
    BY <1>1, <1>3, MinimumExists, Zenon
  <2>2. find_block(bs, size, a) = CHOOSE m \in fits : \A j \in fits : m <= j
    BY <1>3 DEF find_block
  <2>3. find_block(bs, size, a) \in fits
    <3> HIDE DEF fits
    <3> QED
      BY <2>1, <2>2
  <2>4. QED
    BY <2>3
<1>4. QED
  BY <1>2, <1>3

(***************************************************************************)
(* The pages grow_heap adds hold the request with its worst alignment, its *)
(* prefix and a header (heap.cpp:88-95).                                   *)
(***************************************************************************)
LEMMA GrowEnough ==
  ASSUME NEW size, NEW a, Fits(size, a)
  PROVE  /\ growPages(size, a) \in Nat
         /\ growPages(size, a) * PAGE_SIZE >= size + a + PointerSize + HeaderSize
<1>1. size \in Nat /\ a \in Nat \ {0} /\ size + a + PointerSize + HeaderSize + PAGE_SIZE < Word
  BY DEF Fits
<1>2. PointerSize \in Nat /\ HeaderSize \in Nat \ {0} /\ PAGE_SIZE \in Nat \ {0} /\ Word \in Nat
  BY HeapConstants
<1>3. PICK t \in Nat : t = size + a + PointerSize + HeaderSize
  BY <1>1, <1>2
<1>4. t > 0 /\ t + PAGE_SIZE < Word
  BY <1>1, <1>2, <1>3
<1>5. t % Word = t
  BY <1>2, <1>4
<1>6. PICK y \in Nat : y = t + PAGE_SIZE - 1
  BY <1>2
<1>7. y % Word = y
  BY <1>2, <1>4, <1>6
<1>8. PICK P \in Nat \ {0} : P = PAGE_SIZE
  BY <1>2
<1>9. PICK q : q = y \div P
  OBVIOUS
<1>10. q \in Nat /\ q * P <= y /\ y < (q + 1) * P
  BY <1>8, <1>9
<1>11. PICK m \in Nat : m = q * P
  BY <1>8, <1>10
<1>12. (q + 1) * P = m + P
  BY <1>8, <1>10, <1>11
<1>13. m >= t
  BY <1>6, <1>8, <1>10, <1>11, <1>12
<1>14. q # 0
  BY <1>4, <1>8, <1>11, <1>13
<1>15. growPages(size, a) = q
  BY <1>3, <1>5, <1>6, <1>7, <1>8, <1>9, <1>14 DEF growPages
<1>16. QED
  BY <1>3, <1>8, <1>10, <1>11, <1>13, <1>15

------------------------------------------------------------------------------
\* A used block holds what client x was given, with its back-pointer.
Owns(bs, x) ==
  \E k \in 1 .. Len(bs) :
    /\ bs[k].addr = x.block /\ bs[k].used
    /\ x.ptr - PointerSize >= bs[k].addr + HeaderSize
    /\ x.ptr + x.size <= EndOf(bs, k)

\* The allocations lv lie in blocks of their own.
LiveSound(lv, bs) ==
  \A x \in lv :
    /\ x.ptr \in Nat /\ x.size \in Nat /\ x.align \in Nat /\ x.block \in Nat
    /\ x.ptr % x.align = 0
    /\ \A y \in lv : x.block = y.block => x = y
    /\ Owns(bs, x)

\* Every mapped byte but l of them is in a block, and u of them are used.
Accounts(bs, end, l, u) ==
  l \in Nat /\ TotalSize(bs) + l = end - Base /\ u = UsedSize(bs)

(***************************************************************************)
(* The back-pointer names one header (heap.cpp:197-199, 206-210).          *)
(***************************************************************************)
LEMMA OneHeader ==
  ASSUME NEW bs, NEW end, NEW S, SoundList(bs, end, S), NEW i \in 1 .. Len(bs),
         NEW k \in 1 .. Len(bs), bs[i].addr = bs[k].addr
  PROVE  i = k
<1>1. bs \in Seq(Block) /\ Ordered(bs, end)
  BY DEF SoundList
<1>2. HeaderSize \in Nat \ {0}
  BY HeapConstants
<1>3. PICK a \in Nat : a = bs[i].addr /\ a = bs[k].addr
  BY <1>1, BlockTypes
<1>4. PICK y \in Nat : y = bs[i].size
  BY <1>1, BlockTypes
<1>5. PICK z \in Nat : z = bs[k].size
  BY <1>1, BlockTypes
<1>6. ASSUME i < k PROVE FALSE
  <2>1. EndOf(bs, i) <= bs[k].addr
    BY <1>1, <1>6 DEF Ordered
  <2>2. a + HeaderSize + y <= a
    BY <1>3, <1>4, <2>1 DEF EndOf
  <2>3. QED
    BY <1>2, <2>2
<1>7. ASSUME k < i PROVE FALSE
  <2>1. EndOf(bs, k) <= bs[i].addr
    BY <1>1, <1>7 DEF Ordered
  <2>2. a + HeaderSize + z <= a
    BY <1>3, <1>5, <2>1 DEF EndOf
  <2>3. QED
    BY <1>2, <2>2
<1>8. QED
  BY <1>6, <1>7

(***************************************************************************)
(* A client keeps what it holds when the used blocks are kept              *)
(* (heap.cpp:66-85, 111-126).                                              *)
(***************************************************************************)
LEMMA KeepsOwned ==
  ASSUME NEW bs, NEW rs, KeepsUsed(rs, bs), NEW x, Owns(bs, x)
  PROVE  Owns(rs, x)
<1>1. PICK k \in 1 .. Len(bs) : /\ bs[k].addr = x.block /\ bs[k].used
                                /\ x.ptr - PointerSize >= bs[k].addr + HeaderSize
                                /\ x.ptr + x.size <= EndOf(bs, k)
  BY DEF Owns
<1>2. PICK m \in 1 .. Len(rs) : rs[m] = bs[k]
  BY <1>1 DEF KeepsUsed
<1>3. EndOf(rs, m) = EndOf(bs, k)
  BY <1>2 DEF EndOf
<1>4. /\ rs[m].addr = x.block /\ rs[m].used
      /\ x.ptr - PointerSize >= rs[m].addr + HeaderSize
      /\ x.ptr + x.size <= EndOf(rs, m)
  BY <1>1, <1>2, <1>3
<1>5. QED
  BY <1>4 DEF Owns

(***************************************************************************)
(* The mapped heap ends below the limit of 32-bit addresses                *)
(* (heap.cpp:96-110).                                                      *)
(***************************************************************************)
LEMMA HeapEndFits ==
  ASSUME NEW end \in Base .. Base + MaxPages * PAGE_SIZE
  PROVE  end \in Nat /\ end >= Base /\ end < Word /\ end - Base < Word
<1>1. PICK m : m = MaxPages * PAGE_SIZE
  OBVIOUS
<1>2. m \in Nat /\ Base \in Nat /\ Word \in Nat /\ Base + m < Word
  BY <1>1, HeapConstants
<1>3. end \in Base .. Base + m
  BY <1>1
<1>4. QED
  BY <1>2, <1>3

\* The heap in order: list, accounts and allocations.
HeapSound(bs, end, l, u, lv) ==
  /\ end \in Base .. Base + MaxPages * PAGE_SIZE
  /\ SoundList(bs, end, {}) /\ Accounts(bs, end, l, u) /\ LiveSound(lv, bs)

\* Block i is free and holds the request.
Holds(bs, i, size, a) ==
  i \in 1 .. Len(bs) /\ ~bs[i].used /\ consumed(bs[i], size, a) <= bs[i].size

\* rs, u2 and lv2 are what the end of Alloc makes of bs, u and lv.
TakeOf(bs, u, lv, i, size, a, rs, u2, lv2) ==
  \E sp :
    /\ sp = split_block(bs, i, consumed(bs[i], size, a))
    /\ rs = [sp EXCEPT ![i].used = TRUE]
    /\ u2 = (u + sp[i].size) % Word
    /\ lv2 = lv \cup {[ptr |-> user(bs[i], a), size |-> size, align |-> a,
                       block |-> bs[i].addr]}

(***************************************************************************)
(* The end of Alloc: the block found is split, marked and handed out       *)
(* (heap.cpp:190-200).                                                     *)
(***************************************************************************)
LEMMA TakeSound ==
  ASSUME NEW bs, NEW end, NEW l, NEW u, NEW lv, HeapSound(bs, end, l, u, lv),
         NEW size, NEW a, Fits(size, a), NEW i, Holds(bs, i, size, a),
         NEW rs, NEW u2, NEW lv2, TakeOf(bs, u, lv, i, size, a, rs, u2, lv2)
  PROVE  HeapSound(rs, end, l, u2, lv2)
<1>a. /\ end \in Base .. Base + MaxPages * PAGE_SIZE
      /\ SoundList(bs, end, {}) /\ Accounts(bs, end, l, u) /\ LiveSound(lv, bs)
  BY DEF HeapSound
<1>b. i \in 1 .. Len(bs) /\ ~bs[i].used /\ consumed(bs[i], size, a) <= bs[i].size
  BY DEF Holds
<1>c. PICK sp :
        /\ sp = split_block(bs, i, consumed(bs[i], size, a))
        /\ rs = [sp EXCEPT ![i].used = TRUE]
        /\ u2 = (u + sp[i].size) % Word
        /\ lv2 = lv \cup {[ptr |-> user(bs[i], a), size |-> size, align |-> a,
                           block |-> bs[i].addr]}
  BY DEF TakeOf
<1> USE <1>a, <1>b, <1>c
<1>1. end \in Nat /\ end >= Base /\ end < Word /\ end - Base < Word /\ Word \in Nat /\ Base \in Nat
  BY HeapEndFits, HeapConstants
<1>2. bs \in Seq(Block)
  BY DEF SoundList
<1>3. bs[i] \in Block /\ bs[i].addr \in Nat /\ bs[i].size \in Nat
  BY <1>2, BlockTypes
<1>4. PICK v, c, p : v = user(bs[i], a) /\ c = consumed(bs[i], size, a) /\ p = bs[i].addr
  OBVIOUS
<1>5. /\ v \in Nat /\ v % a = 0 /\ v >= p + HeaderSize + PointerSize
      /\ c \in Nat /\ v + size = p + HeaderSize + c
  BY <1>3, <1>4, ConsumedExact
<1>6. c <= bs[i].size /\ sp = split_block(bs, i, c)
  BY <1>4
<1>7. /\ SoundList(rs, end, {}) /\ TotalSize(rs) = TotalSize(bs)
      /\ UsedSize(rs) = UsedSize(bs) + sp[i].size /\ KeepsUsed(rs, bs)
      /\ i \in 1 .. Len(rs) /\ rs[i].addr = bs[i].addr /\ rs[i].used
      /\ rs[i].size = sp[i].size /\ sp[i].size \in Nat /\ c <= sp[i].size
  <2>1. TakenBytes(rs, bs, sp, i, c, end)
    BY <1>1, <1>5, <1>6, TakeList, Zenon
  <2>2. QED
    BY <2>1 DEF TakenBytes
<1>8. Accounts(rs, end, l, u2)
  <2>1. rs \in Seq(Block)
    BY <1>7 DEF SoundList
  <2>2. PICK t, w : t = TotalSize(rs) /\ w = UsedSize(rs)
    OBVIOUS
  <2>3. t \in Nat /\ w \in Nat /\ w <= t
    BY <2>1, <2>2, SumBounds
  <2>4. l \in Nat /\ t + l = end - Base
    BY <1>7, <2>2 DEF Accounts
  <2>5. w < Word
    BY <1>1, <2>3, <2>4
  <2>6. u2 = w % Word
    BY <1>7, <2>2 DEF Accounts
  <2>7. u2 = w
    BY <1>1, <2>3, <2>5, <2>6
  <2>8. QED
    BY <2>2, <2>4, <2>7 DEF Accounts
<1>9. LiveSound(lv2, rs)
  <2>1. PICK n : n = [ptr |-> v, size |-> size, align |-> a, block |-> p]
    OBVIOUS
  <2>2. n.ptr = v /\ n.size = size /\ n.align = a /\ n.block = p
    BY <2>1
  <2>3. lv2 = lv \cup {n}
    BY <1>4, <2>1
  <2>4. size \in Nat /\ a \in Nat
    BY DEF Fits
  <2>5. HeaderSize \in Nat /\ PointerSize \in Nat /\ p \in Nat
    BY <1>3, <1>4, HeapConstants
  <2>6. Owns(rs, n)
    <3>1. PICK z \in Nat : z = sp[i].size
      BY <1>7
    <3>2. EndOf(rs, i) = p + HeaderSize + z
      BY <1>4, <1>7, <3>1 DEF EndOf
    <3>3. c <= z
      BY <1>7, <3>1
    <3>4. v + size <= p + HeaderSize + z /\ v - PointerSize >= p + HeaderSize
      BY <1>5, <2>4, <2>5, <3>3
    <3>5. rs[i].addr = p /\ rs[i].used /\ i \in 1 .. Len(rs)
      BY <1>4, <1>7
    <3>6. /\ rs[i].addr = n.block /\ rs[i].used
          /\ n.ptr - PointerSize >= rs[i].addr + HeaderSize
          /\ n.ptr + n.size <= EndOf(rs, i)
      BY <2>2, <3>2, <3>4, <3>5
    <3>7. QED
      BY <3>5, <3>6 DEF Owns
  <2>7. ASSUME NEW y \in lv PROVE y.block # p
    <3>1. Owns(bs, y)
      BY DEF LiveSound
    <3>2. PICK k \in 1 .. Len(bs) : bs[k].addr = y.block /\ bs[k].used
      BY <3>1 DEF Owns
    <3>3. ASSUME y.block = p PROVE FALSE
      <4>1. bs[i].addr = bs[k].addr
        BY <1>4, <3>2, <3>3
      <4>2. i = k
        BY <4>1, OneHeader
      <4>3. QED
        BY <3>2, <4>2
    <3>4. QED
      BY <3>3
  <2>8. \A y \in lv : Owns(rs, y)
    BY <1>7, KeepsOwned DEF LiveSound
  <2>9. ASSUME NEW x \in lv2
        PROVE  /\ x.ptr \in Nat /\ x.size \in Nat /\ x.align \in Nat /\ x.block \in Nat
               /\ x.ptr % x.align = 0 /\ Owns(rs, x)
    <3>1. CASE x = n
      BY <1>5, <2>2, <2>4, <2>5, <2>6, <3>1
    <3>2. CASE x \in lv
      BY <2>8, <3>2 DEF LiveSound
    <3>3. QED
      BY <2>3, <3>1, <3>2
  <2>10. ASSUME NEW x \in lv2, NEW y \in lv2, x.block = y.block PROVE x = y
    <3>1. CASE x \in lv /\ y \in lv
      BY <2>10, <3>1 DEF LiveSound
    <3>2. CASE x = n \/ y = n
      BY <2>2, <2>3, <2>7, <2>10, <3>2
    <3>3. QED
      BY <2>3, <3>1, <3>2
  <2>11. QED
    BY <2>9, <2>10 DEF LiveSound
<1>10. QED
  BY <1>7, <1>8, <1>9 DEF HeapSound

(***************************************************************************)
(* Free: the block is marked, merged and given up by its client; the       *)
(* counter is never clamped (heap.cpp:202-223).                            *)
(***************************************************************************)
LEMMA FreeSound ==
  ASSUME NEW bs, NEW end, NEW l, NEW u, NEW lv, HeapSound(bs, end, l, u, lv),
         NEW x \in lv, NEW i \in 1 .. Len(bs), bs[i].addr = x.block, bs[i].used,
         NEW rs, rs = coalesce([bs EXCEPT ![i].used = FALSE], i),
         NEW u2, u2 = IF u >= bs[i].size THEN u - bs[i].size ELSE 0
  PROVE  HeapSound(rs, end, l, u2, lv \ {x})
<1>a. /\ end \in Base .. Base + MaxPages * PAGE_SIZE
      /\ SoundList(bs, end, {}) /\ Accounts(bs, end, l, u) /\ LiveSound(lv, bs)
  BY DEF HeapSound
<1>b. PICK lv2 : lv2 = lv \ {x}
  OBVIOUS
<1> USE <1>a, <1>b
<1>1. end \in Nat /\ end < Word
  BY HeapEndFits
<1>2. bs \in Seq(Block) /\ Ordered(bs, end) /\ NoFreeBut(bs, {})
  BY DEF SoundList
<1>3. PICK z \in Nat : z = bs[i].size
  BY <1>2, BlockTypes
<1>4. PICK ms : ms = [bs EXCEPT ![i].used = FALSE]
  OBVIOUS
<1>5. ChangeOf(ms, bs, i, z, FALSE)
  BY <1>2, <1>3, <1>4, ChangeShape
<1>6. /\ ms \in Seq(Block) /\ Len(ms) = Len(bs) /\ ~ms[i].used
      /\ \A k \in 1 .. Len(bs) : k # i => ms[k] = bs[k]
  BY <1>5 DEF ChangeOf
<1>7. PICK f : f = FALSE
  OBVIOUS
<1>8. ChangeOf(ms, bs, i, z, f)
  BY <1>5, <1>7
<1>9. Ordered(ms, end)
  <2>1. end <= end
    BY <1>1
  <2>2. QED
    BY <1>1, <1>2, <1>3, <1>8, <2>1, ChangeOrdered, Zenon
<1>10. NoFreeBut(ms, {i - 1, i})
  <2>1. NoFreeBut(bs, {}) => NoFreeBut(ms, {i - 1, i})
    BY <1>2, <1>8, ChangeFree
  <2>2. QED
    BY <1>2, <2>1
<1>11. SoundList(ms, end, {i - 1, i}) /\ i \in 1 .. Len(ms)
  BY <1>6, <1>9, <1>10 DEF SoundList
<1>12. rs = coalesce(ms, i)
  BY <1>4
<1>13. SoundList(rs, end, {}) /\ SameSums(rs, ms) /\ KeepsUsed(rs, ms)
  BY <1>1, <1>6, <1>11, <1>12, CoalesceList, Zenon
<1>14. Accounts(rs, end, l, u2)
  <2>1. SumsChange(ms, bs, i, z)
    BY <1>2, <1>8, ChangeSums, Zenon
  <2>2. PICK t, w : t = TotalSize(bs) /\ w = UsedSize(bs)
    OBVIOUS
  <2>3. t \in Nat /\ w \in Nat /\ z <= w
    BY <1>2, <1>3, <2>2, SumBounds
  <2>4. TotalSize(ms) = t + (z - z) /\ UsedSize(ms) = w + (0 - z)
    BY <1>3, <1>6, <2>1, <2>2 DEF SumsChange, PayloadOf
  <2>5. TotalSize(rs) = t /\ UsedSize(rs) = w - z
    BY <1>13, <2>3, <2>4 DEF SameSums
  <2>6. u = w /\ l \in Nat /\ t + l = end - Base
    BY <2>2 DEF Accounts
  <2>7. u2 = w - z
    BY <1>3, <2>3, <2>6
  <2>8. QED
    BY <2>5, <2>6, <2>7 DEF Accounts
<1>15. ASSUME NEW y \in lv2 PROVE Owns(rs, y)
  <2>1. Owns(bs, y) /\ y # x /\ y \in lv
    BY DEF LiveSound
  <2>2. PICK k \in 1 .. Len(bs) : /\ bs[k].addr = y.block /\ bs[k].used
                                  /\ y.ptr - PointerSize >= bs[k].addr + HeaderSize
                                  /\ y.ptr + y.size <= EndOf(bs, k)
    BY <2>1 DEF Owns
  <2>3. k # i
    BY <2>1, <2>2 DEF LiveSound
  <2>4. ms[k] = bs[k] /\ EndOf(ms, k) = EndOf(bs, k) /\ k \in 1 .. Len(ms)
    BY <1>6, <2>3 DEF EndOf
  <2>5. Owns(ms, y)
    BY <2>2, <2>4 DEF Owns
  <2>6. QED
    BY <1>13, <2>5, KeepsOwned
<1>16. LiveSound(lv2, rs)
  BY <1>15 DEF LiveSound
<1>17. QED
  BY <1>13, <1>14, <1>16 DEF HeapSound

------------------------------------------------------------------------------
(***************************************************************************)
(* The inductive invariant.  Every header ends before the ones after it,   *)
(* which the neighbours' order alone does not say in one step; no client's *)
(* block is another's; and no second search has failed.                    *)
(***************************************************************************)
HeapInv ==
  /\ HeapSound(blocks, g_heapEnd, lost, g_heapUsed, live)
  /\ outcome \in {"none", "ok", "out of frames"}

(***************************************************************************)
(* The invariant holds when Heap::Init returns, its pages mapped or not    *)
(* (heap.cpp:129-160).                                                     *)
(***************************************************************************)
LEMMA InitSound == BlockInit => HeapInv
<1> SUFFICES ASSUME BlockInit PROVE HeapInv
  OBVIOUS
<1>1. PICK got \in 0 .. InitialPages :
        /\ g_heapEnd = Base + got * PAGE_SIZE
        /\ blocks = IF got = InitialPages
                    THEN <<[addr |-> Base, size |-> got * PAGE_SIZE - HeaderSize, used |-> FALSE]>>
                    ELSE <<>>
        /\ lost = (IF got = InitialPages THEN 0 ELSE got * PAGE_SIZE)
        /\ g_heapUsed = 0 /\ live = {} /\ outcome = "none"
  BY DEF BlockInit
<1>2. PICK P \in Nat : P = PAGE_SIZE
  BY HeapConstants
<1>3. /\ Base \in Nat /\ HeaderSize \in Nat /\ P > HeaderSize /\ MaxPages \in Nat
      /\ InitialPages \in Nat \ {0} /\ InitialPages <= MaxPages
  BY <1>2, HeapConstants
<1>4. PICK m : m = got * P
  OBVIOUS
<1>5. m \in Nat /\ m <= MaxPages * P
  <2>1. got \in Nat /\ got <= MaxPages
    BY <1>3
  <2>2. PICK d \in Nat : MaxPages = got + d
    BY <1>3, <2>1
  <2>3. MaxPages * P = got * P + d * P /\ got * P \in Nat /\ d * P \in Nat
    BY <2>1, <2>2
  <2>4. QED
    BY <1>4, <2>3
<1>6. g_heapEnd = Base + m
  BY <1>1, <1>2, <1>4
<1>7. g_heapEnd \in Base .. Base + MaxPages * PAGE_SIZE
  <2>1. PICK n : n = MaxPages * P
    OBVIOUS
  <2>2. n \in Nat /\ m <= n
    BY <1>3, <1>5, <2>1
  <2>3. g_heapEnd \in Base .. Base + n
    BY <1>3, <1>5, <1>6, <2>2
  <2>4. QED
    BY <1>2, <2>1, <2>3
<1>8. PICK es : es = <<>>
  OBVIOUS
<1>9. es \in Seq(Block) /\ Len(es) = 0
  BY <1>8
<1>10. SoundList(es, Base, {}) /\ SoundList(es, g_heapEnd, {})
  BY <1>9 DEF SoundList, Ordered, NoFreeBut
<1>11. TotalSize(es) = 0 /\ UsedSize(es) = 0
  <2>1. TotalSize(es) = SumTo(Spans(es), 0) /\ UsedSize(es) = SumTo(Payloads(es), 0)
    BY <1>9, Weights
  <2>2. ASSUME NEW w PROVE SumTo(w, 0) = 0
    <3>1. \A k \in 1 .. 0 : w[k] \in Int
      OBVIOUS
    <3>2. PICK f : Partial(f, w, 0)
      BY <3>1, PartialExists
    <3>3. SumTo(w, 0) = f[0]
      BY <3>1, <3>2, SumToPartial
    <3>4. QED
      BY <3>2, <3>3 DEF Partial
  <2>3. QED
    BY <2>1, <2>2
<1>12. CASE got = InitialPages
  <2>1. m >= HeaderSize
    <3>1. PICK d \in Nat : got = d + 1
      BY <1>3, <1>12
    <3>2. got * P = d * P + P /\ d * P \in Nat
      BY <3>1
    <3>3. QED
      BY <1>3, <1>4, <3>2
  <2>2. PICK b : b = [addr |-> Base, size |-> m - HeaderSize, used |-> FALSE]
    OBVIOUS
  <2>3. blocks = extend(es, Base, m)
    <3>1. blocks = <<b>>
      BY <1>1, <1>2, <1>4, <1>12, <2>2
    <3>2. extend(es, Base, m) = Append(es, b)
      BY <1>8, <2>2 DEF extend
    <3>3. Append(es, b) = <<b>>
      BY <1>8
    <3>4. QED
      BY <3>1, <3>2, <3>3
  <2>4. /\ SoundList(blocks, Base + m, {})
        /\ TotalSize(blocks) = TotalSize(es) + m /\ UsedSize(blocks) = UsedSize(es)
    <3>1. Base >= Base
      BY <1>3
    <3>2. QED
      BY <1>3, <1>5, <1>10, <2>1, <2>3, <3>1, ExtendList
  <2>5. Accounts(blocks, g_heapEnd, lost, g_heapUsed)
    BY <1>1, <1>3, <1>5, <1>6, <1>11, <1>12, <2>4 DEF Accounts
  <2>6. LiveSound(live, blocks)
    BY <1>1 DEF LiveSound
  <2>7. QED
    BY <1>1, <1>6, <1>7, <2>4, <2>5, <2>6 DEF HeapInv, HeapSound
<1>13. CASE got # InitialPages
  <2>1. blocks = es /\ lost = m
    BY <1>1, <1>2, <1>4, <1>8, <1>13
  <2>2. Accounts(blocks, g_heapEnd, lost, g_heapUsed)
    <3>1. TotalSize(blocks) = 0 /\ UsedSize(blocks) = 0 /\ g_heapUsed = 0
      BY <1>1, <1>11, <2>1
    <3>2. 0 + m = (Base + m) - Base
      BY <1>3, <1>5
    <3>3. TotalSize(blocks) + lost = g_heapEnd - Base
      BY <1>6, <2>1, <3>1, <3>2
    <3>4. QED
      BY <1>5, <2>1, <3>1, <3>3 DEF Accounts
  <2>3. LiveSound(live, blocks)
    BY <1>1 DEF LiveSound
  <2>4. QED
    BY <1>1, <1>7, <1>10, <2>1, <2>2, <2>3 DEF HeapInv, HeapSound
<1>14. QED
  BY <1>12, <1>13

(***************************************************************************)
(* What clients ask for fits 32 bits (heap.cpp:29-35).                     *)
(***************************************************************************)
LEMMA RequestFits ==
  ASSUME NEW r \in Requests
  PROVE  Fits(r[1], normalize_align(r[2]))
<1>1. r[1] \in Nat
  BY HeapConstants
<1>2. QED
  BY <1>1, RequestsFit DEF Fits

(***************************************************************************)
(* Alloc finds a block (heap.cpp:172-179, 190-200).                        *)
(***************************************************************************)
LEMMA AllocFoundSound ==
  ASSUME HeapInv, NEW size, NEW a, Fits(size, a), AllocFound(size, a)
  PROVE  HeapInv'
<1>1. PICK i : i = find_block(blocks, size, a)
  OBVIOUS
<1>2. i > 0 /\ take(blocks, i, size, a) /\ g_heapEnd' = g_heapEnd /\ lost' = lost
  BY <1>1 DEF AllocFound
<1>3. blocks \in Seq(Block)
  BY DEF HeapInv, HeapSound, SoundList
<1>4. Holds(blocks, i, size, a)
  BY <1>1, <1>2, <1>3, FirstFit DEF Holds
<1>5. TakeOf(blocks, g_heapUsed, live, i, size, a, blocks', g_heapUsed', live') /\ outcome' = "ok"
  BY <1>2 DEF take, TakeOf
<1>6. HeapSound(blocks', g_heapEnd, lost, g_heapUsed', live')
  <2>1. HeapSound(blocks, g_heapEnd, lost, g_heapUsed, live)
    BY DEF HeapInv
  <2>2. QED
    BY <1>4, <1>5, <2>1, TakeSound, Zenon
<1>7. QED
  BY <1>2, <1>5, <1>6 DEF HeapInv

(***************************************************************************)
(* grow_heap fails half way: its pages are in no block, and accounted for  *)
(* (heap.cpp:96-110, 184-187).                                             *)
(***************************************************************************)
LEMMA AllocOutOfFramesSound ==
  ASSUME HeapInv, NEW size, NEW a, Fits(size, a), AllocOutOfFrames(size, a)
  PROVE  HeapInv'
<1>1. PICK got \in 0 .. growPages(size, a) - 1 :
        /\ g_heapEnd + got * PAGE_SIZE <= Base + MaxPages * PAGE_SIZE
        /\ g_heapEnd' = g_heapEnd + got * PAGE_SIZE
        /\ lost' = lost + got * PAGE_SIZE
  BY DEF AllocOutOfFrames
<1>2. growPages(size, a) \in Nat
  BY GrowEnough
<1>3. PICK m \in Nat : m = got * PAGE_SIZE
  BY <1>2, HeapConstants
<1>4. /\ g_heapEnd \in Base .. Base + MaxPages * PAGE_SIZE
      /\ SoundList(blocks, g_heapEnd, {}) /\ Accounts(blocks, g_heapEnd, lost, g_heapUsed)
      /\ LiveSound(live, blocks)
  BY DEF HeapInv, HeapSound
<1>5. PICK e, e2, t, l : e = g_heapEnd /\ e2 = g_heapEnd' /\ t = TotalSize(blocks) /\ l = lost
  OBVIOUS
<1>6. blocks' = blocks /\ g_heapUsed' = g_heapUsed /\ live' = live /\ outcome' = "out of frames"
  BY DEF AllocOutOfFrames
<1>7. blocks \in Seq(Block)
  BY <1>4 DEF SoundList
<1>8. e \in Nat /\ e >= Base /\ Base \in Nat
  BY <1>4, <1>5, HeapEndFits, HeapConstants
<1>9. e2 = e + m /\ lost' = l + m
  BY <1>1, <1>3, <1>5
<1>10. e2 \in Base .. Base + MaxPages * PAGE_SIZE
  <2>1. PICK n : n = MaxPages * PAGE_SIZE
    OBVIOUS
  <2>2. n \in Nat /\ e2 <= Base + n
    BY <1>1, <1>5, <2>1, HeapConstants
  <2>3. QED
    BY <1>8, <1>9, <2>1, <2>2
<1>11. SoundList(blocks, e2, {})
  <2>1. Ordered(blocks, e) /\ NoFreeBut(blocks, {})
    BY <1>4, <1>5 DEF SoundList
  <2>2. ASSUME NEW k \in 1 .. Len(blocks) PROVE EndOf(blocks, k) <= e2
    <3>1. EndOf(blocks, k) <= e
      BY <2>1 DEF Ordered
    <3>2. blocks[k].addr \in Nat /\ blocks[k].size \in Nat /\ HeaderSize \in Nat
      BY <1>7, BlockTypes, HeapConstants
    <3>3. EndOf(blocks, k) \in Nat
      BY <3>2 DEF EndOf
    <3>4. QED
      BY <1>8, <1>9, <3>1, <3>3
  <2>3. Ordered(blocks, e2)
    BY <2>1, <2>2 DEF Ordered
  <2>4. QED
    BY <1>7, <2>1, <2>3 DEF SoundList
<1>12. Accounts(blocks, e2, lost', g_heapUsed)
  <2>1. t \in Nat
    BY <1>5, <1>7, SumBounds
  <2>2. l \in Nat /\ t + l = e - Base /\ g_heapUsed = UsedSize(blocks)
    BY <1>4, <1>5 DEF Accounts
  <2>3. t + (l + m) = e2 - Base
    BY <1>8, <1>9, <2>1, <2>2
  <2>4. QED
    BY <1>5, <1>9, <2>2, <2>3 DEF Accounts
<1>13. QED
  BY <1>4, <1>5, <1>6, <1>10, <1>11, <1>12 DEF HeapInv, HeapSound

(***************************************************************************)
(* grow_heap succeeds: the second search finds the block the pages made    *)
(* (heap.cpp:180-200).                                                     *)
(***************************************************************************)
LEMMA AllocGrowsSound ==
  ASSUME HeapInv, NEW size, NEW a, Fits(size, a), AllocGrows(size, a)
  PROVE  HeapInv'
<1>1. PICK added : added = growPages(size, a) * PAGE_SIZE
  OBVIOUS
<1>2. PICK e2 : e2 = g_heapEnd + added
  OBVIOUS
<1>3. PICK bs : bs = extend(blocks, g_heapEnd, added)
  OBVIOUS
<1>4. PICK i : i = find_block(bs, size, a)
  OBVIOUS
<1>5. /\ e2 <= Base + MaxPages * PAGE_SIZE /\ g_heapEnd' = e2 /\ lost' = lost
      /\ IF i > 0 THEN take(bs, i, size, a)
         ELSE blocks' = bs /\ outcome' = "no block" /\ g_heapUsed' = g_heapUsed /\ live' = live
  BY <1>1, <1>2, <1>3, <1>4 DEF AllocGrows
<1>6. /\ g_heapEnd \in Base .. Base + MaxPages * PAGE_SIZE
      /\ SoundList(blocks, g_heapEnd, {}) /\ Accounts(blocks, g_heapEnd, lost, g_heapUsed)
      /\ LiveSound(live, blocks)
  BY DEF HeapInv, HeapSound
<1>7. /\ size \in Nat /\ a \in Nat /\ PointerSize \in Nat /\ HeaderSize \in Nat
      /\ Base \in Nat /\ PAGE_SIZE \in Nat
  BY HeapConstants DEF Fits
<1>8. added \in Nat /\ added >= size + a + PointerSize + HeaderSize
  BY <1>1, <1>7, GrowEnough
<1>9. added >= HeaderSize
  BY <1>7, <1>8
<1>10. PICK e : e = g_heapEnd
  OBVIOUS
<1>11. e \in Nat /\ e >= Base /\ e2 = e + added
  BY <1>2, <1>6, <1>10, HeapEndFits
<1>12. /\ SoundList(bs, e2, {}) /\ KeepsUsed(bs, blocks)
       /\ TotalSize(bs) = TotalSize(blocks) + added /\ UsedSize(bs) = UsedSize(blocks)
       /\ Len(bs) \in 1 .. Len(bs) /\ ~bs[Len(bs)].used
       /\ bs[Len(bs)].size >= added - HeaderSize
  <2>1. SoundList(blocks, e, {}) /\ bs = extend(blocks, e, added)
    BY <1>3, <1>6, <1>10
  <2>2. PICK b0 : b0 = blocks
    OBVIOUS
  <2>3. /\ SoundList(bs, e + added, {}) /\ KeepsUsed(bs, b0)
        /\ TotalSize(bs) = TotalSize(b0) + added /\ UsedSize(bs) = UsedSize(b0)
        /\ Len(bs) \in 1 .. Len(bs) /\ ~bs[Len(bs)].used
        /\ bs[Len(bs)].size >= added - HeaderSize
    BY <1>8, <1>9, <1>11, <2>1, <2>2, ExtendList
  <2>4. QED
    BY <1>11, <2>2, <2>3
<1>13. HeapSound(bs, e2, lost, g_heapUsed, live)
  <2>1. e2 \in Base .. Base + MaxPages * PAGE_SIZE
    <3>1. PICK n : n = MaxPages * PAGE_SIZE
      OBVIOUS
    <3>2. n \in Nat /\ e2 <= Base + n
      <4>1. n \in Nat
        BY <3>1, HeapConstants
      <4>2. QED
        BY <1>5, <3>1, <4>1
    <3>3. QED
      BY <1>7, <1>8, <1>11, <3>1, <3>2
  <2>2. Accounts(bs, e2, lost, g_heapUsed)
    <3>1. PICK t : t = TotalSize(blocks)
      OBVIOUS
    <3>2. t \in Nat
      BY <1>6, <3>1, SumBounds DEF SoundList
    <3>3. lost \in Nat /\ t + lost = e - Base /\ g_heapUsed = UsedSize(blocks)
      BY <1>6, <1>10, <3>1 DEF Accounts
    <3>4. (t + added) + lost = e2 - Base
      BY <1>7, <1>8, <1>11, <3>2, <3>3
    <3>5. QED
      BY <1>12, <3>1, <3>3, <3>4 DEF Accounts
  <2>3. \A x \in live : Owns(bs, x)
    BY <1>6, <1>12, KeepsOwned DEF LiveSound
  <2>4. LiveSound(live, bs)
    BY <1>6, <2>3 DEF LiveSound
  <2>5. QED
    BY <1>12, <2>1, <2>2, <2>4 DEF HeapSound
<1>14. bs \in Seq(Block)
  BY <1>12 DEF SoundList
<1>15. consumed(bs[Len(bs)], size, a) <= bs[Len(bs)].size
  <2>1. bs[Len(bs)] \in Block /\ bs[Len(bs)].size \in Nat
    BY <1>12, <1>14, BlockTypes
  <2>2. PICK c, z : c = consumed(bs[Len(bs)], size, a) /\ z = bs[Len(bs)].size
    OBVIOUS
  <2>3. c \in Nat /\ c < PointerSize + a + size
    BY <2>1, <2>2, ConsumedExact
  <2>4. z \in Nat /\ z >= added - HeaderSize
    BY <1>12, <2>1, <2>2
  <2>5. c <= z
    BY <1>7, <1>8, <2>3, <2>4
  <2>6. QED
    BY <2>2, <2>5
<1>16. Holds(bs, i, size, a) /\ i > 0
  BY <1>4, <1>12, <1>14, <1>15, FirstFit DEF Holds
<1>17. TakeOf(bs, g_heapUsed, live, i, size, a, blocks', g_heapUsed', live') /\ outcome' = "ok"
  BY <1>5, <1>16 DEF take, TakeOf
<1>18. HeapSound(blocks', e2, lost, g_heapUsed', live')
  BY <1>13, <1>16, <1>17, TakeSound, Zenon
<1>19. QED
  BY <1>5, <1>17, <1>18 DEF HeapInv

(***************************************************************************)
(* Free, of a pointer that a client holds (heap.cpp:202-223).              *)
(***************************************************************************)
LEMMA FreeKeeps ==
  ASSUME HeapInv, NEW x \in live, Free(x)
  PROVE  HeapInv'
<1>1. PICK i \in DOMAIN blocks :
        /\ blocks[i].addr = x.block /\ blocks[i].used
        /\ g_heapUsed' = IF g_heapUsed >= blocks[i].size THEN g_heapUsed - blocks[i].size ELSE 0
        /\ blocks' = coalesce([blocks EXCEPT ![i].used = FALSE], i)
        /\ live' = live \ {x}
        /\ g_heapEnd' = g_heapEnd /\ lost' = lost /\ outcome' = outcome
  BY DEF Free
<1>2. HeapSound(blocks, g_heapEnd, lost, g_heapUsed, live) /\ i \in 1 .. Len(blocks)
  <2>1. HeapSound(blocks, g_heapEnd, lost, g_heapUsed, live)
    BY DEF HeapInv
  <2>2. blocks \in Seq(Block)
    BY <2>1 DEF HeapSound, SoundList
  <2>3. i \in 1 .. Len(blocks)
    BY <2>2
  <2>4. QED
    BY <2>1, <2>3
<1>3. HeapSound(blocks', g_heapEnd, lost, g_heapUsed', live \ {x})
  BY <1>1, <1>2, FreeSound, Zenon
<1>4. QED
  BY <1>1, <1>3 DEF HeapInv

(***************************************************************************)
(* Every call of Alloc and Free keeps the heap in order (heap.cpp:163-223).*)
(***************************************************************************)
LEMMA StepSound ==
  HeapInv /\ [BlockNext]_blockVars => HeapInv'
<1> SUFFICES ASSUME HeapInv, [BlockNext]_blockVars PROVE HeapInv'
  OBVIOUS
<1>1. ASSUME NEW r \in Requests, Alloc(r[1], r[2]) PROVE HeapInv'
  <2>1. PICK size, a : size = r[1] /\ a = normalize_align(r[2])
    OBVIOUS
  <2>2. Fits(size, a)
    BY <2>1, RequestFits
  <2>3. AllocFound(size, a) \/ AllocOutOfFrames(size, a) \/ AllocGrows(size, a)
    BY <1>1, <2>1 DEF Alloc
  <2>4. QED
    BY <2>2, <2>3, AllocFoundSound, AllocOutOfFramesSound, AllocGrowsSound
<1>2. ASSUME NEW x \in live, Free(x) PROVE HeapInv'
  BY <1>2, FreeKeeps
<1>3. CASE UNCHANGED blockVars
  BY <1>3 DEF HeapInv, blockVars
<1>4. QED
  BY <1>1, <1>2, <1>3 DEF BlockNext

(***************************************************************************)
(* The heap is in order after every sequence of Alloc and Free, whatever   *)
(* grow_heap got (heap.cpp:129-223).                                       *)
(***************************************************************************)
THEOREM HeapInvariant == BlockSpec => []HeapInv
BY InitSound, StepSound, PTL DEF BlockSpec

(***************************************************************************)
(* The block list, the mapped end and the counter agree (heap.cpp:66-126,  *)
(* 195, 213): every byte is in one block, no block reaches into another,   *)
(* the used bytes are those of the used blocks.                            *)
(***************************************************************************)
THEOREM HeapAgrees == BlockSpec => []HeapConsistent
<1>1. HeapInv => HeapConsistent
  <2> SUFFICES ASSUME HeapInv PROVE HeapConsistent
    OBVIOUS
  <2>1. /\ g_heapEnd \in Base .. Base + MaxPages * PAGE_SIZE
        /\ SoundList(blocks, g_heapEnd, {}) /\ Accounts(blocks, g_heapEnd, lost, g_heapUsed)
        /\ LiveSound(live, blocks) /\ outcome \in {"none", "ok", "out of frames"}
    BY DEF HeapInv, HeapSound
  <2>2. blocks \in Seq(Block) /\ Ordered(blocks, g_heapEnd) /\ Len(blocks) \in Nat
    <3>1. blocks \in Seq(Block) /\ Ordered(blocks, g_heapEnd)
      BY <2>1 DEF SoundList
    <3>2. QED
      BY <3>1
  <2>3. NoByteLost /\ UsedExact
    BY <2>1 DEF Accounts, NoByteLost, UsedExact
  <2>4. PICK t, u, l, e : t = TotalSize(blocks) /\ u = UsedSize(blocks) /\ l = lost /\ e = g_heapEnd
    OBVIOUS
  <2>5. t \in Nat /\ u \in Nat /\ u <= t
    BY <2>2, <2>4, SumBounds
  <2>6. l \in Nat /\ t + l = e - Base /\ g_heapUsed = u
    BY <2>1, <2>4 DEF Accounts
  <2>7. PICK n : n = MaxPages * PAGE_SIZE
    OBVIOUS
  <2>8. n \in Nat /\ Base \in Nat /\ Word \in Nat /\ Base + n < Word /\ e \in Base .. Base + n
    <3>1. e \in Base .. Base + n
      BY <2>1, <2>4, <2>7
    <3>2. n \in Nat /\ Base \in Nat /\ Word \in Nat /\ Base + n < Word
      BY <2>7, HeapConstants
    <3>3. QED
      BY <3>1, <3>2
  <2>9. l \in 0 .. n /\ u \in 0 .. Word - 1
    BY <2>5, <2>6, <2>8
  <2>10. lost \in 0 .. MaxPages * PAGE_SIZE /\ g_heapUsed \in 0 .. Word - 1
    BY <2>4, <2>6, <2>7, <2>9
  <2>11. BlockTypeOK
    BY <2>1, <2>2, <2>10 DEF BlockTypeOK, LiveSound, Block
  <2>12. BlocksDisjoint
    <3>1. ASSUME NEW i \in DOMAIN blocks
          PROVE  /\ blocks[i].addr >= Base
                 /\ block_end(blocks[i]) <= IF i < Len(blocks) THEN blocks[i + 1].addr ELSE g_heapEnd
      <4>1. i \in 1 .. Len(blocks) /\ block_end(blocks[i]) = EndOf(blocks, i)
        BY <2>2 DEF block_end, payload_start, EndOf
      <4>2. CASE i < Len(blocks)
        <5>1. i + 1 \in 1 .. Len(blocks) /\ i < i + 1
          BY <2>2, <4>1, <4>2
        <5>2. QED
          BY <2>2, <4>1, <4>2, <5>1 DEF Ordered
      <4>3. CASE ~ (i < Len(blocks))
        BY <2>2, <4>1, <4>3 DEF Ordered
      <4>4. QED
        BY <4>2, <4>3
    <3>2. QED
      BY <3>1 DEF BlocksDisjoint
  <2>13. QED
    BY <2>3, <2>11, <2>12 DEF HeapConsistent
<1>2. QED
  BY <1>1, HeapInvariant, PTL

(***************************************************************************)
(* Merging is complete: no two neighbours are both free (heap.cpp:119-125, *)
(* 202-223).                                                               *)
(***************************************************************************)
THEOREM MergingComplete == BlockSpec => []NoFreeNeighbours
<1>1. HeapInv => NoFreeNeighbours
  BY DEF HeapInv, HeapSound, SoundList, NoFreeBut, NoFreeNeighbours
<1>2. QED
  BY <1>1, HeapInvariant, PTL

(***************************************************************************)
(* "Allocate 'size' bytes; alignment at least 'align'" (heap.hpp:18): what *)
(* a client holds is aligned and lies in a used block of its own.          *)
(***************************************************************************)
THEOREM ClientsOwnTheirBlocks == BlockSpec => []AllocationsOwned
<1>1. HeapInv => AllocationsOwned
  <2> SUFFICES ASSUME HeapInv, NEW x \in live
               PROVE  /\ x.ptr % x.align = 0
                      /\ \A y \in live : x.block = y.block => x = y
                      /\ \E i \in DOMAIN blocks :
                           /\ blocks[i].addr = x.block /\ blocks[i].used
                           /\ x.ptr - PointerSize >= payload_start(blocks[i])
                           /\ x.ptr + x.size <= block_end(blocks[i])
    BY DEF AllocationsOwned
  <2>1. blocks \in Seq(Block) /\ LiveSound(live, blocks)
    BY DEF HeapInv, HeapSound, SoundList
  <2>2. PICK i \in 1 .. Len(blocks) :
          /\ blocks[i].addr = x.block /\ blocks[i].used
          /\ x.ptr - PointerSize >= blocks[i].addr + HeaderSize
          /\ x.ptr + x.size <= EndOf(blocks, i)
    BY <2>1 DEF LiveSound, Owns
  <2>3. /\ i \in DOMAIN blocks /\ payload_start(blocks[i]) = blocks[i].addr + HeaderSize
        /\ block_end(blocks[i]) = EndOf(blocks, i)
    BY <2>1 DEF payload_start, block_end, EndOf
  <2>4. QED
    BY <2>1, <2>2, <2>3 DEF LiveSound
<1>2. QED
  BY <1>1, HeapInvariant, PTL

(***************************************************************************)
(* A grow_heap that succeeds makes room for the request that asked for it  *)
(* (heap.cpp:180-189).                                                     *)
(***************************************************************************)
THEOREM GrowingSuffices == BlockSpec => []GrowMakesRoom
<1>1. HeapInv => GrowMakesRoom
  BY DEF HeapInv, GrowMakesRoom
<1>2. QED
  BY <1>1, HeapInvariant, PTL
=============================================================================

---------------------------- MODULE FatFilesystem ----------------------------
(***************************************************************************)
(* The FAT32 and FAT16 drivers (fs/fat32.cpp, fs/fat16.cpp) on a disk that *)
(* may fail or lose power between any two writes.                          *)
(*                                                                         *)
(* A cluster is a sequence of cells of 32 bytes, each a directory entry, a *)
(* piece of file data, or empty.  An action is one disk write with the     *)
(* reads before it.  A failed write and a power loss leave the same disk:  *)
(* the operation is gone and what it wrote is not (action Abort).  A       *)
(* failed read of a FAT or directory sector is different, since the code   *)
(* takes it for the end of a chain or for a missing name and goes on.      *)
(* A write of several sectors is one write: what it adds is not looked at  *)
(* before a later one.  The second FAT is left out: nothing reads it.      *)
(*                                                                         *)
(* Entries hold what PackShortName11 makes of a name (Short): eight        *)
(* characters and an extension of three.  WriteFile, and Rename for its    *)
(* source, look for that; paths, Mkdir and Rename's check of its           *)
(* destination look for the whole name, which no entry has if it is longer.*)
(***************************************************************************)
EXTENDS Integers, Sequences, SequencesExt, FiniteSets

CONSTANTS
  Format,    (* {"FAT32", "FAT16"}: the formats the disk may have            *)
  Name,      (* file and directory names, in upper case                      *)
  Short,     (* of every name: what of it an entry holds                     *)
  ImageDir,  (* the directory the disk image is made with                    *)
  Path,      (* the paths callers use: non-empty sequences of names          *)
  Depth,     (* no path is longer                                            *)
  Length,    (* how many cells a WriteFile call writes                       *)
  Cells,     (* cells per cluster                                            *)
  RootCells, (* cells of the root directory region of a FAT16 disk           *)
  LastCluster, (* the last cluster the disk has                              *)
  Entries,   (* entries of the FAT: its last sector reaches past the disk    *)
  MaxOps,    (* how many operations are started (bounds the model)           *)
  MaxFaults  (* how many failed reads and cut-off operations there are       *)

ASSUME FatAssumptions ==
  /\ Format \subseteq {"FAT32", "FAT16"}
  /\ ImageDir \in Name /\ {"", ".", ".."} \cap Name = {}
  /\ Short \in [Name -> Name] /\ \A m \in Name : Short[Short[m]] = Short[m]
  /\ Path \subseteq Seq(Name) \ {<<>>} /\ Depth \in Nat
  /\ \A path \in Path : Len(path) <= Depth
  /\ Length \subseteq Nat \ {0}
  /\ Cells \in Nat \ {0, 1} /\ RootCells \in Nat \ {0}
  /\ LastCluster \in Nat /\ Entries \in Nat /\ 3 <= LastCluster /\ LastCluster < Entries
  /\ MaxOps \in Nat /\ MaxFaults \in Nat

VARIABLES
  format,   (* the mounted driver                                            *)
  fat,      (* the FAT: a cluster's successor, EOC, or 0 when free           *)
  contents, (* the cells of every cluster, and of the FAT16 root region      *)
  pc,       (* the next write of the operation under way                     *)
  op,       (* its arguments and locals                                      *)
  ops,      (* operations started                                            *)
  faults,   (* failed reads and cut-off operations so far                    *)
  lapse     (* history: what has gone wrong, see Lapse                       *)

disk == <<format, fat, contents>>
vars == <<format, fat, contents, pc, op, ops, faults, lapse>>
fine == <<faults, lapse>>

Cluster == 2 .. Entries - 1
EOC     == 1                       \* any end-of-chain mark
Root16  == 0                       \* the root region of a FAT16 disk
RootCluster == IF format = "FAT32" THEN 2 ELSE Root16

\* A read error taken for an end or a miss; an append at a cluster boundary; a
\* move or an append cut short; a file used as a directory; a file created in
\* a FAT16 root, where its size is not stored; a name stored that is there
\* already, since it was looked for in full.
Lapse == {"read error", "boundary append", "half move", "cut append",
          "file as directory", "size lost", "long name"}

Free == [tag |-> "free",  name |-> "", start |-> 0, size |-> 0]
Gone == [tag |-> "gone",  name |-> "", start |-> 0, size |-> 0]
Data(d)     == [tag |-> "data", name |-> "", start |-> 0, size |-> d]
File(m, s, z) == [tag |-> "file", name |-> m, start |-> s, size |-> z]
Dir(m, s)     == [tag |-> "dir",  name |-> m, start |-> s, size |-> 0]

Blank == [i \in 1 .. Cells |-> Free]

\* InitDirCluster: the two dot entries.
DirCluster(c, parent) == [Blank EXCEPT ![1] = Dir(".", c), ![2] = Dir("..", parent)]

\* NextCluster: the end of the chain is also where the FAT holds no link.
NextCluster == [c \in Cluster \cup {0, EOC} |-> IF c \in Cluster THEN fat[c] ELSE EOC]

\* The clusters read from s on, up to where the walk leaves the FAT; the FAT16
\* root region is a chain of its own.
Chain(s) ==
  LET walk[k \in 0 .. Entries] == IF k = 0 THEN s ELSE NextCluster[walk[k - 1]]
      inside == {n \in 0 .. Entries : \A k \in 0 .. n - 1 : walk[k] \in Cluster}
  IN IF s = Root16 THEN <<Root16>> ELSE [k \in 1 .. Max(inside) |-> walk[k - 1]]

\* A cluster past the end of the disk can be linked but not read or written.
OnDisk(c) == c <= LastCluster

Live(cell) == cell.tag \in {"file", "dir"}

\* The cells of a cluster a lookup looks at, up to an empty one, and those it
\* takes for a name.
Scanned(c) ==
  {i \in DOMAIN contents[c] : \A j \in 1 .. i : contents[c][j] # Free}
Match(c, m) == {i \in Scanned(c) : Live(contents[c][i]) /\ contents[c][i].name = m}
Cell(p) == contents[p.cl][p.off]

\* The first entry of a name, and Nowhere when there is none.
Nowhere == [cl |-> 0, off |-> 0]
FindShortEntry(dir, m) ==
  LET chain == Chain(dir)
      hits  == {k \in DOMAIN chain : OnDisk(chain[k]) /\ Match(chain[k], m) # {}}
      c     == chain[Min(hits)]
  IN IF hits = {} THEN Nowhere ELSE [cl |-> c, off |-> Min(Match(c, m))]

\* To go on as if a name were missing takes a read error where it is not.
Missed(dir, m) == IF FindShortEntry(dir, m) # Nowhere THEN {"read error"} ELSE {}

\* A name that is too long was not found, and what an entry holds of it is there.
Doubled(dir, m) ==
  IF Short[m] # m /\ FindShortEntry(dir, Short[m]) # Nowhere THEN {"long name"} ELSE {}

\* The directories along a path, -1 once a component is not found; FAT16 also
\* wants a directory there, FAT32 takes any entry.
Enters(dir, m) ==
  LET p == FindShortEntry(dir, m)
  IN p # Nowhere /\ (format = "FAT16" => Cell(p).tag = "dir")
Descend(dir, m) ==
  IF dir >= 0 /\ Enters(dir, m) THEN Cell(FindShortEntry(dir, m)).start ELSE -1
Along(path) ==
  LET dirs[k \in 0 .. Len(path) - 1] ==
        IF k = 0 THEN RootCluster ELSE Descend(dirs[k - 1], path[k])
  IN dirs
ParentDir(path) == Along(path)[Len(path) - 1]
ThroughFile(path) ==
  IF \E k \in 1 .. Len(path) - 1 :
       Cell(FindShortEntry(Along(path)[k - 1], path[k])).tag = "file"
  THEN {"file as directory"} ELSE {}

\* What ReadFile returns: the cells up to the size, as far as the chain goes.
ReadFile(e) ==
  LET c == SelectSeq(Chain(e.start), OnDisk)
  IN [i \in 1 .. (IF e.size < Len(c) * Cells THEN e.size ELSE Len(c) * Cells) |->
        contents[c[((i - 1) \div Cells) + 1]][((i - 1) % Cells) + 1]]

\* An entry's size and its chain agree, and the disk has all of it.
Whole(e) ==
  LET chain == Chain(e.start)
  IN /\ \A c \in Range(chain) : OnDisk(c)
     /\ e.size <= Len(chain) * Cells /\ e.size + Cells > Len(chain) * Cells

\* The lowest free entry of the FAT, 0 when there is none.
AllocateCluster ==
  LET free == {c \in Cluster : fat[c] = 0}
  IN IF free = {} THEN 0 ELSE Min(free)

Chunk(room) == IF op.len < room THEN op.len ELSE room

\* A cluster with k cells of the caller's data after cell off.
Put(cluster, off, k) ==
  [i \in 1 .. Cells |-> IF i > off /\ i <= off + k THEN Data(ops) ELSE cluster[i]]

------------------------------------------------------------------------------
\* Asked and sound are history: the length WriteFile was called with, and that it
\* read the disk without error, through directories, and found a whole file or none.
Idle == [kind |-> "none", path |-> <<>>, parents |-> FALSE, dir |-> 0, name |-> "",
         asked |-> 0, sound |-> FALSE, len |-> 0, start |-> 0, size |-> 0, cur |-> 0, new |-> 0,
         at |-> Nowhere]

\* The disk image of the build: mkfs on zeros, and one directory.
Init ==
  /\ format \in Format
  /\ LET d == IF format = "FAT32" THEN 3 ELSE 2
         cells(c) == [i \in 1 .. (IF c = Root16 THEN RootCells ELSE Cells) |-> Free]
     IN /\ fat = [c \in Cluster |-> IF c \in {RootCluster, d} THEN EOC ELSE 0]
        /\ contents = [c \in (2 .. LastCluster) \cup {Root16} |->
                         IF c = d THEN DirCluster(d, RootCluster)
                         ELSE IF c = RootCluster THEN [cells(c) EXCEPT ![1] = Dir(ImageDir, d)]
                         ELSE cells(c)]
  /\ pc = "idle" /\ op = Idle /\ ops = 0 /\ faults = 0 /\ lapse = {}

Lapsed(wrong) ==
  /\ lapse' = lapse \cup wrong
  /\ faults' = faults + (IF "read error" \in wrong THEN 1 ELSE 0)
  /\ faults' <= MaxFaults

Begin(step, o, wrong) ==
  /\ pc = "idle" /\ ops < MaxOps
  /\ ops' = ops + 1 /\ pc' = step /\ op' = o
  /\ Lapsed(wrong)
  /\ UNCHANGED disk

\* WriteFile of a name that is not there, or that the lookup missed.
CreateFile(path, len) ==
  LET dir   == ParentDir(path)
      m     == Short[Last(path)]
      wrong == Missed(dir, m) \cup ThroughFile(path)
  IN /\ dir >= 0
     /\ Begin("first", [Idle EXCEPT !.kind = "create", !.dir = dir, !.name = m, !.asked = len,
                                    !.sound = wrong = {}, !.len = len, !.size = len],
              wrong)

\* WriteFile of a file that exists: walk to the end of its chain, or to where
\* the FAT could not be read.
AppendFile(path, len) ==
  LET dir == ParentDir(path)
      at  == FindShortEntry(dir, Short[Last(path)])
      e   == Cell(at)
      wrong(last) ==
        (IF last # Last(Chain(e.start)) THEN {"read error"} ELSE {}) \cup ThroughFile(path)
  IN /\ dir >= 0 /\ at # Nowhere /\ e.tag = "file"
     /\ \E last \in Range(Chain(e.start)) :
          Begin("append", [Idle EXCEPT !.kind = "append", !.dir = dir, !.name = e.name, !.asked = len,
                                       !.sound = wrong(last) = {} /\ Whole(e), !.len = len,
                                       !.start = e.start, !.size = e.size, !.cur = last, !.at = at],
                wrong(last))

Mkdir(path, parents) ==
  Begin("component", [Idle EXCEPT !.kind = "mkdir", !.path = path, !.parents = parents,
                                  !.dir = RootCluster], {})

\* Faulty variant: the destination is not looked up.
RenameUnchecked(src, dst) ==
  LET from == ParentDir(src)
      to   == ParentDir(dst)
      at   == FindShortEntry(from, Short[Last(src)])
      e    == Cell(at)
  IN /\ format = "FAT32" /\ from >= 0 /\ to >= 0 /\ at # Nowhere
     /\ from # to => e.tag = "file"
     /\ Begin(IF from = to THEN "rename" ELSE "entry",
              [Idle EXCEPT !.kind = "rename", !.dir = to, !.name = Short[Last(dst)],
                           !.start = e.start, !.size = e.size, !.at = at],
              ThroughFile(src) \cup ThroughFile(dst))

\* Rename exists for FAT32 only; a directory is not moved to another parent.
Rename(src, dst) ==
  LET from == ParentDir(src)
      to   == ParentDir(dst)
      at   == FindShortEntry(from, Short[Last(src)])
      e    == Cell(at)
  IN /\ format = "FAT32" /\ from >= 0 /\ to >= 0 /\ at # Nowhere
     /\ from # to => e.tag = "file"
     /\ Begin(IF from = to THEN "rename" ELSE "entry",
              [Idle EXCEPT !.kind = "rename", !.dir = to, !.name = Short[Last(dst)],
                           !.start = e.start, !.size = e.size, !.at = at],
              Missed(to, Last(dst)) \cup Doubled(to, Last(dst)) \cup ThroughFile(src) \cup ThroughFile(dst))

------------------------------------------------------------------------------
Go(step, o) == pc' = step /\ op' = o /\ UNCHANGED ops
Write(c, cells) ==
  OnDisk(c) /\ contents' = [contents EXCEPT ![c] = cells] /\ UNCHANGED <<format, fat>>

\* The operation is over.
Return(wrong) == Go("idle", Idle) /\ Lapsed(wrong)
Unfinished ==
  CASE pc = "erase" -> {"half move"}
    [] op.kind = "append" -> {"cut append"}
    [] OTHER -> {}

\* A write fails, or the power does: the disk stays as it is.
Abort ==
  /\ pc # "idle" /\ faults < MaxFaults
  /\ Go("idle", Idle)
  /\ lapse' = lapse \cup Unfinished /\ faults' = faults + 1
  /\ UNCHANGED disk

\* Mkdir, component by component: descend into what is there, make what is not.
MkdirDescend ==
  LET p == FindShortEntry(op.dir, Head(op.path))
  IN /\ pc = "component" /\ op.path # <<>> /\ Enters(op.dir, Head(op.path))
     /\ Go("component", [op EXCEPT !.path = Tail(@), !.dir = Cell(p).start])
     /\ Lapsed(IF Cell(p).tag = "file" THEN {"file as directory"} ELSE {})
     /\ UNCHANGED disk

MkdirMissing ==
  /\ pc = "component" /\ op.path # <<>> /\ (op.parents \/ Len(op.path) = 1)
  /\ Go("first", [op EXCEPT !.path = Tail(@), !.name = Short[Head(op.path)]])
  /\ Lapsed(Missed(op.dir, Head(op.path)) \cup Doubled(op.dir, Head(op.path)))
  /\ UNCHANGED disk

MkdirDone == pc = "component" /\ op.path = <<>> /\ Return({}) /\ UNCHANGED disk

\* Faulty variant: the cluster is marked only after it was linked.
AllocateUnmarked ==
  LET c == AllocateCluster
  IN /\ pc \in {"first", "more"} /\ c # 0
     /\ Go(IF pc = "first" THEN "start" ELSE "link", [op EXCEPT !.new = c])
     /\ UNCHANGED <<disk, fine>>

\* AllocateCluster, for the first cluster of a file or directory or for one more.
Allocate ==
  LET c == AllocateCluster
  IN /\ pc \in {"first", "more"} /\ c # 0
     /\ fat' = [fat EXCEPT ![c] = EOC]
     /\ Go(IF pc = "first" THEN "start" ELSE "link", [op EXCEPT !.new = c])
     /\ UNCHANGED <<format, contents, fine>>

\* The first cluster: blank for a file, with the two dot entries for a directory.
StartCluster ==
  /\ pc = "start"
  /\ Write(op.new, IF op.kind = "create" THEN Blank
                   ELSE DirCluster(op.new, op.dir))
  /\ Go(IF op.kind = "create" THEN "fill" ELSE "entry",
        [op EXCEPT !.start = op.new, !.cur = op.new])
  /\ UNCHANGED fine

\* The next cluster of a new file.
Fill ==
  LET k == Chunk(Cells)
  IN /\ pc = "fill"
     /\ Write(op.cur, Put(Blank, 0, k))
     /\ Go(IF op.len > k THEN "more" ELSE "entry", [op EXCEPT !.len = @ - k])
     /\ UNCHANGED fine

\* UpdateFAT of the last cluster; the new one is marked as the end again.
Link ==
  /\ pc = "link"
  /\ fat' = [fat EXCEPT ![op.cur] = op.new]
  /\ Go("linked", op)
  /\ UNCHANGED <<format, contents, fine>>

\* Faulty variant: the size counts the first piece of an append only.
LinkedUncounted ==
  LET k == IF op.kind = "append" THEN Chunk(Cells) ELSE 0
  IN /\ pc = "linked"
     /\ Write(op.new, Put(Blank, 0, k))
     /\ Go(CASE op.kind = "append" -> (IF op.len > k THEN "more" ELSE "size")
             [] op.kind = "create" /\ op.len > 0 -> "fill"
             [] OTHER -> "entry",
           [op EXCEPT !.cur = op.new, !.len = @ - k])
     /\ UNCHANGED fine

\* The linked cluster is blanked for a new file or a directory; append fills it.
Linked ==
  LET k == IF op.kind = "append" THEN Chunk(Cells) ELSE 0
  IN /\ pc = "linked"
     /\ Write(op.new, Put(Blank, 0, k))
     /\ Go(CASE op.kind = "append" -> (IF op.len > k THEN "more" ELSE "size")
             [] op.kind = "create" /\ op.len > 0 -> "fill"
             [] OTHER -> "entry",
           [op EXCEPT !.cur = op.new, !.len = @ - k, !.size = @ + k])
     /\ UNCHANGED fine

\* Append first tops up the last cluster; FAT32 does so also when it is full.
FillsLastCluster == IF format = "FAT32" THEN op.size > 0 ELSE op.size % Cells # 0

\* Faulty variant: the data goes to the start of the last cluster.
AppendFirstOver ==
  LET off == op.size % Cells
      k   == IF FillsLastCluster THEN Chunk(Cells - off) ELSE 0
  IN /\ pc = "append"
     /\ IF k > 0 THEN Write(op.cur, Put(contents[op.cur], 0, k)) ELSE UNCHANGED disk
     /\ Go(IF op.len > k THEN "more" ELSE "size", [op EXCEPT !.len = @ - k, !.size = @ + k])
     /\ Lapsed(IF k > 0 /\ off = 0 THEN {"boundary append"} ELSE {})

AppendFirst ==
  LET off == op.size % Cells
      k   == IF FillsLastCluster THEN Chunk(Cells - off) ELSE 0
  IN /\ pc = "append"
     /\ IF k > 0 THEN Write(op.cur, Put(contents[op.cur], off, k)) ELSE UNCHANGED disk
     /\ Go(IF op.len > k THEN "more" ELSE "size", [op EXCEPT !.len = @ - k, !.size = @ + k])
     /\ Lapsed(IF k > 0 /\ off = 0 THEN {"boundary append"} ELSE {})

\* The size goes into the directory entry last.
UpdateSize ==
  /\ pc = "size"
  /\ Write(op.at.cl, [contents[op.at.cl] EXCEPT ![op.at.off].size = op.size])
  /\ Return({})

\* The new entry, in the first unused cell of the directory's clusters.
NewEntry ==
  IF op.kind = "mkdir" THEN Dir(op.name, op.start)
  ELSE File(op.name, op.start,
            IF op.kind = "create" /\ op.dir = Root16 THEN 0 ELSE op.size)
Unused(c) == {i \in DOMAIN contents[c] : contents[c][i] \in {Free, Gone}}
HasRoom(dir) == \E c \in Range(Chain(dir)) : OnDisk(c) /\ Unused(c) # {}
AddEntry ==
  LET c    == Chain(op.dir)
      k    == Min({i \in DOMAIN c : OnDisk(c[i]) /\ Unused(c[i]) # {}})
      off  == Min(Unused(c[k]))
  IN /\ pc = "entry" /\ HasRoom(op.dir)
     /\ Write(c[k], [contents[c[k]] EXCEPT ![off] = NewEntry])
     /\ CASE op.kind = "create" -> Return(IF op.dir = Root16 THEN {"size lost"} ELSE {})
          [] op.kind = "mkdir" -> Go("component", [op EXCEPT !.dir = op.start]) /\ UNCHANGED fine
          [] op.kind = "rename" -> Go("erase", op) /\ UNCHANGED fine

\* No room up to the end of the chain, or to where the FAT could not be read.
ExtendDirectory ==
  LET c == Chain(op.dir)
  IN /\ pc = "entry" /\ op.dir # Root16 /\ UNCHANGED disk
     /\ \E k \in DOMAIN c :
          /\ \A j \in 1 .. k : OnDisk(c[j]) /\ Unused(c[j]) = {}
          /\ Go("more", [op EXCEPT !.cur = c[k]])
          /\ Lapsed(IF k < Len(c) THEN {"read error"} ELSE {})

\* The code gives up: no cluster, one past the end of the disk, no room in a
\* FAT16 root, or Mkdir through a missing component or a file.
Refused ==
  \/ pc \in {"first", "more"} /\ AllocateCluster = 0
  \/ pc \in {"start", "linked"} /\ ~OnDisk(op.new)
  \/ pc = "append" /\ FillsLastCluster /\ ~OnDisk(op.cur)
  \/ pc = "entry" /\ ~HasRoom(op.dir) /\ (op.dir = Root16 \/ ~OnDisk(Last(Chain(op.dir))))
  \/ /\ pc = "component" /\ op.path # <<>> /\ ~Enters(op.dir, Head(op.path))
     /\ \/ FindShortEntry(op.dir, Head(op.path)) # Nowhere
        \/ ~op.parents /\ Len(op.path) > 1
Refuse == Refused /\ Return(Unfinished) /\ UNCHANGED disk

RenameInPlace ==
  /\ pc = "rename"
  /\ Write(op.at.cl, [contents[op.at.cl] EXCEPT ![op.at.off].name = op.name])
  /\ Return({})

\* Faulty variant: the old entry is left where it is.
EraseNothing == pc = "erase" /\ Return({}) /\ UNCHANGED disk

EraseOld ==
  /\ pc = "erase"
  /\ Write(op.at.cl, [contents[op.at.cl] EXCEPT ![op.at.off] = Gone])
  /\ Return({})

Next ==
  \/ \E path \in Path, len \in Length : CreateFile(path, len) \/ AppendFile(path, len)
  \/ \E path \in Path, parents \in BOOLEAN : Mkdir(path, parents)
  \/ \E src, dst \in Path : Rename(src, dst)
  \/ MkdirDescend \/ MkdirMissing \/ MkdirDone \/ Allocate \/ StartCluster \/ Fill \/ Link \/ Linked
  \/ AppendFirst \/ UpdateSize \/ AddEntry \/ ExtendDirectory
  \/ RenameInPlace \/ EraseOld
  \/ Refuse \/ Abort

Spec == Init /\ [][Next]_vars

------------------------------------------------------------------------------
\* The directories of the tree, and the entries and files in them.
Places(dir) ==
  UNION {{[cl |-> c, off |-> i] : i \in Scanned(c)} : c \in {x \in Range(Chain(dir)) : OnDisk(x)}}
Entry(dir) == {p \in Places(dir) : Live(Cell(p)) /\ Cell(p).name \in Name}
Subdirs(dir) == {Cell(p).start : p \in {q \in Entry(dir) : Cell(q).tag = "dir"}}
Below(dirs) == UNION {{d} \cup Subdirs(d) : d \in dirs}
Tree ==
  LET upto[k \in 0 .. Depth] == IF k = 0 THEN {RootCluster} ELSE Below(upto[k - 1])
  IN upto[Depth]
Files == {Cell(p) : p \in {q \in UNION {Entry(d) : d \in Tree} : Cell(q).tag = "file"}}

(***************************************************************************)
(* Type invariant of the disk and of the operation under way.              *)
(***************************************************************************)
TypeOK ==
  /\ format \in Format
  /\ fat \in [Cluster -> Cluster \cup {0, EOC}]
  /\ \A c \in DOMAIN contents : \A i \in DOMAIN contents[c] :
       contents[c][i].tag \in {"free", "gone", "data", "file", "dir"}
  /\ pc \in {"idle", "component", "first", "start", "fill", "more", "link", "linked",
             "append", "size", "entry", "rename", "erase"}
  /\ op.len \in Nat /\ op.size \in Nat
  /\ ops \in 0 .. MaxOps /\ faults \in 0 .. MaxFaults
  /\ lapse \subseteq Lapse

(***************************************************************************)
(* Wherever an operation is cut off and whatever read failed before, no    *)
(* cluster is in two chains: a link leads to an allocated cluster, no two  *)
(* links to the same one, and none to the first cluster of an entry        *)
(* (fat32.cpp:300-322, 422-429, 481-488, 516-528: a cluster is marked in   *)
(* the FAT before it is linked, and linked before it is named).            *)
(***************************************************************************)
NoSharedCluster ==
  /\ \A c \in Cluster : fat[c] \in Cluster => fat[fat[c]] # 0
  /\ \A c, d \in Cluster : fat[c] \in Cluster /\ fat[c] = fat[d] => c = d
  /\ \A c \in Cluster : fat[c] \in Cluster => fat[c] # RootCluster
  /\ \A d \in Tree : \A p \in Entry(d) :
       Cell(p).start \in Cluster /\ fat[Cell(p).start] # 0 /\ \A c \in Cluster : fat[c] # Cell(p).start

(***************************************************************************)
(* An entry owns its chain: two entries of the tree start at the same      *)
(* cluster only inside a move to another directory, or after one that was  *)
(* cut off before the old entry was erased (fat32.cpp:982-985).            *)
(***************************************************************************)
OneEntryPerChain ==
  \A d, e \in Tree : \A p \in Entry(d), q \in Entry(e) :
    p # q /\ Cell(p).start = Cell(q).start => pc = "erase" \/ "half move" \in lapse

(***************************************************************************)
(* A directory holds a name once, as long as every read succeeded and no   *)
(* name that was cut to fit an entry was there already                     *)
(* (fat32.cpp:455-464, 850-871, 964-974).                                  *)
(***************************************************************************)
NamesUnique ==
  {"read error", "long name"} \cap lapse = {} =>
    \A d \in Tree : \A p, q \in Entry(d) : Cell(p).name = Cell(q).name => p = q

(***************************************************************************)
(* No entry is hidden: lookup and enumeration, which stop at the first     *)
(* empty cell, see every live entry of a directory, also in clusters that  *)
(* were added to it and in cells that a move had vacated                   *)
(* (fat32.cpp:375-394, 402-434, 1011-1017).                                *)
(***************************************************************************)
NoHiddenEntry ==
  \A d \in Tree : LET chain == Chain(d) IN
    \A k \in {n \in DOMAIN chain : OnDisk(chain[n])} :
      /\ \A i \in DOMAIN contents[chain[k]] : Live(contents[chain[k]][i]) => i \in Scanned(chain[k])
      /\ k < Len(chain) => Free \notin Range(contents[chain[k]])

(***************************************************************************)
(* Directories keep their names unique and their entries visible, wherever *)
(* an operation is cut off (fat32.cpp:368-464).                            *)
(***************************************************************************)
DirectoriesSound == TypeOK /\ NamesUnique /\ NoHiddenEntry

(***************************************************************************)
(* Files only grow: no step of any operation, finished or cut off, loses   *)
(* a file or changes a byte that ReadFile returned before                  *)
(* (fat32.cpp:436-538, 915-987).  Left out are the steps after a read      *)
(* error was taken for an end of chain, after a path led through a file,   *)
(* and after a FAT32 append to a file that fills its last cluster, which   *)
(* AppendKeepsData is about.                                               *)
(***************************************************************************)
FilesOnlyGrow ==
  [][disk' # disk /\ lapse' \cap {"read error", "boundary append", "file as directory"} = {} =>
       \A e \in Files : \E f \in Files' :
         /\ f.start = e.start /\ f.size >= e.size
         /\ IsPrefix(ReadFile(e), ReadFile(f)')]_vars

(***************************************************************************)
(* The last step of a WriteFile that stored everything it was asked to.    *)
(***************************************************************************)
OldSize == IF op.kind = "append" THEN Cell(op.at).size ELSE 0
Acknowledged == pc' = "idle" /\ pc \in {"size", "entry"} /\ disk' # disk
DataStored ==
  \E f \in Files' :
    /\ f.start = op.start /\ f.size = OldSize + op.asked
    /\ Len(ReadFile(f)') = f.size
    /\ SubSeq(ReadFile(f)', OldSize + 1, f.size) = [i \in 1 .. op.asked |-> Data(ops)]

(***************************************************************************)
(* What WriteFile acknowledges can be read back: when an append or a       *)
(* creation has stored its entry, the file has grown by exactly the data   *)
(* of that call (fat32.cpp:472-491, 502-537, fat16.cpp:44-69, 80-131),     *)
(* whatever went wrong with other files before.  The two that lose data    *)
(* have properties of their own: CreationReadable and AppendKeepsData.     *)
(***************************************************************************)
WrittenDataReadable ==
  [][Acknowledged /\ op.sound =>
       \/ DataStored
       \/ op.kind = "create" /\ op.dir = Root16
       \/ op.kind = "append" /\ format = "FAT32" /\ OldSize % Cells = 0]_vars

(***************************************************************************)
(* "Append-oriented write: appends 'len' bytes to file or creates it if    *)
(* missing" (fat16.hpp:34): what it created has the bytes.                 *)
(***************************************************************************)
CreationReadable ==
  [][Acknowledged /\ op.sound /\ op.kind = "create" => DataStored]_vars

(***************************************************************************)
(* As the comment at fat32.cpp:504 has it, an append changes the last      *)
(* cluster only if it has space: what the file held stays.                 *)
(***************************************************************************)
AppendKeepsData ==
  [][pc = "append" /\ lapse = {} =>
       \A e \in Files : IsPrefix(ReadFile(e), ReadFile(e)')]_vars
=============================================================================

------------------------- MODULE FatFilesystemProofs -------------------------
(***************************************************************************)
(* Proofs about FatFilesystem, for a disk of any size, any names and       *)
(* paths, and however often reads fail and operations are cut off: no      *)
(* cluster is in two chains, an entry owns its chain, names are unique and *)
(* no entry is hidden.                                                     *)
(*                                                                         *)
(* The invariant FatInv says more than the properties in two ways.  It is  *)
(* about every live cell of the disk, not only about those the tree leads  *)
(* to, so that it does not depend on what is reachable.  And it has a      *)
(* witness: a function that gives each cluster the head of its chain,      *)
(* changed only where a cluster is linked.  Two facts carry it: clusters   *)
(* are never freed and the lowest free one is taken, so links go upwards;  *)
(* and the cluster at hand is marked, linked and named in this order.      *)
(***************************************************************************)
EXTENDS FatFilesystem, WellFoundedInduction, TLAPS

(***************************************************************************)
(* A non-empty set of natural numbers has a smallest element: the first    *)
(* free cluster (fat32.cpp:305-320) and the first match are such.          *)
(***************************************************************************)
LEMMA MinimumExists ==
  ASSUME NEW T, T \subseteq Nat, T # {}
  PROVE  \E m \in T : \A n \in T : m <= n
<1> DEFINE Less == OpToRel(<, Nat)
<1>1. IsWellFoundedOn(Less, Nat)
  BY NatLessThanWellFounded
<1>2. \E x \in T : \A y \in T : ~ (<<y, x>> \in Less)
  <2> HIDE DEF Less
  <2> QED BY <1>1, WFMin
<1>3. PICK x \in T : \A y \in T : ~ (<<y, x>> \in Less)
  BY <1>2
<1>4. Less = {p \in Nat \X Nat : p[1] < p[2]}
  BY DEF OpToRel
<1>5. \A y \in T : x <= y
  <2> HIDE DEF Less
  <2>1. \A y \in T : ~ (y < x)
    BY <1>3, <1>4
  <2> QED BY <2>1
<1>6. QED
  BY <1>5

(***************************************************************************)
(* What Min and Max return.                                                *)
(***************************************************************************)
LEMMA MinIs ==
  ASSUME NEW T, T \subseteq Nat, T # {}
  PROVE  Min(T) \in T /\ \A n \in T : Min(T) <= n
BY MinimumExists DEF Min

(***************************************************************************)
(* What Max returns, of a bounded set.                                     *)
(***************************************************************************)
LEMMA MaxIs ==
  ASSUME NEW b \in Nat, NEW T, T \subseteq 0 .. b, T # {}
  PROVE  Max(T) \in T /\ \A n \in T : n <= Max(T)
<1> DEFINE below == {b - n : n \in T}
<1>1. below \subseteq Nat
  <2>1. \A n \in T : b - n \in Nat
    OBVIOUS
  <2> QED BY <2>1
<1>a. below # {}
  OBVIOUS
<1>2. PICK x \in below : \A y \in below : x <= y
  BY <1>1, <1>a, MinimumExists
<1>3. PICK m \in T : x = b - m
  BY <1>2
<1>4. ASSUME NEW n \in T PROVE n <= m
  <2>1. x <= b - n
    BY <1>2
  <2> QED BY <1>3, <2>1
<1>5. \E z \in T : \A y \in T : z >= y
  BY <1>4
<1> HIDE DEF below
<1>6. Max(T) \in T /\ \A y \in T : Max(T) >= y
  BY <1>5 DEF Max
<1> QED BY <1>6

------------------------------------------------------------------------------
(***************************************************************************)
(* The invariant.  k is the contents of the disk, f the FAT, r the root    *)
(* directory, h the head of each cluster's chain.                          *)
(***************************************************************************)
Tag == {"free", "gone", "data", "file", "dir"}
CellSet == [tag : Tag, name : Name \cup {"", ".", ".."}, start : Cluster \cup {0}, size : Nat]
Sector == (2 .. LastCluster) \cup {Root16}
Width(c) == IF c = Root16 THEN RootCells ELSE Cells
Row == [1 .. Cells -> CellSet] \cup [1 .. RootCells -> CellSet]

Rows(k) ==
  /\ k \in [Sector -> Row]
  /\ \A c \in Sector : k[c] \in [1 .. Width(c) -> CellSet]

\* Cell i of sector c is the entry of a file or directory (not a dot entry).
Named(k, c, i) ==
  /\ c \in Sector /\ i \in 1 .. Width(c)
  /\ Live(k[c][i]) /\ k[c][i].name \in Name

Unlinked(f, s) == \A b \in Cluster : f[b] # s
Unnamed(k, s) == \A c, i : Named(k, c, i) => k[c][i].start # s

\* Links lead upwards to allocated clusters, no two to the same one, and the
\* allocated clusters are the first ones.
Links(f, r) ==
  /\ f \in [Cluster -> Cluster \cup {0, EOC}]
  /\ \A c \in Cluster : f[c] \in Cluster => f[f[c]] # 0 /\ f[c] > c
  /\ \A c, d \in Cluster : f[c] \in Cluster /\ f[c] = f[d] => c = d
  /\ \A c, d \in Cluster : c < d /\ f[c] = 0 => f[d] = 0
  /\ r \in Cluster => f[r] # 0

\* An entry names the first cluster of a chain.
Begins(f, r, s) == s \in Cluster /\ f[s] # 0 /\ Unlinked(f, s) /\ s # r
Starts(k, f, r) == \A c, i : Named(k, c, i) => Begins(f, r, k[c][i].start)

\* h gives every cluster of a chain the chain's first cluster.
Heads(f, r, h) ==
  /\ h \in [Cluster \cup {0} -> Cluster \cup {0}]
  /\ \A c \in Cluster \cup {0} : h[c] = 0 <=> c = 0
  /\ h[r] = r
  /\ \A c \in Cluster : f[c] \in Cluster => h[f[c]] = h[c]
  /\ \A c \in Cluster : f[c] = 0 => h[c] = c
  /\ \A c \in Cluster : h[c] # c => f[h[c]] # 0
NamesHeads(k, h) == \A c, i : Named(k, c, i) => h[k[c][i].start] = k[c][i].start

\* As long as no chain was cut: what is not a head is linked.
Attached(f, h) == \A c \in Cluster : h[c] # c => ~Unlinked(f, c)

\* x is the first cluster of a directory.
DirHead(k, r, x) == x = r \/ \E c, i : Named(k, c, i) /\ k[c][i].tag = "dir" /\ k[c][i].start = x
NoFree(k, c) == c \in Sector => \A i \in 1 .. Width(c) : k[c][i] # Free
DirsFull(k, f, r, h) ==
  \A c \in Cluster : f[c] \in Cluster /\ DirHead(k, r, h[c]) => NoFree(k, c)

\* No live cell after an empty one.
GapFree(row, n) == \A i \in 1 .. n : Live(row[i]) => \A j \in 1 .. i : row[j] # Free
NoGap(k) == \A c \in Sector : GapFree(k[c], Width(c))

\* Entries are in allocated clusters.
Inhabited(k, f) == \A c, i : Named(k, c, i) /\ c \in Cluster => f[c] # 0

UniqueNames(k, h) ==
  \A c, i, d, j : Named(k, c, i) /\ Named(k, d, j) /\ h[c] = h[d] /\ k[c][i].name = k[d][j].name
                    => c = d /\ i = j

\* A lookup tells whether a name is there: no read failed, and no name was cut to
\* one that is.
Told(L) == "read error" \notin L /\ "long name" \notin L

Core(k, f, r, h, L) ==
  /\ Rows(k) /\ Links(f, r) /\ Starts(k, f, r) /\ Heads(f, r, h) /\ NamesHeads(k, h)
  /\ DirsFull(k, f, r, h) /\ NoGap(k) /\ Inhabited(k, f)
  /\ "read error" \notin L => Attached(f, h)
  /\ Told(L) => UniqueNames(k, h)

\* Two entries of one chain are of one kind, and excused.
At(p, c, i) == p.cl = c /\ p.off = i
Excused(L, p, at, c, i, d, j) ==
  (c = d /\ i = j) \/ "half move" \in L \/ (p = "erase" /\ (At(at, c, i) \/ At(at, d, j)))
Owners(k, L, p, at) ==
  \A c, i, d, j :
    Named(k, c, i) /\ Named(k, d, j) /\ k[c][i].start = k[d][j].start =>
      /\ k[c][i].tag = k[d][j].tag
      /\ Excused(L, p, at, c, i, d, j)

------------------------------------------------------------------------------
(***************************************************************************)
(* Numbers and sets that the constants fix.                                *)
(***************************************************************************)
LEMMA Constants ==
  /\ Cells \in Nat /\ Cells >= 2 /\ RootCells \in Nat /\ RootCells >= 1
  /\ LastCluster \in Nat /\ Entries \in Nat /\ 3 <= LastCluster /\ LastCluster < Entries
  /\ 0 \notin Cluster /\ 1 \notin Cluster /\ 2 \in Cluster /\ 3 \in Cluster
  /\ \A c \in Cluster : c \in Nat /\ c >= 2 /\ c < Entries
  /\ \A c \in Cluster : c <= LastCluster <=> c \in Sector
  /\ 0 \in Sector /\ 0 <= LastCluster
  /\ \A c \in Sector : c \in Cluster \cup {0}
  /\ \A c \in Cluster : Width(c) = Cells
<1>1. /\ Cells \in Nat /\ Cells >= 2 /\ RootCells \in Nat /\ RootCells >= 1
      /\ LastCluster \in Nat /\ Entries \in Nat /\ 3 <= LastCluster /\ LastCluster < Entries
  <2>1. /\ Cells \in Nat \ {0, 1} /\ RootCells \in Nat \ {0}
        /\ LastCluster \in Nat /\ Entries \in Nat /\ 3 <= LastCluster /\ LastCluster < Entries
    BY FatAssumptions, Zenon
  <2> QED BY <2>1
<1>2. /\ 0 \notin Cluster /\ 1 \notin Cluster /\ 2 \in Cluster /\ 3 \in Cluster
      /\ \A c \in Cluster : c \in Nat /\ c >= 2 /\ c < Entries
  BY <1>1 DEF Cluster
<1>3. \A c \in Cluster : c <= LastCluster <=> c \in Sector
  BY <1>1, <1>2 DEF Sector, Root16
<1>4. 0 \in Sector /\ 0 <= LastCluster
  BY <1>1 DEF Sector, Root16
<1>5. \A c \in Sector : c \in Cluster \cup {0}
  BY <1>1 DEF Sector, Root16, Cluster
<1>6. \A c \in Cluster : Width(c) = Cells
  BY <1>2 DEF Width, Root16
<1> QED BY <1>1, <1>2, <1>3, <1>4, <1>5, <1>6

(***************************************************************************)
(* The root directory is cluster 2 of a FAT32 disk and the root region of  *)
(* a FAT16 one (fat32.cpp:129-244, fat16.cpp:160-205).                     *)
(***************************************************************************)
LEMMA RootIs == RootCluster \in {0, 2} /\ RootCluster \in Cluster \cup {0}
BY Constants DEF RootCluster, Root16

------------------------------------------------------------------------------
(***************************************************************************)
(* Chains.  A walk along the FAT exists for any number of steps.           *)
(***************************************************************************)
Walk(w, s, g, n) == w = [k \in 0 .. n |-> IF k = 0 THEN s ELSE g[w[k - 1]]]

(***************************************************************************)
(* The recursive definition of a walk has a solution for any number of     *)
(* steps.                                                                  *)
(***************************************************************************)
LEMMA WalkExists ==
  ASSUME NEW s, NEW g
  PROVE  \A n \in Nat : \E w : Walk(w, s, g, n)
<1> DEFINE T == {n \in Nat : ~ \E w : Walk(w, s, g, n)}
<1>1. SUFFICES ASSUME T # {} PROVE FALSE
  BY <1>1
<1>2. T \subseteq Nat
  OBVIOUS
<1>3. PICK m \in T : \A n \in T : m <= n
  BY <1>1, <1>2, MinimumExists
<1>4. m \in Nat /\ ~ \E w : Walk(w, s, g, m)
  BY <1>3
<1>5. CASE m = 0
  <2>1. PICK w : w = [k \in 0 .. 0 |-> s]
    OBVIOUS
  <2>2. w = [k \in 0 .. 0 |-> IF k = 0 THEN s ELSE g[w[k - 1]]]
    BY <2>1
  <2> QED BY <1>4, <1>5, <2>2 DEF Walk
<1>6. CASE m > 0
  <2>1. m - 1 \in Nat /\ m - 1 < m
    BY <1>4, <1>6
  <2>2. m - 1 \notin T
    BY <1>3, <1>4, <2>1
  <2>3. PICK v : Walk(v, s, g, m - 1)
    BY <2>1, <2>2
  <2>4. \A k \in 0 .. m - 1 : v[k] = IF k = 0 THEN s ELSE g[v[k - 1]]
    BY <2>3 DEF Walk
  <2>5. PICK w : w = [k \in 0 .. m |-> IF k < m THEN v[k] ELSE g[v[m - 1]]]
    OBVIOUS
  <2>6. ASSUME NEW k \in 0 .. m PROVE w[k] = IF k = 0 THEN s ELSE g[w[k - 1]]
    <3>1. CASE k = 0
      <4>1. w[k] = v[0]
        BY <1>4, <1>6, <2>5, <3>1
      <4>2. v[0] = s
        BY <2>1, <2>4
      <4> QED BY <3>1, <4>1, <4>2
    <3>2. CASE k # 0 /\ k < m
      <4>1. k \in 0 .. m - 1 /\ k - 1 \in 0 .. m /\ k - 1 < m
        BY <1>4, <3>2
      <4>2. w[k] = v[k] /\ w[k - 1] = v[k - 1]
        BY <2>5, <3>2, <4>1
      <4>3. v[k] = g[v[k - 1]]
        BY <2>4, <3>2, <4>1
      <4> QED BY <3>2, <4>2, <4>3
    <3>3. CASE k # 0 /\ k = m
      <4>1. m - 1 \in 0 .. m /\ m - 1 < m /\ ~(m < m)
        BY <1>4, <1>6
      <4>2. w[m] = g[v[m - 1]] /\ w[m - 1] = v[m - 1]
        BY <2>5, <3>3, <4>1
      <4> QED BY <3>3, <4>2
    <3> QED BY <1>4, <3>1, <3>2, <3>3
  <2>7. w = [k \in 0 .. m |-> IF k = 0 THEN s ELSE g[w[k - 1]]]
    BY <2>5, <2>6
  <2> QED BY <1>4, <2>7 DEF Walk
<1> QED BY <1>4, <1>5, <1>6

(***************************************************************************)
(* What Chain returns: the walk as far as it stays inside the FAT.         *)
(***************************************************************************)
LEMMA ChainIsWalk ==
  ASSUME NEW s, s # Root16
  PROVE  \E w, n : /\ Walk(w, s, NextCluster, Entries) /\ n \in 0 .. Entries
                   /\ Chain(s) = [k \in 1 .. n |-> w[k - 1]]
                   /\ \A k \in 1 .. n : w[k - 1] \in Cluster
                   /\ \A m \in 0 .. Entries : (\A k \in 0 .. m - 1 : w[k] \in Cluster) => m <= n
<1> DEFINE g == NextCluster
           w == CHOOSE v : v = [k \in 0 .. Entries |-> IF k = 0 THEN s ELSE g[v[k - 1]]]
           inside == {n \in 0 .. Entries : \A k \in 0 .. n - 1 : w[k] \in Cluster}
<1>0. Entries \in Nat
  BY Constants
<1>1. Chain(s) = [k \in 1 .. Max(inside) |-> w[k - 1]]
  BY DEF Chain
<1>2. \E v : v = [k \in 0 .. Entries |-> IF k = 0 THEN s ELSE g[v[k - 1]]]
  <2> HIDE DEF g
  <2>1. \E v : Walk(v, s, g, Entries)
    BY <1>0, WalkExists
  <2> QED BY <2>1 DEF Walk
<1>3. Walk(w, s, g, Entries)
  <2> HIDE DEF g
  <2>1. w = [k \in 0 .. Entries |-> IF k = 0 THEN s ELSE g[w[k - 1]]]
    BY <1>2
  <2> HIDE DEF w
  <2> QED BY <2>1 DEF Walk
<1> HIDE DEF w
<1>4. inside \subseteq 0 .. Entries
  OBVIOUS
<1>5. 0 \in inside
  BY <1>0
<1>6. Max(inside) \in inside /\ \A n \in inside : n <= Max(inside)
  <2> HIDE DEF inside
  <2> QED BY <1>0, <1>4, <1>5, MaxIs
<1>7. PICK n : n = Max(inside)
  OBVIOUS
<1>8. n \in 0 .. Entries /\ \A k \in 0 .. n - 1 : w[k] \in Cluster
  BY <1>6, <1>7
<1>9. ASSUME NEW m \in 0 .. Entries, \A k \in 0 .. m - 1 : w[k] \in Cluster PROVE m <= n
  <2>1. m \in inside
    BY <1>9
  <2> QED BY <1>6, <1>7, <2>1
<1>10. \A k \in 1 .. n : w[k - 1] \in Cluster
  BY <1>8
<1>11. Chain(s) = [k \in 1 .. n |-> w[k - 1]]
  BY <1>1, <1>7
<1> HIDE DEF inside, g
<1>12. Walk(w, s, NextCluster, Entries)
  BY <1>3 DEF g
<1> QED BY <1>8, <1>9, <1>10, <1>11, <1>12

(***************************************************************************)
(* A step of a walk follows a link.                                        *)
(***************************************************************************)
LEMMA WalkSteps ==
  ASSUME NEW w, NEW s, Walk(w, s, NextCluster, Entries)
  PROVE  /\ w[0] = s
         /\ \A k \in 1 .. Entries : w[k - 1] \in Cluster => w[k] = fat[w[k - 1]]
<1>0. Entries \in Nat
  BY Constants
<1>1. PICK g : g = NextCluster
  OBVIOUS
<1>2. \A k \in 0 .. Entries : w[k] = IF k = 0 THEN s ELSE g[w[k - 1]]
  BY <1>1 DEF Walk
<1>3. \A c \in Cluster : g[c] = fat[c]
  BY <1>1 DEF NextCluster
<1>4. w[0] = s
  BY <1>0, <1>2
<1>5. ASSUME NEW k \in 1 .. Entries, w[k - 1] \in Cluster PROVE w[k] = fat[w[k - 1]]
  <2>1. w[k] = g[w[k - 1]]
    BY <1>0, <1>2
  <2> QED BY <1>3, <1>5, <2>1
<1> QED BY <1>4, <1>5

(***************************************************************************)
(* The clusters of a chain have its head and are allocated                 *)
(* (fat32.cpp:255-268, 368-395).                                           *)
(***************************************************************************)
ChainOf(c, s, n, h) ==
  /\ DOMAIN c = 1 .. n /\ Len(c) = n /\ n >= 1 /\ c[1] = s
  /\ \A k \in 1 .. n : c[k] \in Cluster /\ h[c[k]] = h[s] /\ fat[c[k]] # 0
  /\ \A k \in 1 .. n - 1 : fat[c[k]] = c[k + 1]
  /\ fat[c[n]] \notin Cluster

(***************************************************************************)
(* A chain that starts at an allocated cluster is not empty, follows the   *)
(* links to where they end, and stays with one head.                       *)
(***************************************************************************)
LEMMA ChainSound ==
  ASSUME NEW r, NEW h, Links(fat, r), Heads(fat, r, h), NEW s \in Cluster, fat[s] # 0
  PROVE  \E n \in Nat : ChainOf(Chain(s), s, n, h)
<1>0. s # Root16 /\ Entries \in Nat
  BY Constants DEF Root16
<1>1. PICK w, n : /\ Walk(w, s, NextCluster, Entries) /\ n \in 0 .. Entries
                  /\ Chain(s) = [k \in 1 .. n |-> w[k - 1]]
                  /\ \A k \in 1 .. n : w[k - 1] \in Cluster
                  /\ \A m \in 0 .. Entries : (\A k \in 0 .. m - 1 : w[k] \in Cluster) => m <= n
  BY <1>0, ChainIsWalk
<1>2. w[0] = s /\ \A k \in 1 .. Entries : w[k - 1] \in Cluster => w[k] = fat[w[k - 1]]
  BY <1>1, WalkSteps
<1>3. 1 <= n
  <2>1. 1 \in 0 .. Entries
    BY Constants
  <2>2. \A k \in 0 .. 1 - 1 : w[k] \in Cluster
    BY <1>2
  <2> QED BY <1>1, <2>1, <2>2
<1>4. PICK c : c = Chain(s)
  OBVIOUS
<1>5. n \in Nat /\ n <= Entries /\ DOMAIN c = 1 .. n /\ \A k \in 1 .. n : c[k] = w[k - 1]
  BY <1>0, <1>1, <1>4
<1>6. Len(c) = n
  BY <1>1, <1>4, <1>5
<1>7. \A k \in 1 .. n : c[k] \in Cluster
  BY <1>1, <1>5
<1>8. c[1] = s
  BY <1>2, <1>3, <1>5
<1>9. ASSUME NEW k \in 1 .. n - 1 PROVE fat[c[k]] = c[k + 1]
  <2>1. k \in 1 .. Entries /\ k \in 1 .. n /\ k + 1 \in 1 .. n /\ (k + 1) - 1 = k
    BY <1>0, <1>5
  <2>2. c[k] = w[k - 1] /\ c[k + 1] = w[(k + 1) - 1] /\ w[k - 1] \in Cluster
    BY <1>1, <1>5, <2>1
  <2>3. w[k] = fat[w[k - 1]]
    BY <1>2, <2>1, <2>2
  <2> QED BY <2>1, <2>2, <2>3
<1>10. ASSUME NEW x \in Cluster, fat[x] \in Cluster PROVE h[fat[x]] = h[x] /\ fat[fat[x]] # 0 /\ fat[x] > x
  BY <1>10 DEF Links, Heads
<1>11. \A k \in 1 .. n : h[c[k]] = h[s] /\ fat[c[k]] # 0 /\ k < c[k]
  <2> DEFINE T == {k \in 1 .. n : ~(h[c[k]] = h[s] /\ fat[c[k]] # 0 /\ k < c[k])}
  <2>1. SUFFICES ASSUME T # {} PROVE FALSE
    BY <2>1
  <2>2. T \subseteq Nat
    OBVIOUS
  <2>3. PICK m \in T : \A k \in T : m <= k
    BY <2>1, <2>2, MinimumExists
  <2>4. m \in 1 .. n /\ ~(h[c[m]] = h[s] /\ fat[c[m]] # 0 /\ m < c[m])
    BY <2>3
  <2>5. m # 1
    <3>1. 1 < s
      BY Constants
    <3> QED BY <1>8, <2>4, <3>1
  <2>6. m - 1 \in 1 .. n /\ m - 1 \in 1 .. n - 1 /\ (m - 1) + 1 = m /\ m - 1 < m
    BY <1>5, <2>4, <2>5
  <2>7. m - 1 \notin T
    BY <2>3, <2>4, <2>6
  <2>8. h[c[m - 1]] = h[s] /\ fat[c[m - 1]] # 0 /\ m - 1 < c[m - 1]
    BY <2>6, <2>7
  <2>9. fat[c[m - 1]] = c[m]
    BY <1>9, <2>6
  <2>10. c[m - 1] \in Cluster /\ c[m] \in Cluster
    BY <1>7, <2>4, <2>6
  <2> HIDE DEF T
  <2>11. h[c[m]] = h[s] /\ fat[c[m]] # 0 /\ c[m] > c[m - 1]
    BY <1>10, <2>8, <2>9, <2>10
  <2>12. c[m] \in Nat /\ c[m - 1] \in Nat
    BY <2>10, Constants
  <2>13. m < c[m]
    BY <2>4, <2>8, <2>11, <2>12
  <2> QED BY <2>4, <2>11, <2>13
<1>12. fat[c[n]] \notin Cluster
  <2> SUFFICES ASSUME fat[c[n]] \in Cluster PROVE FALSE
    OBVIOUS
  <2>1. n \in 1 .. n /\ n \in 1 .. Entries
    BY <1>0, <1>3, <1>5
  <2>2. c[n] = w[n - 1] /\ w[n - 1] \in Cluster
    BY <1>1, <1>5, <2>1
  <2>3. w[n] = fat[w[n - 1]]
    BY <1>2, <2>1, <2>2
  <2>4. n < c[n] /\ c[n] < Entries /\ c[n] \in Nat
    BY <1>7, <1>11, <2>1, Constants
  <2>5. n + 1 \in 0 .. Entries /\ (n + 1) - 1 = n
    BY <1>0, <1>5, <2>4
  <2>6. ASSUME NEW k \in 0 .. (n + 1) - 1 PROVE w[k] \in Cluster
    <3>1. CASE k = n
      BY <2>2, <2>3, <3>1
    <3>2. CASE k # n
      <4>1. k + 1 \in 1 .. n /\ (k + 1) - 1 = k
        BY <1>5, <2>5, <3>2
      <4>2. w[(k + 1) - 1] \in Cluster
        BY <1>1, <4>1
      <4> QED BY <4>1, <4>2
    <3> QED BY <3>1, <3>2
  <2>7. n + 1 <= n
    BY <1>1, <2>5, <2>6
  <2> QED BY <1>5, <2>7
<1> QED BY <1>3, <1>4, <1>5, <1>6, <1>7, <1>8, <1>9, <1>11, <1>12 DEF ChainOf

(***************************************************************************)
(* As long as no chain was cut, a chain is all clusters with its head.     *)
(***************************************************************************)
LEMMA ChainComplete ==
  ASSUME NEW r, NEW h, Links(fat, r), Heads(fat, r, h), Attached(fat, h),
         NEW s \in Cluster, h[s] = s
  PROVE  \A c \in Cluster : h[c] = s => \E j \in DOMAIN Chain(s) : Chain(s)[j] = c
<1>0. s # Root16 /\ Entries \in Nat
  BY Constants DEF Root16
<1>1. PICK w, n : /\ Walk(w, s, NextCluster, Entries) /\ n \in 0 .. Entries
                  /\ Chain(s) = [k \in 1 .. n |-> w[k - 1]]
                  /\ \A k \in 1 .. n : w[k - 1] \in Cluster
                  /\ \A m \in 0 .. Entries : (\A k \in 0 .. m - 1 : w[k] \in Cluster) => m <= n
  BY <1>0, ChainIsWalk
<1>2. w[0] = s /\ \A k \in 1 .. Entries : w[k - 1] \in Cluster => w[k] = fat[w[k - 1]]
  BY <1>1, WalkSteps
<1> DEFINE Reached(c) == \E k \in Nat : k <= c - 2 /\ w[k] = c /\ \A j \in 0 .. k : w[j] \in Cluster
           T == {c \in Cluster : h[c] = s /\ ~Reached(c)}
<1>3. \A c \in Cluster : h[c] = s => Reached(c)
  <2>1. SUFFICES ASSUME T # {} PROVE FALSE
    BY <2>1
  <2>2. T \subseteq Nat
    <3>1. Cluster \subseteq Nat
      BY Constants
    <3> QED BY <3>1
  <2>3. PICK c \in T : \A x \in T : c <= x
    <3> HIDE DEF T
    <3> QED BY <2>1, <2>2, MinimumExists
  <2>4. c \in Cluster /\ h[c] = s /\ ~Reached(c)
    BY <2>3
  <2>5. c # s
    <3>1. SUFFICES ASSUME c = s PROVE FALSE
      OBVIOUS
    <3>2. c \in Nat /\ c >= 2
      BY <2>4, Constants
    <3>3. 0 \in Nat /\ 0 <= c - 2 /\ w[0] = c /\ \A j \in 0 .. 0 : w[j] \in Cluster
      BY <1>2, <3>1, <3>2
    <3>4. Reached(c)
      BY <3>3
    <3> QED BY <2>4, <3>4
  <2>6. PICK b \in Cluster : fat[b] = c
    BY <2>4, <2>5 DEF Attached, Unlinked
  <2>7. h[b] = s /\ c > b
    BY <2>4, <2>6 DEF Links, Heads
  <2>8. b \in Nat /\ c \in Nat /\ b >= 2 /\ c < Entries
    BY <2>4, <2>6, Constants
  <2>9. b \notin T
    <3> HIDE DEF T
    <3> QED BY <2>3, <2>7, <2>8
  <2>10. Reached(b)
    BY <2>6, <2>7, <2>9
  <2>11. PICK k \in Nat : k <= b - 2 /\ w[k] = b /\ \A j \in 0 .. k : w[j] \in Cluster
    BY <2>10
  <2>12. k + 1 \in 1 .. Entries /\ (k + 1) - 1 = k /\ k + 1 <= c - 2 /\ k + 1 \in Nat
    BY <1>0, <2>7, <2>8, <2>11
  <2>13. w[k + 1] = c
    <3>1. w[(k + 1) - 1] \in Cluster
      BY <2>6, <2>11, <2>12
    <3>2. w[k + 1] = fat[w[(k + 1) - 1]]
      BY <1>2, <2>12, <3>1
    <3> QED BY <2>6, <2>11, <2>12, <3>2
  <2>14. ASSUME NEW j \in 0 .. k + 1 PROVE w[j] \in Cluster
    <3>1. CASE j = k + 1
      BY <2>4, <2>13, <3>1
    <3>2. CASE j # k + 1
      <4>1. j \in 0 .. k
        BY <2>11, <3>2
      <4> QED BY <2>11, <4>1
    <3> QED BY <3>1, <3>2
  <2>15. Reached(c)
    BY <2>12, <2>13, <2>14
  <2> QED BY <2>4, <2>15
<1>4. ASSUME NEW c \in Cluster, h[c] = s PROVE \E j \in DOMAIN Chain(s) : Chain(s)[j] = c
  <2>1. PICK k \in Nat : k <= c - 2 /\ w[k] = c /\ \A j \in 0 .. k : w[j] \in Cluster
    BY <1>3, <1>4
  <2>2. c \in Nat /\ c < Entries
    BY Constants
  <2>3. k + 1 \in 0 .. Entries /\ (k + 1) - 1 = k
    BY <1>0, <2>1, <2>2
  <2>4. \A j \in 0 .. (k + 1) - 1 : w[j] \in Cluster
    BY <2>1, <2>3
  <2>5. k + 1 <= n
    BY <1>1, <2>3, <2>4
  <2>6. k + 1 \in 1 .. n
    BY <1>1, <2>1, <2>5
  <2>7. k + 1 \in DOMAIN Chain(s) /\ Chain(s)[k + 1] = w[(k + 1) - 1]
    BY <1>1, <2>6
  <2> QED BY <2>1, <2>3, <2>7
<1> QED BY <1>4

(***************************************************************************)
(* A directory an operation works in: the FAT16 root region or the first   *)
(* cluster of a chain.                                                     *)
(***************************************************************************)
DirAt(f, h, d) ==
  /\ d \in Cluster \cup {0} /\ h[d] = d
  /\ d \in Cluster => f[d] # 0 /\ Unlinked(f, d)

DirChain(c, d, n, h) ==
  /\ DOMAIN c = 1 .. n /\ Len(c) = n /\ n >= 1
  /\ \A k \in 1 .. n : /\ c[k] \in Cluster \cup {0} /\ h[c[k]] = d
                       /\ OnDisk(c[k]) <=> c[k] \in Sector
                       /\ c[k] \in Cluster => fat[c[k]] # 0

(***************************************************************************)
(* The same for the chain of a directory, the FAT16 root region included.  *)
(***************************************************************************)
LEMMA DirectoryChain ==
  ASSUME NEW r, NEW h, Links(fat, r), Heads(fat, r, h), NEW d, DirAt(fat, h, d)
  PROVE  \E n \in Nat : DirChain(Chain(d), d, n, h)
<1>1. CASE d = 0
  <2>1. Chain(d) = <<0>>
    BY <1>1 DEF Chain, Root16
  <2>2. h[0] = 0 /\ OnDisk(0) /\ 0 \in Sector /\ 0 \notin Cluster
    BY <1>1, Constants DEF DirAt, OnDisk
  <2>3. DirChain(<<0>>, d, 1, h)
    BY <1>1, <2>2 DEF DirChain
  <2> QED BY <2>1, <2>3
<1>2. CASE d # 0
  <2>1. d \in Cluster /\ fat[d] # 0 /\ h[d] = d
    BY <1>2 DEF DirAt
  <2>2. PICK n \in Nat : ChainOf(Chain(d), d, n, h)
    BY <2>1, ChainSound
  <2>3. PICK c : c = Chain(d)
    OBVIOUS
  <2>4. ChainOf(c, d, n, h)
    BY <2>2, <2>3
  <2>5. \A x \in Cluster : OnDisk(x) <=> x \in Sector
    BY Constants DEF OnDisk
  <2>6. DirChain(c, d, n, h)
    BY <2>1, <2>4, <2>5 DEF ChainOf, DirChain
  <2> QED BY <2>3, <2>6
<1> QED BY <1>1, <1>2

(***************************************************************************)
(* FindShortEntry returns an entry of the directory with the name, and     *)
(* Nowhere only if there is none, as long as no chain was cut              *)
(* (fat32.cpp:368-395).                                                    *)
(***************************************************************************)
FoundAt(p, d, m, h) ==
  /\ p \in [cl : Sector, off : Nat] /\ Named(contents, p.cl, p.off)
  /\ Cell(p).name = m /\ h[p.cl] = d
Absent(k, h, d, m) == \A c, i : Named(k, c, i) /\ h[c] = d => k[c][i].name # m

(***************************************************************************)
(* A lookup finds an entry of that name in that directory; it finds none   *)
(* only where there is none, as long as no read failed (fat32.cpp:368-395, *)
(* fat16.cpp:497-536).                                                     *)
(***************************************************************************)
LEMMA Finds ==
  ASSUME NEW r, NEW h, NEW L, Core(contents, fat, r, h, L),
         NEW d, DirAt(fat, h, d), NEW m \in Name
  PROVE  \/ FindShortEntry(d, m) # Nowhere /\ FoundAt(FindShortEntry(d, m), d, m, h)
         \/ FindShortEntry(d, m) = Nowhere /\ ("read error" \notin L => Absent(contents, h, d, m))
<1>0. /\ Links(fat, r) /\ Heads(fat, r, h) /\ Rows(contents) /\ NoGap(contents)
      /\ "read error" \notin L => Attached(fat, h)
  BY DEF Core
<1>1. PICK n \in Nat : DirChain(Chain(d), d, n, h)
  BY <1>0, DirectoryChain
<1> DEFINE chain == Chain(d)
           hits == {k \in DOMAIN chain : OnDisk(chain[k]) /\ Match(chain[k], m) # {}}
           c == chain[Min(hits)]
<1>2. FindShortEntry(d, m) = IF hits = {} THEN Nowhere ELSE [cl |-> c, off |-> Min(Match(c, m))]
  BY DEF FindShortEntry
<1>3. /\ DOMAIN chain = 1 .. n
      /\ \A k \in 1 .. n : /\ chain[k] \in Cluster \cup {0} /\ h[chain[k]] = d
                           /\ OnDisk(chain[k]) <=> chain[k] \in Sector
  BY <1>1 DEF DirChain
<1>4. \A x \in Sector : DOMAIN contents[x] = 1 .. Width(x)
  BY <1>0 DEF Rows
<1> HIDE DEF chain
<1>5. CASE hits # {}
  <2>1. hits \subseteq Nat
    BY <1>3
  <2>2. Min(hits) \in hits
    <3> HIDE DEF hits
    <3> QED BY <1>5, <2>1, MinIs
  <2>3. Min(hits) \in 1 .. n /\ OnDisk(c) /\ Match(c, m) # {}
    BY <1>3, <2>2
  <2>4. c \in Sector /\ h[c] = d
    BY <1>3, <2>3
  <2> HIDE DEF c
  <2>5. Match(c, m) \subseteq Nat /\ Match(c, m) \subseteq 1 .. Width(c)
    <3>1. Match(c, m) \subseteq 1 .. Width(c)
      BY <1>4, <2>4 DEF Match, Scanned
    <3> QED BY <3>1
  <2>6. Min(Match(c, m)) \in Match(c, m)
    BY <2>3, <2>5, MinIs
  <2>7. PICK i : i = Min(Match(c, m))
    OBVIOUS
  <2>8. i \in 1 .. Width(c) /\ i \in Nat /\ Live(contents[c][i]) /\ contents[c][i].name = m
    BY <2>5, <2>6, <2>7 DEF Match
  <2>9. PICK p : p = [cl |-> c, off |-> i]
    OBVIOUS
  <2>10. FindShortEntry(d, m) = p
    BY <1>2, <1>5, <2>7, <2>9
  <2>11. p.cl = c /\ p.off = i /\ p \in [cl : Sector, off : Nat]
    BY <2>4, <2>8, <2>9
  <2>12. FoundAt(p, d, m, h)
    BY <2>4, <2>8, <2>11 DEF FoundAt, Named, Cell
  <2>13. p # Nowhere
    <3>1. i # 0
      BY <2>8
    <3>2. Nowhere.off = 0
      BY DEF Nowhere
    <3> QED BY <2>11, <3>1, <3>2
  <2> QED BY <2>10, <2>12, <2>13
<1>6. CASE hits = {}
  <2>1. FindShortEntry(d, m) = Nowhere
    BY <1>2, <1>6
  <2>2. ASSUME "read error" \notin L, NEW x, NEW i, Named(contents, x, i), h[x] = d, contents[x][i].name = m
        PROVE  FALSE
    <3>1. x \in Sector /\ i \in 1 .. Width(x) /\ Live(contents[x][i])
      BY <2>2 DEF Named
    <3>2. i \in Match(x, m)
      <4>1. GapFree(contents[x], Width(x))
        BY <1>0, <3>1 DEF NoGap
      <4>2. \A j \in 1 .. i : contents[x][j] # Free
        BY <3>1, <4>1 DEF GapFree
      <4>3. i \in DOMAIN contents[x]
        BY <1>4, <3>1
      <4> QED BY <2>2, <3>1, <4>2, <4>3 DEF Match, Scanned
    <3>3. \E j \in 1 .. n : chain[j] = x
      <4>1. CASE d = 0
        <5>1. x = 0
          BY <2>2, <3>1, <4>1, <1>0, Constants DEF Heads
        <5>2. 1 \in 1 .. n /\ chain[1] = 0
          <6>1. Chain(d) = <<0>>
            BY <4>1 DEF Chain, Root16
          <6>2. Len(Chain(d)) = n
            BY <1>1 DEF DirChain
          <6>3. n = 1 /\ <<0>>[1] = 0
            BY <6>1, <6>2
          <6> QED BY <6>1, <6>3 DEF chain
        <5> QED BY <5>1, <5>2
      <4>2. CASE d # 0
        <5>1. d \in Cluster /\ h[d] = d
          BY <4>2 DEF DirAt
        <5>2. x \in Cluster
          BY <2>2, <3>1, <5>1, <1>0, Constants DEF Heads
        <5>3. \E j \in DOMAIN Chain(d) : Chain(d)[j] = x
          BY <1>0, <2>2, <5>1, <5>2, ChainComplete
        <5> QED BY <1>3, <5>3 DEF chain
      <4> QED BY <4>1, <4>2
    <3>4. PICK j \in 1 .. n : chain[j] = x
      BY <3>3
    <3>5. OnDisk(chain[j]) /\ Match(chain[j], m) # {}
      BY <1>3, <3>1, <3>2, <3>4
    <3> QED BY <1>3, <1>6, <3>5
  <2>3. "read error" \notin L => Absent(contents, h, d, m)
    BY <2>2 DEF Absent
  <2> QED BY <2>1, <2>3
<1> QED BY <1>5, <1>6

(***************************************************************************)
(* The root and the chain of an entry are directories to work in: FAT32    *)
(* takes a file for one.                                                   *)
(***************************************************************************)
LEMMA RootAt ==
  ASSUME NEW h, Links(fat, RootCluster), Heads(fat, RootCluster, h)
  PROVE  DirAt(fat, h, RootCluster)
<1>1. h[RootCluster] = RootCluster /\ RootCluster \in Cluster \cup {0}
  BY RootIs DEF Heads
<1>2. ASSUME RootCluster \in Cluster, NEW b \in Cluster, fat[b] = RootCluster PROVE FALSE
  <2>1. RootCluster = 2 /\ fat[b] > b /\ b \in Nat /\ b >= 2
    BY <1>2, RootIs, Constants DEF Links
  <2> QED BY <1>2, <2>1
<1> QED BY <1>1, <1>2 DEF DirAt, Links, Unlinked

(***************************************************************************)
(* An entry leads to the first cluster of a chain.                         *)
(***************************************************************************)
LEMMA NamedAt ==
  ASSUME NEW k, NEW f, NEW r, NEW h, NEW L, Core(k, f, r, h, L), NEW c, NEW i, Named(k, c, i)
  PROVE  DirAt(f, h, k[c][i].start)
BY DEF Core, Starts, NamesHeads, Begins, DirAt

(***************************************************************************)
(* The parent of a path, if every component is found                       *)
(* (fat32.cpp:443-457, 941-954).                                           *)
(***************************************************************************)
Trail(w, path, n) ==
  w = [k \in 0 .. n |-> IF k = 0 THEN RootCluster ELSE Descend(w[k - 1], path[k])]

(***************************************************************************)
(* The recursive definition of the directories along a path has a          *)
(* solution.                                                               *)
(***************************************************************************)
LEMMA TrailExists ==
  ASSUME NEW path
  PROVE  \A n \in Nat : \E w : Trail(w, path, n)
<1> DEFINE T == {n \in Nat : ~ \E w : Trail(w, path, n)}
<1>1. SUFFICES ASSUME T # {} PROVE FALSE
  BY <1>1
<1>2. T \subseteq Nat
  OBVIOUS
<1>3. PICK m \in T : \A n \in T : m <= n
  BY <1>1, <1>2, MinimumExists
<1>4. m \in Nat /\ ~ \E w : Trail(w, path, m)
  BY <1>3
<1>5. CASE m = 0
  <2>1. PICK w : w = [k \in 0 .. 0 |-> RootCluster]
    OBVIOUS
  <2>2. w = [k \in 0 .. 0 |-> IF k = 0 THEN RootCluster ELSE Descend(w[k - 1], path[k])]
    BY <2>1
  <2> QED BY <1>4, <1>5, <2>2 DEF Trail
<1>6. CASE m > 0
  <2>1. m - 1 \in Nat /\ m - 1 < m
    BY <1>4, <1>6
  <2>2. m - 1 \notin T
    BY <1>3, <1>4, <2>1
  <2>3. PICK v : Trail(v, path, m - 1)
    BY <2>1, <2>2
  <2>4. \A k \in 0 .. m - 1 : v[k] = IF k = 0 THEN RootCluster ELSE Descend(v[k - 1], path[k])
    BY <2>3 DEF Trail
  <2>5. PICK w : w = [k \in 0 .. m |-> IF k < m THEN v[k] ELSE Descend(v[m - 1], path[m])]
    OBVIOUS
  <2>6. ASSUME NEW k \in 0 .. m PROVE w[k] = IF k = 0 THEN RootCluster ELSE Descend(w[k - 1], path[k])
    <3>1. CASE k = 0
      <4>1. w[k] = v[0]
        BY <1>4, <1>6, <2>5, <3>1
      <4>2. v[0] = RootCluster
        BY <2>1, <2>4
      <4> QED BY <3>1, <4>1, <4>2
    <3>2. CASE k # 0 /\ k < m
      <4>1. k \in 0 .. m - 1 /\ k - 1 \in 0 .. m /\ k - 1 < m
        BY <1>4, <3>2
      <4>2. w[k] = v[k] /\ w[k - 1] = v[k - 1]
        BY <2>5, <3>2, <4>1
      <4>3. v[k] = Descend(v[k - 1], path[k])
        BY <2>4, <3>2, <4>1
      <4> QED BY <3>2, <4>2, <4>3
    <3>3. CASE k # 0 /\ k = m
      <4>1. m - 1 \in 0 .. m /\ m - 1 < m /\ ~(m < m)
        BY <1>4, <1>6
      <4>2. w[m] = Descend(v[m - 1], path[m]) /\ w[m - 1] = v[m - 1]
        BY <2>5, <3>3, <4>1
      <4> QED BY <3>3, <4>2
    <3> QED BY <1>4, <3>1, <3>2, <3>3
  <2>7. w = [k \in 0 .. m |-> IF k = 0 THEN RootCluster ELSE Descend(w[k - 1], path[k])]
    BY <2>5, <2>6
  <2> QED BY <1>4, <2>7 DEF Trail
<1> QED BY <1>4, <1>5, <1>6

(***************************************************************************)
(* Whatever names a path goes through, the directory it ends in is the     *)
(* first cluster of a chain or the root (fat32.cpp:443-457, 941-954).      *)
(***************************************************************************)
LEMMA ParentAt ==
  ASSUME NEW h, NEW L, Core(contents, fat, RootCluster, h, L),
         NEW path \in Path, ParentDir(path) >= 0
  PROVE  DirAt(fat, h, ParentDir(path))
<1>1. path \in Seq(Name) /\ path # <<>>
  BY FatAssumptions
<1>2. PICK n \in Nat : n = Len(path) - 1
  BY <1>1
<1> DEFINE Is(v) == v = [k \in 0 .. Len(path) - 1 |-> IF k = 0 THEN RootCluster ELSE Descend(v[k - 1], path[k])]
<1>3. PICK w : w = CHOOSE v : Is(v)
  OBVIOUS
<1>4. \E v : Is(v)
  <2>1. \E v : Trail(v, path, n)
    BY TrailExists
  <2> QED BY <1>2, <2>1 DEF Trail
<1>5. Is(w)
  <2> HIDE DEF Is
  <2> QED BY <1>3, <1>4
<1>6. \A k \in 0 .. n : w[k] = IF k = 0 THEN RootCluster ELSE Descend(w[k - 1], path[k])
  BY <1>2, <1>5
<1>7. ParentDir(path) = w[n]
  BY <1>2, <1>3 DEF ParentDir, Along
<1> DEFINE Good(x) == x = -1 \/ DirAt(fat, h, x)
           T == {k \in 0 .. n : ~Good(w[k])}
<1>8. T = {}
  <2>1. SUFFICES ASSUME T # {} PROVE FALSE
    BY <2>1
  <2>2. T \subseteq Nat
    OBVIOUS
  <2>3. PICK m \in T : \A k \in T : m <= k
    <3> HIDE DEF T
    <3> QED BY <2>1, <2>2, MinimumExists
  <2>4. m \in 0 .. n /\ ~Good(w[m])
    BY <2>3
  <2>5. m # 0
    <3>1. DirAt(fat, h, RootCluster)
      BY RootAt DEF Core
    <3>2. 0 \in 0 .. n /\ w[0] = RootCluster
      BY <1>6
    <3> QED BY <2>4, <3>1, <3>2
  <2>6. m - 1 \in 0 .. n /\ m - 1 < m /\ m \in Nat /\ m \in 1 .. Len(path)
    BY <1>2, <2>4, <2>5
  <2>7. m - 1 \notin T
    <3> HIDE DEF T
    <3> QED BY <2>3, <2>6
  <2>8. Good(w[m - 1])
    BY <2>6, <2>7
  <2>9. PICK d : d = w[m - 1]
    OBVIOUS
  <2>10. w[m] = Descend(d, path[m])
    BY <1>6, <2>4, <2>5, <2>9
  <2>11. w[m] # -1
    BY <2>4
  <2>12. d >= 0 /\ Enters(d, path[m]) /\ w[m] = Cell(FindShortEntry(d, path[m])).start
    BY <2>10, <2>11 DEF Descend
  <2>13. DirAt(fat, h, d)
    BY <2>8, <2>9, <2>12
  <2>14. path[m] \in Name
    BY <1>1, <2>6
  <2>15. FindShortEntry(d, path[m]) # Nowhere
    BY <2>12 DEF Enters
  <2>16. FoundAt(FindShortEntry(d, path[m]), d, path[m], h)
    BY <2>13, <2>14, <2>15, Finds
  <2>17. DirAt(fat, h, w[m])
    BY <2>12, <2>16, NamedAt DEF FoundAt, Cell
  <2> QED BY <2>4, <2>17
<1>9. Good(w[n])
  BY <1>8
<1> QED BY <1>7, <1>9

(***************************************************************************)
(* The directories of the tree are the root and what directory entries     *)
(* name.                                                                   *)
(***************************************************************************)
Levels(w, n) == w = [k \in 0 .. n |-> IF k = 0 THEN {RootCluster} ELSE Below(w[k - 1])]

(***************************************************************************)
(* The recursive definition of the tree, level by level, has a solution.   *)
(***************************************************************************)
LEMMA LevelsExist ==
  \A n \in Nat : \E w : Levels(w, n)
<1> DEFINE T == {n \in Nat : ~ \E w : Levels(w, n)}
<1>1. SUFFICES ASSUME T # {} PROVE FALSE
  BY <1>1
<1>2. T \subseteq Nat
  OBVIOUS
<1>3. PICK m \in T : \A n \in T : m <= n
  BY <1>1, <1>2, MinimumExists
<1>4. m \in Nat /\ ~ \E w : Levels(w, m)
  BY <1>3
<1>5. CASE m = 0
  <2>1. PICK w : w = [k \in 0 .. 0 |-> {RootCluster}]
    OBVIOUS
  <2>2. w = [k \in 0 .. 0 |-> IF k = 0 THEN {RootCluster} ELSE Below(w[k - 1])]
    BY <2>1
  <2> QED BY <1>4, <1>5, <2>2 DEF Levels
<1>6. CASE m > 0
  <2>1. m - 1 \in Nat /\ m - 1 < m
    BY <1>4, <1>6
  <2>2. m - 1 \notin T
    BY <1>3, <1>4, <2>1
  <2>3. PICK v : Levels(v, m - 1)
    BY <2>1, <2>2
  <2>4. \A k \in 0 .. m - 1 : v[k] = IF k = 0 THEN {RootCluster} ELSE Below(v[k - 1])
    BY <2>3 DEF Levels
  <2>5. PICK w : w = [k \in 0 .. m |-> IF k < m THEN v[k] ELSE Below(v[m - 1])]
    OBVIOUS
  <2>6. ASSUME NEW k \in 0 .. m PROVE w[k] = IF k = 0 THEN {RootCluster} ELSE Below(w[k - 1])
    <3>1. CASE k = 0
      <4>1. w[k] = v[0]
        BY <1>4, <1>6, <2>5, <3>1
      <4>2. v[0] = {RootCluster}
        BY <2>1, <2>4
      <4> QED BY <3>1, <4>1, <4>2
    <3>2. CASE k # 0 /\ k < m
      <4>1. k \in 0 .. m - 1 /\ k - 1 \in 0 .. m /\ k - 1 < m
        BY <1>4, <3>2
      <4>2. w[k] = v[k] /\ w[k - 1] = v[k - 1]
        BY <2>5, <3>2, <4>1
      <4>3. v[k] = Below(v[k - 1])
        BY <2>4, <3>2, <4>1
      <4> QED BY <3>2, <4>2, <4>3
    <3>3. CASE k # 0 /\ k = m
      <4>1. m - 1 \in 0 .. m /\ m - 1 < m /\ ~(m < m)
        BY <1>4, <1>6
      <4>2. w[m] = Below(v[m - 1]) /\ w[m - 1] = v[m - 1]
        BY <2>5, <3>3, <4>1
      <4> QED BY <3>3, <4>2
    <3> QED BY <1>4, <3>1, <3>2, <3>3
  <2>7. w = [k \in 0 .. m |-> IF k = 0 THEN {RootCluster} ELSE Below(w[k - 1])]
    BY <2>5, <2>6
  <2> QED BY <1>4, <2>7 DEF Levels
<1> QED BY <1>4, <1>5, <1>6

\* p is the place of an entry of directory d.
EntryAt(p, d, h) ==
  /\ Named(contents, p.cl, p.off) /\ h[p.cl] = d
  /\ Cell(p) = contents[p.cl][p.off] /\ p = [cl |-> p.cl, off |-> p.off]

(***************************************************************************)
(* The entries of a directory are named cells of the clusters of its       *)
(* chain.                                                                  *)
(***************************************************************************)
LEMMA EntryIs ==
  ASSUME NEW r, NEW h, NEW L, Core(contents, fat, r, h, L),
         NEW d, DirAt(fat, h, d), NEW p \in Entry(d)
  PROVE  EntryAt(p, d, h)
<1>0. Links(fat, r) /\ Heads(fat, r, h) /\ Rows(contents)
  BY DEF Core
<1>1. PICK n \in Nat : DirChain(Chain(d), d, n, h)
  BY <1>0, DirectoryChain
<1>2. p \in Places(d) /\ Live(Cell(p)) /\ Cell(p).name \in Name
  BY DEF Entry
<1>3. PICK c \in Range(Chain(d)) : OnDisk(c) /\ \E i \in Scanned(c) : p = [cl |-> c, off |-> i]
  BY <1>2 DEF Places
<1>4. PICK i \in Scanned(c) : p = [cl |-> c, off |-> i]
  BY <1>3
<1>5. PICK k \in 1 .. n : Chain(d)[k] = c
  BY <1>1, <1>3 DEF Range, DirChain
<1>6. c \in Sector /\ h[c] = d
  BY <1>1, <1>3, <1>5 DEF DirChain
<1>7. i \in 1 .. Width(c)
  BY <1>0, <1>4, <1>6 DEF Scanned, Rows
<1>8. p.cl = c /\ p.off = i
  BY <1>4
<1> QED BY <1>2, <1>4, <1>6, <1>7, <1>8 DEF Named, Cell, EntryAt

(***************************************************************************)
(* A directory of the tree is the head of its chain.                       *)
(***************************************************************************)
LEMMA TreeIs ==
  ASSUME NEW h, NEW L, Core(contents, fat, RootCluster, h, L), NEW d \in Tree
  PROVE  DirAt(fat, h, d) /\ DirHead(contents, RootCluster, d)
<1>0. Depth \in Nat
  BY FatAssumptions
<1> DEFINE Is(v) == v = [k \in 0 .. Depth |-> IF k = 0 THEN {RootCluster} ELSE Below(v[k - 1])]
<1>1. PICK w : w = CHOOSE v : Is(v)
  OBVIOUS
<1>2. \E v : Is(v)
  <2>1. \E v : Levels(v, Depth)
    BY <1>0, LevelsExist
  <2> QED BY <2>1 DEF Levels
<1>3. Is(w)
  <2> HIDE DEF Is
  <2> QED BY <1>1, <1>2
<1>4. \A k \in 0 .. Depth : w[k] = IF k = 0 THEN {RootCluster} ELSE Below(w[k - 1])
  BY <1>3
<1>5. Tree = w[Depth]
  BY <1>1 DEF Tree
<1> DEFINE Good(x) == DirAt(fat, h, x) /\ DirHead(contents, RootCluster, x)
           T == {k \in 0 .. Depth : ~ \A x \in w[k] : Good(x)}
<1>6. T = {}
  <2>1. SUFFICES ASSUME T # {} PROVE FALSE
    BY <2>1
  <2>2. T \subseteq Nat
    OBVIOUS
  <2>3. PICK m \in T : \A k \in T : m <= k
    <3> HIDE DEF T
    <3> QED BY <2>1, <2>2, MinimumExists
  <2>4. PICK x : m \in 0 .. Depth /\ x \in w[m] /\ ~Good(x)
    BY <2>3
  <2>5. m # 0
    <3>1. DirAt(fat, h, RootCluster) /\ DirHead(contents, RootCluster, RootCluster)
      BY RootAt DEF Core, DirHead
    <3>2. w[0] = {RootCluster}
      BY <1>0, <1>4
    <3> QED BY <2>4, <3>1, <3>2
  <2>6. m - 1 \in 0 .. Depth /\ m - 1 < m /\ m \in Nat
    BY <1>0, <2>4, <2>5
  <2>7. m - 1 \notin T
    <3> HIDE DEF T
    <3> QED BY <2>3, <2>6
  <2>8. \A y \in w[m - 1] : Good(y)
    BY <2>6, <2>7
  <2>9. w[m] = Below(w[m - 1])
    BY <1>4, <2>4, <2>5
  <2>10. PICK y \in w[m - 1] : x \in {y} \cup Subdirs(y)
    BY <2>4, <2>9 DEF Below
  <2>11. Good(y)
    BY <2>8
  <2>12. x \in Subdirs(y)
    BY <2>4, <2>10, <2>11
  <2>13. PICK p \in Entry(y) : Cell(p).tag = "dir" /\ x = Cell(p).start
    BY <2>12 DEF Subdirs
  <2>14. EntryAt(p, y, h)
    BY <2>11, EntryIs
  <2>15. DirAt(fat, h, x)
    BY <2>13, <2>14, NamedAt DEF EntryAt
  <2>16. DirHead(contents, RootCluster, x)
    BY <2>13, <2>14 DEF DirHead, EntryAt
  <2> QED BY <2>4, <2>15, <2>16
<1>7. \A x \in w[Depth] : Good(x)
  BY <1>0, <1>6
<1> QED BY <1>5, <1>7, Zenon

(***************************************************************************)
(* What the disk's part of the invariant says of the tree.                 *)
(***************************************************************************)
LEMMA CoreGivesNoSharing ==
  ASSUME NEW h, NEW L, Core(contents, fat, RootCluster, h, L)
  PROVE  NoSharedCluster
<1>1. /\ \A c \in Cluster : fat[c] \in Cluster => fat[fat[c]] # 0
      /\ \A c, d \in Cluster : fat[c] \in Cluster /\ fat[c] = fat[d] => c = d
  BY DEF Core, Links
<1>2. ASSUME NEW c \in Cluster, fat[c] \in Cluster PROVE fat[c] # RootCluster
  <2>1. DirAt(fat, h, RootCluster)
    BY RootAt DEF Core
  <2> QED BY <1>2, <2>1 DEF DirAt, Unlinked
<1>3. ASSUME NEW d \in Tree, NEW p \in Entry(d)
      PROVE  /\ Cell(p).start \in Cluster /\ fat[Cell(p).start] # 0
             /\ \A c \in Cluster : fat[c] # Cell(p).start
  <2>1. DirAt(fat, h, d)
    BY TreeIs
  <2>2. EntryAt(p, d, h)
    BY <2>1, EntryIs
  <2>3. Begins(fat, RootCluster, Cell(p).start)
    BY <2>2 DEF Core, Starts, EntryAt
  <2> QED BY <2>3 DEF Begins, Unlinked
<1> QED BY <1>1, <1>2, <1>3 DEF NoSharedCluster

(***************************************************************************)
(* The invariant gives unique names, as long as lookups told the truth.    *)
(***************************************************************************)
LEMMA CoreGivesUniqueNames ==
  ASSUME NEW h, Core(contents, fat, RootCluster, h, lapse)
  PROVE  NamesUnique
<1> SUFFICES ASSUME Told(lapse), NEW d \in Tree, NEW p \in Entry(d), NEW q \in Entry(d),
                      Cell(p).name = Cell(q).name
               PROVE  p = q
  BY DEF NamesUnique, Told
<1>2. DirAt(fat, h, d)
  BY TreeIs
<1>3. UniqueNames(contents, h)
  BY DEF Core
<1>4. EntryAt(p, d, h) /\ EntryAt(q, d, h)
  BY <1>2, EntryIs
<1>5. p.cl = q.cl /\ p.off = q.off
  BY <1>3, <1>4 DEF UniqueNames, EntryAt
<1> QED BY <1>4, <1>5 DEF EntryAt

(***************************************************************************)
(* The invariant gives that no entry is hidden: a directory's clusters     *)
(* have no empty cell before the last one, and none before an entry.       *)
(***************************************************************************)
LEMMA CoreHidesNothing ==
  ASSUME NEW h, NEW L, Core(contents, fat, RootCluster, h, L)
  PROVE  NoHiddenEntry
<1>0. Links(fat, RootCluster) /\ Heads(fat, RootCluster, h) /\ Rows(contents) /\ NoGap(contents)
  BY DEF Core
<1>1. SUFFICES ASSUME NEW d \in Tree, NEW k \in {n \in DOMAIN Chain(d) : OnDisk(Chain(d)[n])}
               PROVE  LET c == Chain(d)[k] IN
                      /\ \A i \in DOMAIN contents[c] : Live(contents[c][i]) => i \in Scanned(c)
                      /\ k < Len(Chain(d)) => Free \notin Range(contents[c])
  BY DEF NoHiddenEntry
<1>2. DirAt(fat, h, d) /\ DirHead(contents, RootCluster, d)
  BY TreeIs
<1>3. PICK n \in Nat : DirChain(Chain(d), d, n, h)
  BY <1>0, <1>2, DirectoryChain
<1>4. PICK c : c = Chain(d)[k]
  OBVIOUS
<1>5. k \in 1 .. n /\ c \in Sector /\ h[c] = d /\ Len(Chain(d)) = n
  BY <1>3, <1>4 DEF DirChain
<1>6. DOMAIN contents[c] = 1 .. Width(c)
  BY <1>0, <1>5 DEF Rows
<1>7. ASSUME NEW i \in DOMAIN contents[c], Live(contents[c][i]) PROVE i \in Scanned(c)
  BY <1>0, <1>5, <1>6, <1>7 DEF NoGap, GapFree, Scanned
<1>8. ASSUME k < n PROVE Free \notin Range(contents[c])
  <2>1. d # 0
    <3>1. SUFFICES ASSUME d = 0 PROVE FALSE
      OBVIOUS
    <3>2. Chain(d) = <<0>>
      BY <3>1 DEF Chain, Root16
    <3>3. n = 1
      BY <1>5, <3>2
    <3> QED BY <1>5, <1>8, <3>3
  <2>2. d \in Cluster /\ fat[d] # 0
    BY <1>2, <2>1 DEF DirAt
  <2>3. PICK m \in Nat : ChainOf(Chain(d), d, m, h)
    BY <1>0, <2>2, ChainSound
  <2>4. m = n /\ k \in 1 .. n - 1 /\ k + 1 \in 1 .. n
    BY <1>5, <1>8, <2>3 DEF ChainOf
  <2>5. fat[c] = Chain(d)[k + 1] /\ Chain(d)[k + 1] \in Cluster /\ c \in Cluster
    BY <1>4, <1>5, <2>3, <2>4 DEF ChainOf
  <2>6. NoFree(contents, c)
    BY <1>2, <1>5, <2>5 DEF Core, DirsFull
  <2> QED BY <1>5, <1>6, <2>6 DEF NoFree, Range
<1> QED BY <1>4, <1>5, <1>7, <1>8

(***************************************************************************)
(* Two entries of one chain need an excuse.                                *)
(***************************************************************************)
LEMMA TwoOwners ==
  ASSUME NEW k, NEW L, NEW p, NEW at, Owners(k, L, p, at),
         NEW c, NEW i, NEW d, NEW j, Named(k, c, i), Named(k, d, j),
         k[c][i].start = k[d][j].start, ~(c = d /\ i = j)
  PROVE  p = "erase" \/ "half move" \in L
BY DEF Owners, Excused

(***************************************************************************)
(* The invariant gives that an entry owns its chain.                       *)
(***************************************************************************)
LEMMA OwnersGivesOneEntry ==
  ASSUME NEW h, NEW L, Core(contents, fat, RootCluster, h, L),
         Owners(contents, lapse, pc, op.at)
  PROVE  OneEntryPerChain
<1> SUFFICES ASSUME NEW d \in Tree, NEW e \in Tree, NEW p \in Entry(d), NEW q \in Entry(e),
                      p # q, Cell(p).start = Cell(q).start
               PROVE  pc = "erase" \/ "half move" \in lapse
  BY DEF OneEntryPerChain
<1>2. DirAt(fat, h, d) /\ DirAt(fat, h, e)
  BY TreeIs
<1>3. EntryAt(p, d, h) /\ EntryAt(q, e, h)
  BY <1>2, EntryIs
<1>4. ~(p.cl = q.cl /\ p.off = q.off)
  BY <1>3 DEF EntryAt
<1>5. /\ Named(contents, p.cl, p.off) /\ Named(contents, q.cl, q.off)
      /\ contents[p.cl][p.off].start = contents[q.cl][q.off].start
  BY <1>3 DEF EntryAt
<1> QED BY <1>4, <1>5, TwoOwners

------------------------------------------------------------------------------
(***************************************************************************)
(* The part of the invariant about the operation under way: its step p and *)
(* its locals o.                                                           *)
(***************************************************************************)
OpSet ==
  [kind : {"none", "create", "append", "mkdir", "rename"}, path : Seq(Name), parents : BOOLEAN,
   dir : Cluster \cup {0}, name : Name \cup {""}, asked : Nat, sound : BOOLEAN, len : Nat,
   start : Cluster \cup {0}, size : Nat, cur : Cluster \cup {0}, new : Cluster \cup {0},
   at : [cl : Sector, off : Nat]]

\* Which operations come to a step, and what is left to write there.
Kinds(p, o) ==
  /\ o \in OpSet
  /\ p \in {"idle", "component", "first", "start", "fill", "more", "link", "linked",
            "append", "size", "entry", "rename", "erase"}
  /\ p = "component" => o.kind = "mkdir"
  /\ p \in {"first", "start"} => o.kind \in {"create", "mkdir"}
  /\ p = "fill" => o.kind = "create"
  /\ p = "entry" => o.kind \in {"create", "mkdir", "rename"}
  /\ p \in {"more", "link", "linked"} => o.kind \in {"create", "mkdir", "rename", "append"}
  /\ p \in {"append", "size"} => o.kind = "append"
  /\ p \in {"rename", "erase"} => o.kind = "rename"
  /\ p \in {"append", "more", "link", "linked"} /\ o.kind = "append" => o.len > 0
  /\ p = "entry" /\ o.kind = "create" => o.len = 0
  /\ p = "size" => o.size > 0

\* A cluster just taken: nothing leads to it, nothing is in it.
Fresh(k, f, r, h, n) ==
  /\ n \in Cluster /\ f[n] = EOC /\ Unlinked(f, n) /\ Unnamed(k, n) /\ n # r
  /\ \A d \in Cluster : d > n => f[d] = 0
  /\ h[n] = n /\ \A c \in Cluster : h[c] = n => c = n
  /\ \A i : ~Named(k, n, i)

LinkedEnd(k, f, n) == n \in Cluster /\ f[n] = EOC /\ \A i : ~Named(k, n, i)

\* The chain that is being made or moved has no entry yet but the moved one.
OnlyAt(k, L, s, at) ==
  \A c, i : Named(k, c, i) /\ k[c][i].start = s => k[c][i].tag = "file" /\ (At(at, c, i) \/ "half move" \in L)
Own(k, f, r, h, L, o) ==
  /\ Begins(f, r, o.start) /\ h[o.start] = o.start
  /\ o.kind \in {"create", "mkdir"} => Unnamed(k, o.start) /\ o.start # o.dir
  /\ o.kind = "mkdir" => f[o.start] = EOC /\ \A c \in Cluster : h[c] = o.start => c = o.start
  /\ o.kind = "rename" => OnlyAt(k, L, o.start, o.at)

\* The cluster to link to is the file's, or a full one of the directory; it is
\* the last of its chain but after a read error.
LastOf(f, L, c) == c \in Cluster /\ f[c] # 0 /\ ("read error" \notin L => f[c] \notin Cluster)
FileCur(k, f, r, h, L, o) ==
  LastOf(f, L, o.cur) /\ h[o.cur] = o.start /\ ~DirHead(k, r, o.start)
DirCur(k, f, h, L, o) ==
  /\ LastOf(f, L, o.cur) /\ h[o.cur] = o.dir /\ NoFree(k, o.cur)
  /\ o.kind = "create" => o.len = 0
Cur(k, f, r, h, L, o) ==
  \/ o.kind \in {"create", "append"} /\ FileCur(k, f, r, h, L, o)
  \/ o.kind # "append" /\ DirCur(k, f, h, L, o)

\* The same of the cluster that was linked.
LinkedTo(k, r, h, o) ==
  \/ o.kind \in {"create", "append"} /\ h[o.new] = o.start /\ ~DirHead(k, r, o.start)
  \/ o.kind # "append" /\ (o.kind = "create" => o.len = 0)

NameFree(k, h, L, o) ==
  o.name \in Name /\ (Told(L) => Absent(k, h, o.dir, o.name))

Making == {"first", "start", "fill", "more", "link", "linked", "entry", "rename"}

OpOK(p, o, k, f, r, h, L) ==
  /\ Kinds(p, o)
  /\ p \in Making \cup {"component"} /\ o.kind # "append" => DirAt(f, h, o.dir)
  /\ p \in Making /\ o.kind # "append" => NameFree(k, h, L, o)
  /\ p \in {"start", "link"} => Fresh(k, f, r, h, o.new) /\ (o.kind # "append" => o.new # o.dir)
  /\ p = "link" => o.new # o.cur /\ (o.kind # "append" => o.new # o.start)
  /\ p = "linked" => LinkedEnd(k, f, o.new) /\ LinkedTo(k, r, h, o)
  /\ p \in {"fill", "more", "link", "linked", "entry"} /\ o.kind # "append" => Own(k, f, r, h, L, o)
  /\ p \in {"more", "link"} => Cur(k, f, r, h, L, o)
  /\ p \in {"append", "fill"} => FileCur(k, f, r, h, L, o)
  /\ p = "rename" => Named(k, o.at.cl, o.at.off) /\ h[o.at.cl] = o.dir

FatInv ==
  /\ format \in Format /\ ops \in 0 .. MaxOps /\ faults \in 0 .. MaxFaults /\ lapse \subseteq Lapse
  /\ \E h : /\ Core(contents, fat, RootCluster, h, lapse)
            /\ Owners(contents, lapse, pc, op.at)
            /\ OpOK(pc, op, contents, fat, RootCluster, h, lapse)

------------------------------------------------------------------------------
(***************************************************************************)
(* What has gone wrong only ever excuses more.                             *)
(***************************************************************************)
LEMMA CoreLapse ==
  ASSUME NEW k, NEW f, NEW r, NEW h, NEW L, Core(k, f, r, h, L), NEW M, L \subseteq M
  PROVE  Core(k, f, r, h, M)
BY DEF Core, Told

(***************************************************************************)
(* Owners stays true when lapses are added, and does not depend on the     *)
(* operation unless a move is about to erase its old entry.                *)
(***************************************************************************)
LEMMA OwnersLapse ==
  ASSUME NEW k, NEW L, NEW p, NEW at, Owners(k, L, p, at), NEW M, L \subseteq M,
         NEW q, NEW to, p # "erase" \/ "half move" \in M \/ (q = p /\ to = at)
  PROVE  Owners(k, M, q, to)
<1> SUFFICES ASSUME NEW c, NEW i, NEW d, NEW j, Named(k, c, i), Named(k, d, j),
                    k[c][i].start = k[d][j].start
             PROVE  /\ k[c][i].tag = k[d][j].tag
                    /\ Excused(M, q, to, c, i, d, j)
  BY DEF Owners
<1>1. /\ k[c][i].tag = k[d][j].tag
      /\ Excused(L, p, at, c, i, d, j)
  BY DEF Owners
<1> QED BY <1>1 DEF Excused

(***************************************************************************)
(* A write that names nothing new keeps what is said about names.          *)
(***************************************************************************)
KeepsNames(k2, k) ==
  \A c, i : Named(k2, c, i) =>
    /\ Named(k, c, i) /\ k2[c][i].start = k[c][i].start
    /\ k2[c][i].tag = k[c][i].tag /\ k2[c][i].name = k[c][i].name

(***************************************************************************)
(* When no entry appears, no cluster becomes the first of a directory.     *)
(***************************************************************************)
LEMMA KeepsDirHead ==
  ASSUME NEW k, NEW k2, KeepsNames(k2, k), NEW r, NEW x, DirHead(k2, r, x)
  PROVE  DirHead(k, r, x)
BY DEF KeepsNames, DirHead

(***************************************************************************)
(* When no entry appears, an unnamed cluster stays unnamed.                *)
(***************************************************************************)
LEMMA KeepsUnnamed ==
  ASSUME NEW k, NEW k2, KeepsNames(k2, k), NEW s, Unnamed(k, s)
  PROVE  Unnamed(k2, s)
BY DEF KeepsNames, Unnamed

(***************************************************************************)
(* When no entry appears, a free name stays free.                          *)
(***************************************************************************)
LEMMA KeepsAbsent ==
  ASSUME NEW k, NEW k2, KeepsNames(k2, k), NEW h, NEW d, NEW m, Absent(k, h, d, m)
  PROVE  Absent(k2, h, d, m)
BY DEF KeepsNames, Absent

(***************************************************************************)
(* When no entry appears, the only entry of a chain stays the only one.    *)
(***************************************************************************)
LEMMA KeepsOnlyAt ==
  ASSUME NEW k, NEW k2, KeepsNames(k2, k), NEW L, NEW s, NEW at, OnlyAt(k, L, s, at)
  PROVE  OnlyAt(k2, L, s, at)
<1> SUFFICES ASSUME NEW c, NEW i, Named(k2, c, i), k2[c][i].start = s
             PROVE  k2[c][i].tag = "file" /\ (At(at, c, i) \/ "half move" \in L)
  BY DEF OnlyAt
<1>1. Named(k, c, i) /\ k[c][i].start = s /\ k2[c][i].tag = k[c][i].tag
  BY DEF KeepsNames
<1> QED BY <1>1 DEF OnlyAt

(***************************************************************************)
(* When no entry appears, chains keep their owners.                        *)
(***************************************************************************)
LEMMA KeepsOwners ==
  ASSUME NEW k, NEW k2, KeepsNames(k2, k), NEW L, NEW p, NEW at, Owners(k, L, p, at)
  PROVE  Owners(k2, L, p, at)
<1> SUFFICES ASSUME NEW c, NEW i, NEW d, NEW j, Named(k2, c, i), Named(k2, d, j),
                    k2[c][i].start = k2[d][j].start
             PROVE  /\ k2[c][i].tag = k2[d][j].tag
                    /\ Excused(L, p, at, c, i, d, j)
  BY DEF Owners
<1>1. /\ Named(k, c, i) /\ k2[c][i].start = k[c][i].start /\ k2[c][i].tag = k[c][i].tag
      /\ Named(k, d, j) /\ k2[d][j].start = k[d][j].start /\ k2[d][j].tag = k[d][j].tag
  BY DEF KeepsNames
<1>2. k[c][i].start = k[d][j].start
  BY <1>1
<1>3. k[c][i].tag = k[d][j].tag /\ Excused(L, p, at, c, i, d, j)
  BY <1>1, <1>2, Zenon DEF Owners
<1> QED BY <1>1, <1>3

(***************************************************************************)
(* When no entry appears, the disk is as sound as before, if its rows are. *)
(***************************************************************************)
LEMMA KeepsCore ==
  ASSUME NEW k, NEW f, NEW r, NEW h, NEW L, Core(k, f, r, h, L), NEW k2, Rows(k2), NoGap(k2),
         KeepsNames(k2, k), DirsFull(k2, f, r, h)
  PROVE  Core(k2, f, r, h, L)
<1>1. Starts(k2, f, r)
  BY DEF Core, Starts, KeepsNames
<1>2. NamesHeads(k2, h)
  <2> SUFFICES ASSUME NEW c, NEW i, Named(k2, c, i) PROVE h[k2[c][i].start] = k2[c][i].start
    BY DEF NamesHeads
  <2>1. Named(k, c, i) /\ k2[c][i].start = k[c][i].start
    BY DEF KeepsNames
  <2> QED BY <2>1 DEF Core, NamesHeads
<1>3. Inhabited(k2, f)
  BY DEF Core, Inhabited, KeepsNames
<1>4. UniqueNames(k, h) => UniqueNames(k2, h)
  BY DEF UniqueNames, KeepsNames
<1> QED BY <1>1, <1>2, <1>3, <1>4 DEF Core

------------------------------------------------------------------------------
(***************************************************************************)
(* The cells the drivers write.                                            *)
(***************************************************************************)
LEMMA DeadCells ==
  /\ Free \in CellSet /\ ~Live(Free) /\ Gone \in CellSet /\ ~Live(Gone) /\ Gone # Free
  /\ \A d \in Nat : Data(d) \in CellSet /\ ~Live(Data(d)) /\ Data(d) # Free
<1>1. Free.tag = "free" /\ Gone.tag = "gone"
  BY DEF Free, Gone
<1>2. ASSUME NEW d \in Nat PROVE Data(d) \in CellSet /\ Data(d).tag = "data"
  BY DEF Data, CellSet, Tag
<1>3. Free \in CellSet /\ Gone \in CellSet
  BY DEF Free, Gone, CellSet, Tag
<1> QED BY <1>1, <1>2, <1>3 DEF Live

(***************************************************************************)
(* The cell of a directory entry.                                          *)
(***************************************************************************)
LEMMA DirCells ==
  ASSUME NEW m \in Name \cup {"", ".", ".."}, NEW s \in Cluster \cup {0}
  PROVE  /\ Dir(m, s) \in CellSet /\ Live(Dir(m, s)) /\ Dir(m, s) # Free
         /\ Dir(m, s).name = m /\ Dir(m, s).start = s /\ Dir(m, s).tag = "dir"
<1>1. Free.tag = "free"
  BY DEF Free
<1>3. /\ Dir(m, s) \in CellSet /\ Dir(m, s).tag = "dir"
      /\ Dir(m, s).name = m /\ Dir(m, s).start = s
  BY DEF Dir, CellSet, Tag
<1> QED BY <1>1, <1>3 DEF Live

(***************************************************************************)
(* The rows they write: blank ones with data, directories with their two   *)
(* dot entries, data over what was there (fat32.cpp:344-366, 472-536).     *)
(***************************************************************************)
NoNames(R) == \A i \in 1 .. Cells : ~(Live(R[i]) /\ R[i].name \in Name)

(***************************************************************************)
(* A blank cluster with data from its start has no entry.                  *)
(***************************************************************************)
LEMMA BlankRow ==
  ASSUME ops \in Nat, NEW n
  PROVE  /\ Put(Blank, 0, n) \in [1 .. Cells -> CellSet]
         /\ GapFree(Put(Blank, 0, n), Cells) /\ NoNames(Put(Blank, 0, n))
<1>1. PICK R : R = Put(Blank, 0, n)
  OBVIOUS
<1>2. \A i \in 1 .. Cells : R[i] = Data(ops) \/ R[i] = Free
  BY <1>1 DEF Put, Blank
<1>3. R \in [1 .. Cells -> CellSet]
  <2>1. \A i \in 1 .. Cells : R[i] \in CellSet
    BY <1>2, DeadCells
  <2> QED BY <1>1, <2>1 DEF Put
<1>4. \A i \in 1 .. Cells : ~Live(R[i])
  BY <1>2, DeadCells
<1> QED BY <1>1, <1>3, <1>4 DEF GapFree, NoNames

(***************************************************************************)
(* A blank cluster has no entry.                                           *)
(***************************************************************************)
LEMMA BlankIs == Blank \in [1 .. Cells -> CellSet] /\ GapFree(Blank, Cells) /\ NoNames(Blank)
<1>1. \A i \in 1 .. Cells : Blank[i] = Free
  BY DEF Blank
<1>2. Blank \in [1 .. Cells -> CellSet]
  BY DeadCells DEF Blank
<1>3. \A i \in 1 .. Cells : ~Live(Blank[i])
  BY <1>1, DeadCells
<1> QED BY <1>2, <1>3 DEF GapFree, NoNames

(***************************************************************************)
(* The first cluster of a directory has its two dot entries, and they are  *)
(* not names.                                                              *)
(***************************************************************************)
LEMMA DirRow ==
  ASSUME NEW c \in Cluster \cup {0}, NEW d \in Cluster \cup {0}
  PROVE  /\ DirCluster(c, d) \in [1 .. Cells -> CellSet]
         /\ GapFree(DirCluster(c, d), Cells) /\ NoNames(DirCluster(c, d))
<1>0. Cells \in Nat /\ Cells >= 2
  BY Constants
<1>1. PICK R : R = DirCluster(c, d)
  OBVIOUS
<1>2. PICK one, two : one = Dir(".", c) /\ two = Dir("..", d)
  OBVIOUS
<1>3. /\ one \in CellSet /\ one.name = "." /\ one # Free
      /\ two \in CellSet /\ two.name = ".." /\ two # Free
  <2>1. Dir(".", c) \in CellSet /\ Dir(".", c).name = "." /\ Dir(".", c) # Free
    BY DirCells
  <2>2. Dir("..", d) \in CellSet /\ Dir("..", d).name = ".." /\ Dir("..", d) # Free
    BY DirCells
  <2> QED BY <1>2, <2>1, <2>2
<1>4. R = [[i \in 1 .. Cells |-> Free] EXCEPT ![1] = one, ![2] = two]
  BY <1>1, <1>2 DEF DirCluster, Blank
<1>5. /\ DOMAIN R = 1 .. Cells /\ R[1] = one /\ R[2] = two
      /\ \A i \in 1 .. Cells : i # 1 /\ i # 2 => R[i] = Free
  BY <1>0, <1>4
<1>6. R \in [1 .. Cells -> CellSet]
  <2>1. \A i \in 1 .. Cells : R[i] \in CellSet
    BY <1>3, <1>5, DeadCells
  <2> QED BY <1>4, <2>1
<1>7. GapFree(R, Cells)
  <2> SUFFICES ASSUME NEW i \in 1 .. Cells, Live(R[i]), NEW j \in 1 .. i PROVE R[j] # Free
    BY DEF GapFree
  <2>1. i = 1 \/ i = 2
    BY <1>5, DeadCells
  <2>2. j = 1 \/ j = 2
    BY <2>1
  <2> QED BY <1>3, <1>5, <2>2
<1>8. NoNames(R)
  <2>1. "." \notin Name /\ ".." \notin Name
    BY FatAssumptions
  <2> QED BY <1>3, <1>5, <2>1, DeadCells DEF NoNames
<1> QED BY <1>1, <1>6, <1>7, <1>8

\* A row whose entries were all there before.
RowNames(R, Q, n) ==
  \A i \in 1 .. n : Live(R[i]) /\ R[i].name \in Name =>
    /\ Live(Q[i]) /\ R[i].name = Q[i].name /\ R[i].start = Q[i].start /\ R[i].tag = Q[i].tag

(***************************************************************************)
(* Data over a row adds no entry and leaves no gap.                        *)
(***************************************************************************)
LEMMA OverwrittenRow ==
  ASSUME ops \in Nat, NEW Q \in [1 .. Cells -> CellSet], GapFree(Q, Cells), NEW off, NEW n
  PROVE  /\ Put(Q, off, n) \in [1 .. Cells -> CellSet]
         /\ GapFree(Put(Q, off, n), Cells) /\ RowNames(Put(Q, off, n), Q, Cells)
<1>0. Cells \in Nat
  BY Constants
<1>1. PICK R : R = Put(Q, off, n)
  OBVIOUS
<1>2. \A i \in 1 .. Cells : R[i] = Data(ops) \/ R[i] = Q[i]
  BY <1>1 DEF Put
<1>3. R \in [1 .. Cells -> CellSet]
  <2>1. \A i \in 1 .. Cells : R[i] \in CellSet
    BY <1>2, DeadCells
  <2> QED BY <1>1, <2>1 DEF Put
<1>4. \A i \in 1 .. Cells : Live(R[i]) => R[i] = Q[i]
  BY <1>2, DeadCells
<1>5. GapFree(R, Cells)
  <2> SUFFICES ASSUME NEW i \in 1 .. Cells, Live(R[i]), NEW j \in 1 .. i PROVE R[j] # Free
    BY DEF GapFree
  <2>1. Live(Q[i]) /\ j \in 1 .. Cells
    BY <1>0, <1>4
  <2>2. Q[j] # Free
    BY <2>1 DEF GapFree
  <2> QED BY <1>2, <2>1, <2>2, DeadCells
<1>6. RowNames(R, Q, Cells)
  BY <1>4 DEF RowNames
<1> QED BY <1>1, <1>3, <1>5, <1>6

(***************************************************************************)
(* Writing one sector (fat32.cpp:296-298).                                 *)
(***************************************************************************)
WrittenRow(k2, k, x, R) ==
  Rows(k2) /\ k2[x] = R /\ \A c \in Sector : c # x => k2[c] = k[c]

(***************************************************************************)
(* What the disk holds after a sector was written.                         *)
(***************************************************************************)
LEMMA RowWrite ==
  ASSUME NEW k, Rows(k), NEW x \in Sector, NEW R \in [1 .. Width(x) -> CellSet],
         NEW k2, k2 = [k EXCEPT ![x] = R]
  PROVE  WrittenRow(k2, k, x, R)
<1>2. k \in [Sector -> Row] /\ \A c \in Sector : k[c] \in [1 .. Width(c) -> CellSet]
  BY DEF Rows
<1>3. R \in Row
  BY DEF Row, Width
<1>4. k2 \in [Sector -> Row] /\ k2[x] = R /\ \A c \in Sector : c # x => k2[c] = k[c]
  BY <1>2, <1>3
<1>5. Rows(k2)
  BY <1>2, <1>4 DEF Rows
<1> QED BY <1>4, <1>5 DEF WrittenRow

\* A row with no cell that was in use and is empty now.
Fills(R, Q, n) == \A i \in 1 .. n : Q[i] # Free => R[i] # Free

(***************************************************************************)
(* A sector may be written if no entry appears in it, there is no gap, and *)
(* no cell of a directory that goes on becomes empty.                      *)
(***************************************************************************)
LEMMA RowKeeps ==
  ASSUME NEW k, NEW f, NEW r, NEW h, NEW L, Core(k, f, r, h, L), NEW k2, NEW x \in Sector, NEW R,
         WrittenRow(k2, k, x, R), GapFree(R, Width(x)), RowNames(R, k[x], Width(x)),
         (x \in Cluster /\ f[x] \in Cluster /\ DirHead(k, r, h[x]) => Fills(R, k[x], Width(x)))
  PROVE  Core(k2, f, r, h, L) /\ KeepsNames(k2, k)
<1>1. Rows(k2) /\ k2[x] = R /\ \A c \in Sector : c # x => k2[c] = k[c]
  BY DEF WrittenRow
<1>2. KeepsNames(k2, k)
  <2> SUFFICES ASSUME NEW c, NEW i, Named(k2, c, i)
               PROVE  /\ Named(k, c, i) /\ k2[c][i].start = k[c][i].start
                      /\ k2[c][i].tag = k[c][i].tag /\ k2[c][i].name = k[c][i].name
    BY DEF KeepsNames
  <2>1. c \in Sector /\ i \in 1 .. Width(c) /\ Live(k2[c][i]) /\ k2[c][i].name \in Name
    BY DEF Named
  <2>2. CASE c = x
    <3>1. Live(R[i]) /\ R[i].name \in Name /\ i \in 1 .. Width(x)
      BY <1>1, <2>1, <2>2
    <3>2. /\ Live(k[x][i]) /\ R[i].name = k[x][i].name /\ R[i].start = k[x][i].start
          /\ R[i].tag = k[x][i].tag
      BY <3>1 DEF RowNames
    <3> QED BY <1>1, <2>1, <2>2, <3>1, <3>2 DEF Named
  <2>3. CASE c # x
    BY <1>1, <2>1, <2>3 DEF Named
  <2> QED BY <2>2, <2>3
<1>3. NoGap(k2)
  <2>1. NoGap(k)
    BY DEF Core
  <2> QED BY <1>1, <2>1 DEF NoGap
<1>4. DirsFull(k2, f, r, h)
  <2> SUFFICES ASSUME NEW c \in Cluster, f[c] \in Cluster, DirHead(k2, r, h[c]) PROVE NoFree(k2, c)
    BY DEF DirsFull
  <2>1. DirHead(k, r, h[c])
    BY <1>2, KeepsDirHead
  <2>2. NoFree(k, c)
    BY <2>1 DEF Core, DirsFull
  <2>3. CASE c = x
    BY <1>1, <2>1, <2>2, <2>3 DEF NoFree, Fills
  <2>4. CASE c # x
    BY <1>1, <2>2, <2>4 DEF NoFree
  <2> QED BY <2>3, <2>4
<1> QED BY <1>1, <1>2, <1>3, <1>4, KeepsCore

------------------------------------------------------------------------------
(***************************************************************************)
(* AllocateCluster marks the lowest free cluster (fat32.cpp:300-322): the  *)
(* disk stays as it is and the cluster is fresh.                           *)
(***************************************************************************)
Marked(f2, f, c) ==
  /\ f2 \in [Cluster -> Cluster \cup {0, EOC}] /\ f2[c] = EOC
  /\ \A d \in Cluster : d # c => f2[d] = f[d]

(***************************************************************************)
(* Marking the lowest free cluster keeps the links sound: nothing leads to *)
(* the cluster, and the ones after it are free.                            *)
(***************************************************************************)
LEMMA MarkedLinks ==
  ASSUME NEW f, NEW r, Links(f, r), NEW c \in Cluster, f[c] = 0, \A d \in Cluster : f[d] = 0 => c <= d,
         NEW f2, Marked(f2, f, c)
  PROVE  Links(f2, r) /\ Unlinked(f2, c) /\ c # r /\ \A d \in Cluster : d > c => f2[d] = 0
<1>0. EOC # 0 /\ EOC \notin Cluster /\ 0 \notin Cluster
  BY Constants DEF EOC
<1>1. \A d \in Cluster : f2[d] = IF d = c THEN EOC ELSE f[d]
  BY DEF Marked
<1>2. Unlinked(f2, c)
  <2> SUFFICES ASSUME NEW b \in Cluster, f2[b] = c PROVE FALSE
    BY DEF Unlinked
  <2>1. f[b] = c
    BY <1>0, <1>1
  <2> QED BY <2>1 DEF Links
<1>3. c # r
  BY DEF Links
<1>4. ASSUME NEW d \in Cluster, d > c PROVE f2[d] = 0
  <2>1. d \in Nat /\ c \in Nat /\ d # c
    BY <1>4, Constants
  <2>2. f[d] = 0
    BY <1>4, <2>1 DEF Links
  <2> QED BY <1>1, <2>1, <2>2
<1>5. ASSUME NEW d \in Cluster, f2[d] \in Cluster PROVE f2[f2[d]] # 0 /\ f2[d] > d
  <2>1. f2[d] = f[d] /\ d # c
    BY <1>0, <1>1, <1>5
  <2>2. f[f[d]] # 0 /\ f[d] > d
    BY <1>5, <2>1 DEF Links
  <2> QED BY <1>0, <1>1, <1>5, <2>1, <2>2
<1>6. ASSUME NEW d \in Cluster, NEW e \in Cluster, f2[d] \in Cluster, f2[d] = f2[e] PROVE d = e
  <2>1. f2[d] = f[d] /\ f2[e] = f[e]
    BY <1>0, <1>1, <1>6
  <2> QED BY <1>6, <2>1 DEF Links
<1>7. ASSUME NEW d \in Cluster, NEW e \in Cluster, d < e, f2[d] = 0 PROVE f2[e] = 0
  <2>1. f[d] = 0 /\ d # c
    BY <1>0, <1>1, <1>7
  <2>2. f[e] = 0
    BY <1>7, <2>1 DEF Links
  <2>3. c <= d /\ c \in Nat /\ d \in Nat /\ e \in Nat
    BY <2>1, Constants
  <2>4. e # c
    BY <1>7, <2>3
  <2> QED BY <1>1, <2>2, <2>4
<1>8. r \in Cluster => f2[r] # 0
  BY <1>1, <1>3 DEF Links
<1>9. Links(f2, r)
  BY <1>5, <1>6, <1>7, <1>8 DEF Links, Marked
<1> QED BY <1>2, <1>3, <1>4, <1>9

(***************************************************************************)
(* The cluster that is marked is not a directory's, and directories stay.  *)
(***************************************************************************)
LEMMA MarkedDirAt ==
  ASSUME NEW f, NEW h, NEW c \in Cluster, f[c] = 0, NEW f2, Marked(f2, f, c), NEW d, DirAt(f, h, d)
  PROVE  DirAt(f2, h, d) /\ d # c
<1>0. EOC # 0 /\ EOC \notin Cluster /\ 0 \notin Cluster
  BY Constants DEF EOC
<1>1. \A b \in Cluster : f2[b] = IF b = c THEN EOC ELSE f[b]
  BY DEF Marked
<1>2. d # c
  BY DEF DirAt
<1>3. d \in Cluster => f2[d] # 0 /\ Unlinked(f2, d)
  BY <1>0, <1>1, <1>2 DEF DirAt, Unlinked
<1> QED BY <1>2, <1>3 DEF DirAt

(***************************************************************************)
(* The cluster that is marked is not an entry's, and chains keep their     *)
(* first clusters.                                                         *)
(***************************************************************************)
LEMMA MarkedBegins ==
  ASSUME NEW f, NEW r, NEW c \in Cluster, f[c] = 0, NEW f2, Marked(f2, f, c), NEW s, Begins(f, r, s)
  PROVE  Begins(f2, r, s) /\ s # c
<1>0. EOC # 0 /\ EOC \notin Cluster
  BY Constants DEF EOC
<1>1. \A b \in Cluster : f2[b] = IF b = c THEN EOC ELSE f[b]
  BY DEF Marked
<1>2. s # c
  BY DEF Begins
<1> QED BY <1>0, <1>1, <1>2 DEF Begins, Unlinked

(***************************************************************************)
(* Marking the lowest free cluster keeps the disk sound and makes the      *)
(* cluster fresh.                                                          *)
(***************************************************************************)
LEMMA MarkedCore ==
  ASSUME NEW k, NEW f, NEW r, NEW h, NEW L, Core(k, f, r, h, L), r \in Cluster \cup {0},
         NEW c \in Cluster, f[c] = 0, \A d \in Cluster : f[d] = 0 => c <= d,
         NEW f2, Marked(f2, f, c)
  PROVE  Core(k, f2, r, h, L) /\ Fresh(k, f2, r, h, c)
<1>0. EOC # 0 /\ EOC \notin Cluster /\ 0 \notin Cluster
  BY Constants DEF EOC
<1>1. \A d \in Cluster : f2[d] = IF d = c THEN EOC ELSE f[d]
  BY DEF Marked
<1>2. Links(f, r) /\ Heads(f, r, h) /\ Starts(k, f, r) /\ Inhabited(k, f) /\ DirsFull(k, f, r, h)
  BY DEF Core
<1>3. Links(f2, r) /\ Unlinked(f2, c) /\ c # r /\ \A d \in Cluster : d > c => f2[d] = 0
  BY <1>2, MarkedLinks
<1>4. Starts(k, f2, r) /\ Unnamed(k, c)
  BY <1>2, MarkedBegins DEF Starts, Unnamed
<1>5. Heads(f2, r, h)
  <2>1. /\ h \in [Cluster \cup {0} -> Cluster \cup {0}]
        /\ \A d \in Cluster \cup {0} : h[d] = 0 <=> d = 0
        /\ h[r] = r
    BY <1>2 DEF Heads
  <2>2. ASSUME NEW d \in Cluster, f2[d] \in Cluster PROVE h[f2[d]] = h[d]
    BY <1>0, <1>1, <1>2, <2>2 DEF Heads
  <2>3. ASSUME NEW d \in Cluster, f2[d] = 0 PROVE h[d] = d
    BY <1>0, <1>1, <1>2, <2>3 DEF Heads
  <2>4. ASSUME NEW d \in Cluster, h[d] # d PROVE f2[h[d]] # 0
    <3>1. h[d] \in Cluster /\ f[h[d]] # 0
      BY <1>0, <1>2, <2>1, <2>4 DEF Heads
    <3> QED BY <1>0, <1>1, <3>1
  <2> QED BY <2>1, <2>2, <2>3, <2>4 DEF Heads
<1>6. DirsFull(k, f2, r, h)
  BY <1>0, <1>1, <1>2 DEF DirsFull
<1>7. Inhabited(k, f2)
  BY <1>0, <1>1, <1>2 DEF Inhabited
<1>8. Attached(f, h) => Attached(f2, h)
  <2> SUFFICES ASSUME Attached(f, h), NEW d \in Cluster, h[d] # d PROVE ~Unlinked(f2, d)
    BY DEF Attached
  <2>1. PICK b \in Cluster : f[b] = d
    BY DEF Attached, Unlinked
  <2>2. b # c
    BY <1>0, <2>1
  <2> QED BY <1>1, <2>1, <2>2 DEF Unlinked
<1>9. Core(k, f2, r, h, L)
  BY <1>3, <1>4, <1>5, <1>6, <1>7, <1>8 DEF Core
<1>10. h[c] = c /\ \A d \in Cluster : h[d] = c => d = c
  BY <1>2 DEF Heads
<1>11. \A i : ~Named(k, c, i)
  BY <1>2 DEF Inhabited
<1>12. f2[c] = EOC
  BY DEF Marked
<1> QED BY <1>3, <1>4, <1>9, <1>10, <1>11, <1>12 DEF Fresh

(***************************************************************************)
(* UpdateFAT links a fresh cluster after another (fat32.cpp:422-425,       *)
(* 481-484, 516-519): it joins that one's chain.                           *)
(***************************************************************************)
Joined(f2, h2, f, h, b, n) ==
  /\ f2 \in [Cluster -> Cluster \cup {0, EOC}] /\ f2[b] = n
  /\ \A c \in Cluster : c # b => f2[c] = f[c]
  /\ h2 \in [Cluster \cup {0} -> Cluster \cup {0}] /\ h2[n] = h[b]
  /\ \A c \in Cluster \cup {0} : c # n => h2[c] = h[c]

(***************************************************************************)
(* Linking a fresh cluster keeps the links sound.                          *)
(***************************************************************************)
LEMMA JoinedLinks ==
  ASSUME NEW k, NEW f, NEW r, NEW h, Links(f, r), NEW n, Fresh(k, f, r, h, n),
         NEW b \in Cluster, f[b] # 0, b # n, NEW f2, NEW h2, Joined(f2, h2, f, h, b, n)
  PROVE  Links(f2, r)
<1>0. EOC # 0 /\ EOC \notin Cluster /\ 0 \notin Cluster /\ n \in Cluster /\ f[n] = EOC /\ n # r
  BY Constants DEF EOC, Fresh
<1>1. \A c \in Cluster : f2[c] = IF c = b THEN n ELSE f[c]
  BY DEF Joined
<1>2. \A c \in Cluster : f[c] # n
  BY DEF Fresh, Unlinked
<1>3. b < n
  <2>1. b \in Nat /\ n \in Nat
    BY <1>0, Constants
  <2>2. ~(b > n)
    BY DEF Fresh
  <2> QED BY <2>1, <2>2
<1>4. ASSUME NEW c \in Cluster, f2[c] \in Cluster PROVE f2[f2[c]] # 0 /\ f2[c] > c
  <2>1. CASE c = b
    BY <1>0, <1>1, <1>3, <2>1
  <2>2. CASE c # b
    <3>1. f2[c] = f[c]
      BY <1>1, <2>2
    <3>2. f[f[c]] # 0 /\ f[c] > c
      BY <1>4, <3>1 DEF Links
    <3> QED BY <1>0, <1>1, <1>4, <3>1, <3>2
  <2> QED BY <2>1, <2>2
<1>5. ASSUME NEW c \in Cluster, NEW d \in Cluster, f2[c] \in Cluster, f2[c] = f2[d] PROVE c = d
  <2>1. CASE c = b \/ d = b
    BY <1>1, <1>2, <1>5, <2>1
  <2>2. CASE c # b /\ d # b
    <3>1. f2[c] = f[c] /\ f2[d] = f[d]
      BY <1>1, <2>2
    <3> QED BY <1>5, <3>1 DEF Links
  <2> QED BY <2>1, <2>2
<1>6. ASSUME NEW c \in Cluster, NEW d \in Cluster, c < d, f2[c] = 0 PROVE f2[d] = 0
  <2>1. f[c] = 0
    BY <1>0, <1>1, <1>6
  <2>2. f[d] = 0
    BY <1>6, <2>1 DEF Links
  <2> QED BY <1>1, <2>2
<1>7. r \in Cluster => f2[r] # 0
  BY <1>0, <1>1 DEF Links
<1> QED BY <1>4, <1>5, <1>6, <1>7 DEF Links, Joined

(***************************************************************************)
(* Linking a fresh cluster gives it the head of the chain it is linked to. *)
(***************************************************************************)
LEMMA JoinedHeads ==
  ASSUME NEW k, NEW f, NEW r, NEW h, Heads(f, r, h), r \in Cluster \cup {0}, NEW n, Fresh(k, f, r, h, n),
         NEW b \in Cluster, f[b] # 0, b # n, NEW f2, NEW h2, Joined(f2, h2, f, h, b, n)
  PROVE  Heads(f2, r, h2)
<1>0. EOC # 0 /\ EOC \notin Cluster /\ 0 \notin Cluster /\ n \in Cluster /\ f[n] = EOC /\ n # r
  BY Constants DEF EOC, Fresh
<1>1. \A c \in Cluster : f2[c] = IF c = b THEN n ELSE f[c]
  BY DEF Joined
<1>2. \A c \in Cluster \cup {0} : h2[c] = IF c = n THEN h[b] ELSE h[c]
  BY DEF Joined
<1>3. \A c \in Cluster : f[c] # n
  BY DEF Fresh, Unlinked
<1>4. ASSUME NEW c \in Cluster \cup {0} PROVE h2[c] = 0 <=> c = 0
  BY <1>0, <1>2 DEF Heads
<1>5. h2[r] = r
  BY <1>0, <1>2 DEF Heads
<1>6. ASSUME NEW c \in Cluster, f2[c] \in Cluster PROVE h2[f2[c]] = h2[c]
  <2>1. CASE c = b
    BY <1>0, <1>1, <1>2, <2>1
  <2>2. CASE c # b
    <3>1. f2[c] = f[c] /\ c # n
      BY <1>0, <1>1, <1>6, <2>2
    <3>2. h[f[c]] = h[c]
      BY <1>6, <3>1 DEF Heads
    <3>3. h2[f[c]] = h[f[c]]
      BY <1>2, <1>3, <1>6, <3>1
    <3> QED BY <1>2, <3>1, <3>2, <3>3
  <2> QED BY <2>1, <2>2
<1>7. ASSUME NEW c \in Cluster, f2[c] = 0 PROVE h2[c] = c
  <2>1. f[c] = 0 /\ c # n
    BY <1>0, <1>1, <1>7
  <2> QED BY <1>2, <2>1 DEF Heads
<1>8. ASSUME NEW c \in Cluster, h[c] # 0, f[h[c]] # 0 PROVE f2[h[c]] # 0
  <2>1. h[c] \in Cluster
    BY <1>8 DEF Heads
  <2> QED BY <1>0, <1>1, <1>8, <2>1
<1>9. \A c \in Cluster : h[c] # 0
  BY <1>0 DEF Heads
<1>10. \A c \in Cluster : f[c] # 0 => f[h[c]] # 0
  BY DEF Heads
<1>11. ASSUME NEW c \in Cluster, h2[c] # c PROVE f2[h2[c]] # 0
  <2>1. CASE c = n
    BY <1>2, <1>8, <1>9, <1>10, <2>1
  <2>2. CASE c # n
    <3>1. h2[c] = h[c] /\ f[h[c]] # 0
      BY <1>2, <1>11, <2>2 DEF Heads
    <3> QED BY <1>8, <1>9, <3>1
  <2> QED BY <2>1, <2>2
<1> QED BY <1>4, <1>5, <1>6, <1>7, <1>11 DEF Heads, Joined

(***************************************************************************)
(* Linking a fresh cluster leaves directories where they are.              *)
(***************************************************************************)
LEMMA JoinedDirAt ==
  ASSUME NEW f, NEW h, NEW b \in Cluster, NEW n \in Cluster, NEW f2, NEW h2, Joined(f2, h2, f, h, b, n),
         NEW d, DirAt(f, h, d), d # n
  PROVE  DirAt(f2, h2, d)
<1>0. 0 \notin Cluster
  BY Constants
<1>1. \A c \in Cluster : f2[c] = IF c = b THEN n ELSE f[c]
  BY DEF Joined
<1>2. h2[d] = h[d]
  BY DEF Joined, DirAt
<1>3. d \in Cluster => f2[d] # 0 /\ Unlinked(f2, d)
  BY <1>0, <1>1 DEF DirAt, Unlinked
<1> QED BY <1>2, <1>3 DEF DirAt

(***************************************************************************)
(* Linking a fresh cluster leaves the first clusters of entries unlinked.  *)
(***************************************************************************)
LEMMA JoinedBegins ==
  ASSUME NEW f, NEW h, NEW r, NEW b \in Cluster, NEW n \in Cluster, NEW f2, NEW h2,
         Joined(f2, h2, f, h, b, n), NEW s, Begins(f, r, s), s # n
  PROVE  Begins(f2, r, s)
<1>0. 0 \notin Cluster
  BY Constants
<1>1. \A c \in Cluster : f2[c] = IF c = b THEN n ELSE f[c]
  BY DEF Joined
<1> QED BY <1>0, <1>1 DEF Begins, Unlinked

(***************************************************************************)
(* Linking a fresh cluster to a directory brings no name into it.          *)
(***************************************************************************)
LEMMA JoinedAbsent ==
  ASSUME NEW k, NEW f, NEW r, NEW h, NEW b \in Cluster, NEW n, Fresh(k, f, r, h, n), NEW f2, NEW h2,
         Joined(f2, h2, f, h, b, n), NEW d, NEW m, Absent(k, h, d, m)
  PROVE  Absent(k, h2, d, m)
<1> SUFFICES ASSUME NEW c, NEW i, Named(k, c, i), h2[c] = d PROVE k[c][i].name # m
  BY DEF Absent
<1>1. c # n /\ c \in Cluster \cup {0}
  BY Constants DEF Fresh, Named
<1>2. h2[c] = h[c]
  BY <1>1 DEF Joined
<1> QED BY <1>2 DEF Absent

(***************************************************************************)
(* Linking a fresh cluster to the end of a chain keeps the disk sound;     *)
(* where a directory goes on, its cluster must be full.                    *)
(***************************************************************************)
LEMMA JoinedCore ==
  ASSUME NEW k, NEW f, NEW r, NEW h, NEW L, Core(k, f, r, h, L), r \in Cluster \cup {0},
         NEW n, Fresh(k, f, r, h, n), NEW b, LastOf(f, L, b), b # n,
         DirHead(k, r, h[b]) => NoFree(k, b), NEW f2, NEW h2, Joined(f2, h2, f, h, b, n)
  PROVE  Core(k, f2, r, h2, L)
<1>0. EOC # 0 /\ EOC \notin Cluster /\ 0 \notin Cluster /\ n \in Cluster /\ f[n] = EOC /\ n # r
  BY Constants DEF EOC, Fresh
<1>1. b \in Cluster /\ f[b] # 0 /\ ("read error" \notin L => f[b] \notin Cluster)
  BY DEF LastOf
<1>2. \A c \in Cluster : f2[c] = IF c = b THEN n ELSE f[c]
  BY DEF Joined
<1>3. \A c \in Cluster \cup {0} : h2[c] = IF c = n THEN h[b] ELSE h[c]
  BY DEF Joined
<1>4. Links(f2, r)
  BY <1>1, JoinedLinks DEF Core
<1>5. Heads(f2, r, h2)
  BY <1>1, JoinedHeads DEF Core
<1>6. ASSUME NEW c, NEW i, Named(k, c, i)
      PROVE  Begins(f2, r, k[c][i].start) /\ h2[k[c][i].start] = k[c][i].start
  <2>1. PICK s : s = k[c][i].start
    OBVIOUS
  <2>2. Begins(f, r, s) /\ h[s] = s
    BY <1>6, <2>1 DEF Core, Starts, NamesHeads
  <2>3. s # n
    BY <1>6, <2>1 DEF Fresh, Unnamed
  <2>4. Begins(f2, r, s)
    BY <1>0, <1>1, <2>2, <2>3, JoinedBegins
  <2>5. h2[s] = h[s]
    BY <1>3, <2>2, <2>3 DEF Begins
  <2> QED BY <2>1, <2>2, <2>4, <2>5
<1>7. Starts(k, f2, r) /\ NamesHeads(k, h2)
  BY <1>6 DEF Starts, NamesHeads
<1>8. DirsFull(k, f2, r, h2)
  <2> SUFFICES ASSUME NEW c \in Cluster, f2[c] \in Cluster, DirHead(k, r, h2[c]) PROVE NoFree(k, c)
    BY DEF DirsFull
  <2>1. c # n
    BY <1>0, <1>2
  <2>2. h2[c] = h[c]
    BY <1>3, <2>1
  <2>3. CASE c = b
    BY <2>2, <2>3
  <2>4. CASE c # b
    BY <1>2, <2>2, <2>4 DEF Core, DirsFull
  <2> QED BY <2>3, <2>4
<1>9. Inhabited(k, f2)
  BY <1>0, <1>2 DEF Core, Inhabited
<1>10. ASSUME "read error" \notin L PROVE Attached(f2, h2)
  <2> SUFFICES ASSUME NEW c \in Cluster, h2[c] # c PROVE ~Unlinked(f2, c)
    BY DEF Attached
  <2>1. CASE c = n
    BY <1>1, <1>2, <2>1 DEF Unlinked
  <2>2. CASE c # n
    <3>1. h[c] # c
      BY <1>3, <2>2
    <3>2. PICK a \in Cluster : f[a] = c
      BY <1>10, <3>1 DEF Core, Attached, Unlinked
    <3>3. a # b
      BY <1>1, <1>10, <3>2
    <3> QED BY <1>2, <3>2, <3>3 DEF Unlinked
  <2> QED BY <2>1, <2>2
<1>11. ASSUME Told(L) PROVE UniqueNames(k, h2)
  <2> SUFFICES ASSUME NEW c, NEW i, NEW d, NEW j, Named(k, c, i), Named(k, d, j), h2[c] = h2[d],
                      k[c][i].name = k[d][j].name
               PROVE  c = d /\ i = j
    BY DEF UniqueNames
  <2>1. c # n /\ d # n /\ c \in Cluster \cup {0} /\ d \in Cluster \cup {0}
    BY Constants DEF Fresh, Named
  <2>2. h[c] = h[d]
    BY <1>3, <2>1
  <2> QED BY <1>11, <2>2 DEF Core, UniqueNames
<1>12. Rows(k) /\ NoGap(k)
  BY DEF Core
<1> QED BY <1>4, <1>5, <1>7, <1>8, <1>9, <1>10, <1>11, <1>12 DEF Core

------------------------------------------------------------------------------
(***************************************************************************)
(* Writing one cell of a row so that no entry appears and no cell becomes  *)
(* empty: a size, an erased entry (fat32.cpp:530-536, 985).                *)
(***************************************************************************)
SameEntry(E, F) == Live(E) => Live(F) /\ E.name = F.name /\ E.start = F.start /\ E.tag = F.tag
EditedRow(R, Q, n) ==
  R \in [1 .. n -> CellSet] /\ GapFree(R, n) /\ RowNames(R, Q, n) /\ Fills(R, Q, n)

(***************************************************************************)
(* What such a write does to the row.                                      *)
(***************************************************************************)
LEMMA RowEdit ==
  ASSUME NEW n \in Nat, NEW Q \in [1 .. n -> CellSet], GapFree(Q, n), NEW o, NEW E,
         o \in 1 .. n => E \in CellSet /\ E # Free /\ SameEntry(E, Q[o])
  PROVE  EditedRow([Q EXCEPT ![o] = E], Q, n)
<1>1. PICK R : R = [Q EXCEPT ![o] = E]
  OBVIOUS
<1>2. /\ DOMAIN R = 1 .. n /\ \A i \in 1 .. n : i # o => R[i] = Q[i]
      /\ o \in 1 .. n => R[o] = E
  BY <1>1
<1>3. R \in [1 .. n -> CellSet]
  <2>1. \A i \in 1 .. n : R[i] \in CellSet
    BY <1>2
  <2> QED BY <1>1, <2>1
<1>4. \A i \in 1 .. n : Q[i] # Free => R[i] # Free
  BY <1>2
<1>5. \A i \in 1 .. n : SameEntry(R[i], Q[i])
  BY <1>2 DEF SameEntry
<1>6. GapFree(R, n)
  <2> SUFFICES ASSUME NEW i \in 1 .. n, Live(R[i]), NEW j \in 1 .. i PROVE R[j] # Free
    BY DEF GapFree
  <2>1. Live(Q[i]) /\ j \in 1 .. n
    BY <1>5 DEF SameEntry
  <2>2. Q[j] # Free
    BY <2>1 DEF GapFree
  <2> QED BY <1>4, <2>1, <2>2
<1>7. RowNames(R, Q, n)
  BY <1>5 DEF SameEntry, RowNames
<1> QED BY <1>1, <1>3, <1>4, <1>6, <1>7 DEF EditedRow, Fills

Edits(k2, k, x, o, E) == k2 = [k EXCEPT ![x] = [k[x] EXCEPT ![o] = E]]
Editable(k, x, o, E) == o \in 1 .. Width(x) => E \in CellSet /\ E # Free /\ SameEntry(E, k[x][o])
Holds(k, x, o, E) == o \in 1 .. Width(x) => k[x][o] = E

(***************************************************************************)
(* The disk after such a write is as sound as before.                      *)
(***************************************************************************)
LEMMA EditKeeps ==
  ASSUME NEW k, NEW f, NEW r, NEW h, NEW L, Core(k, f, r, h, L), NEW x \in Sector, NEW o, NEW E,
         Editable(k, x, o, E), NEW k2, Edits(k2, k, x, o, E)
  PROVE  Core(k2, f, r, h, L) /\ KeepsNames(k2, k) /\ Holds(k2, x, o, E)
<1>1. Rows(k) /\ NoGap(k)
  BY DEF Core
<1>2. PICK R : R = [k[x] EXCEPT ![o] = E]
  OBVIOUS
<1>3. k[x] \in [1 .. Width(x) -> CellSet] /\ GapFree(k[x], Width(x))
  BY <1>1 DEF Rows, NoGap
<1>4. Width(x) \in Nat
  BY Constants DEF Width
<1>5. EditedRow(R, k[x], Width(x))
  BY <1>2, <1>3, <1>4, RowEdit DEF Editable
<1>6. R \in [1 .. Width(x) -> CellSet] /\ GapFree(R, Width(x)) /\ RowNames(R, k[x], Width(x))
  BY <1>5 DEF EditedRow
<1>7. k2 = [k EXCEPT ![x] = R]
  BY <1>2 DEF Edits
<1>8. WrittenRow(k2, k, x, R)
  BY <1>1, <1>6, <1>7, RowWrite
<1>9. Fills(R, k[x], Width(x))
  BY <1>5 DEF EditedRow
<1>10. Core(k2, f, r, h, L) /\ KeepsNames(k2, k)
  BY <1>6, <1>8, <1>9, RowKeeps
<1>11. Holds(k2, x, o, E)
  BY <1>2, <1>3, <1>8 DEF WrittenRow, Holds
<1> QED BY <1>10, <1>11

(***************************************************************************)
(* Writing an entry: a new one, or a new name (fat32.cpp:402-434,          *)
(* 970-975).                                                               *)
(***************************************************************************)
WrittenCell(k2, k, x, o, E) ==
  /\ Rows(k2) /\ k2[x][o] = E
  /\ \A c \in Sector : \A i \in 1 .. Width(c) : ~(c = x /\ i = o) => k2[c][i] = k[c][i]

(***************************************************************************)
(* What the disk holds after a cell was written.                           *)
(***************************************************************************)
LEMMA CellWrite ==
  ASSUME NEW k, Rows(k), NEW x \in Sector, NEW o \in 1 .. Width(x), NEW E \in CellSet,
         NEW k2, Edits(k2, k, x, o, E)
  PROVE  WrittenCell(k2, k, x, o, E)
<1>1. PICK R : R = [k[x] EXCEPT ![o] = E]
  OBVIOUS
<1>2. k[x] \in [1 .. Width(x) -> CellSet]
  BY DEF Rows
<1>3. /\ R \in [1 .. Width(x) -> CellSet] /\ R[o] = E
      /\ \A i \in 1 .. Width(x) : i # o => R[i] = k[x][i]
  BY <1>1, <1>2
<1>4. k2 = [k EXCEPT ![x] = R]
  BY <1>1 DEF Edits
<1>5. WrittenRow(k2, k, x, R)
  BY <1>3, <1>4, RowWrite
<1>6. Rows(k2) /\ k2[x] = R /\ \A c \in Sector : c # x => k2[c] = k[c]
  BY <1>5 DEF WrittenRow
<1> QED BY <1>3, <1>6 DEF WrittenCell

(***************************************************************************)
(* A directory entry may be written where the cells before it are in use,  *)
(* its name is new to the directory and its chain a chain of its own.      *)
(***************************************************************************)
Placed(k, f, r, h, L, x, o, E) ==
  /\ x \in Sector /\ o \in 1 .. Width(x) /\ (x \in Cluster => f[x] # 0)
  /\ \A j \in 1 .. o : j # o => k[x][j] # Free
  /\ E \in CellSet /\ E # Free /\ Live(E) /\ E.name \in Name
  /\ Begins(f, r, E.start) /\ h[E.start] = E.start
  /\ E.tag = "dir" => \A c \in Cluster : f[c] \in Cluster /\ h[c] = E.start => NoFree(k, c)
  /\ Told(L) => Absent(k, h, h[x], E.name)

(***************************************************************************)
(* The disk is sound after an entry was written where it may be.           *)
(***************************************************************************)
LEMMA CellCore ==
  ASSUME NEW k, NEW f, NEW r, NEW h, NEW L, Core(k, f, r, h, L), NEW x, NEW o, NEW E,
         Placed(k, f, r, h, L, x, o, E), NEW k2, WrittenCell(k2, k, x, o, E)
  PROVE  Core(k2, f, r, h, L)
<1>1. Rows(k2) /\ Links(f, r) /\ Heads(f, r, h)
  BY DEF Core, WrittenCell
<1>2. /\ x \in Sector /\ o \in 1 .. Width(x) /\ (x \in Cluster => f[x] # 0)
      /\ E # Free /\ Live(E) /\ E.name \in Name
  BY DEF Placed
<1>3. k2[x][o] = E /\ \A c \in Sector : \A i \in 1 .. Width(c) : ~(c = x /\ i = o) => k2[c][i] = k[c][i]
  BY DEF WrittenCell
<1>4. ASSUME NEW c, NEW i, Named(k2, c, i), ~(c = x /\ i = o) PROVE Named(k, c, i) /\ k2[c][i] = k[c][i]
  <2>1. c \in Sector /\ i \in 1 .. Width(c)
    BY <1>4 DEF Named
  <2>2. k2[c][i] = k[c][i]
    BY <1>3, <1>4, <2>1
  <2> QED BY <1>4, <2>2 DEF Named
<1>5. Starts(k2, f, r) /\ NamesHeads(k2, h)
  <2> SUFFICES ASSUME NEW c, NEW i, Named(k2, c, i)
               PROVE  Begins(f, r, k2[c][i].start) /\ h[k2[c][i].start] = k2[c][i].start
    BY DEF Starts, NamesHeads
  <2>1. CASE c = x /\ i = o
    BY <1>3, <2>1 DEF Placed
  <2>2. CASE ~(c = x /\ i = o)
    <3>1. Named(k, c, i) /\ k2[c][i] = k[c][i]
      BY <1>4, <2>2
    <3>2. Starts(k, f, r) /\ NamesHeads(k, h)
      BY DEF Core
    <3>3. Begins(f, r, k[c][i].start) /\ h[k[c][i].start] = k[c][i].start
      BY <3>1, <3>2 DEF Starts, NamesHeads
    <3> QED BY <3>1, <3>3
  <2> QED BY <2>1, <2>2
<1>6. ASSUME NEW c \in Sector, NoFree(k, c) PROVE NoFree(k2, c)
  BY <1>2, <1>3, <1>6 DEF NoFree
<1>7. DirsFull(k2, f, r, h)
  <2> SUFFICES ASSUME NEW c \in Cluster, f[c] \in Cluster, DirHead(k2, r, h[c]), c \in Sector
               PROVE NoFree(k2, c)
    BY DEF DirsFull, NoFree
  <2>1. CASE DirHead(k, r, h[c])
    BY <1>6, <2>1 DEF Core, DirsFull
  <2>2. CASE ~DirHead(k, r, h[c])
    <3>1. PICK d, i : Named(k2, d, i) /\ k2[d][i].tag = "dir" /\ k2[d][i].start = h[c]
      BY <2>2 DEF DirHead
    <3>2. d = x /\ i = o
      BY <1>4, <2>2, <3>1 DEF DirHead
    <3>3. E.tag = "dir" /\ h[c] = E.start
      BY <1>3, <3>1, <3>2
    <3>4. NoFree(k, c)
      BY <3>3 DEF Placed
    <3> QED BY <1>6, <3>4
  <2> QED BY <2>1, <2>2
<1>8. NoGap(k2)
  <2> SUFFICES ASSUME NEW c \in Sector, NEW i \in 1 .. Width(c), Live(k2[c][i]), NEW j \in 1 .. i
               PROVE  k2[c][j] # Free
    BY DEF NoGap, GapFree
  <2>0. Width(c) \in Nat
    BY Constants DEF Width
  <2>1. j \in 1 .. Width(c)
    BY <2>0
  <2>2. CASE c = x /\ j = o
    BY <1>2, <1>3, <2>2
  <2>3. CASE c = x /\ i = o /\ j # o
    <3>1. k[x][j] # Free
      BY <2>3 DEF Placed
    <3> QED BY <1>3, <2>1, <2>3, <3>1
  <2>4. CASE ~(c = x /\ i = o) /\ ~(c = x /\ j = o)
    <3>1. k2[c][i] = k[c][i] /\ k2[c][j] = k[c][j]
      BY <1>3, <2>1, <2>4
    <3>2. GapFree(k[c], Width(c))
      BY DEF Core, NoGap
    <3> QED BY <3>1, <3>2 DEF GapFree
  <2> QED BY <2>2, <2>3, <2>4
<1>9. Inhabited(k2, f)
  <2> SUFFICES ASSUME NEW c, NEW i, Named(k2, c, i), c \in Cluster PROVE f[c] # 0
    BY DEF Inhabited
  <2>1. CASE c = x /\ i = o
    BY <1>2, <2>1
  <2>2. CASE ~(c = x /\ i = o)
    BY <1>4, <2>2 DEF Core, Inhabited
  <2> QED BY <2>1, <2>2
<1>10. ASSUME Told(L) PROVE UniqueNames(k2, h)
  <2>0. Absent(k, h, h[x], E.name) /\ UniqueNames(k, h)
    BY <1>10 DEF Core, Placed
  <2>1. ASSUME NEW c, NEW i, Named(k2, c, i), ~(c = x /\ i = o), h[c] = h[x] PROVE k2[c][i].name # E.name
    BY <1>4, <2>0, <2>1 DEF Absent
  <2>2. UniqueNames(k2, h)
    <3> SUFFICES ASSUME NEW c, NEW i, NEW d, NEW j, Named(k2, c, i), Named(k2, d, j), h[c] = h[d],
                        k2[c][i].name = k2[d][j].name
                 PROVE  c = d /\ i = j
      BY DEF UniqueNames
    <3>1. CASE c = x /\ i = o
      BY <1>3, <2>1, <3>1
    <3>2. CASE d = x /\ j = o
      BY <1>3, <2>1, <3>2
    <3>3. CASE ~(c = x /\ i = o) /\ ~(d = x /\ j = o)
      <4>1. Named(k, c, i) /\ Named(k, d, j) /\ k[c][i].name = k[d][j].name
        BY <1>4, <3>3
      <4> QED BY <2>0, <4>1 DEF UniqueNames
    <3> QED BY <3>1, <3>2, <3>3
  <2> QED BY <2>2
<1> QED BY <1>1, <1>5, <1>7, <1>8, <1>9, <1>10 DEF Core

------------------------------------------------------------------------------
(***************************************************************************)
(* What the invariant says of one state, for a given choice of heads; and  *)
(* that it is enough to have such heads after a step.                      *)
(***************************************************************************)
Good(k, f, r, h, p, o, L) ==
  Core(k, f, r, h, L) /\ Owners(k, L, p, o.at) /\ OpOK(p, o, k, f, r, h, L)
Counters ==
  format \in Format /\ ops \in 0 .. MaxOps /\ faults \in 0 .. MaxFaults /\ lapse \subseteq Lapse

(***************************************************************************)
(* The invariant, taken apart.                                             *)
(***************************************************************************)
LEMMA Opens ==
  ASSUME FatInv
  PROVE  Counters /\ \E h : Good(contents, fat, RootCluster, h, pc, op, lapse)
BY DEF FatInv, Good, Counters

(***************************************************************************)
(* No step changes the format, and with it the root (fat32.cpp:129-244).   *)
(***************************************************************************)
LEMMA Settles ==
  ASSUME format' = format, Counters',
         NEW h, Good(contents', fat', RootCluster, h, pc', op', lapse')
  PROVE  FatInv'
<1>1. RootCluster' = RootCluster
  BY DEF RootCluster
<1>2. Good(contents', fat', RootCluster', h, pc', op', lapse')
  BY <1>1
<1> QED BY <1>2 DEF FatInv, Good, Counters

(***************************************************************************)
(* Lapses are only added, and counted.                                     *)
(***************************************************************************)
LEMMA LapsedIs ==
  ASSUME Counters, NEW wrong, wrong \subseteq Lapse, Lapsed(wrong)
  PROVE  lapse \subseteq lapse' /\ lapse' \subseteq Lapse /\ wrong \subseteq lapse' /\ faults' \in 0 .. MaxFaults
<1>1. faults \in 0 .. MaxFaults /\ lapse \subseteq Lapse /\ MaxFaults \in Nat
  BY FatAssumptions DEF Counters
<1>2. lapse' = lapse \cup wrong
  BY DEF Lapsed
<1>3. PICK x : x = IF "read error" \in wrong THEN 1 ELSE 0
  OBVIOUS
<1>4. faults' = faults + x /\ x \in Nat /\ faults' <= MaxFaults
  BY <1>3 DEF Lapsed
<1>5. faults' \in 0 .. MaxFaults
  BY <1>1, <1>4
<1> QED BY <1>1, <1>2, <1>5

(***************************************************************************)
(* The record of no operation.                                             *)
(***************************************************************************)
LEMMA IdleIs == Idle \in OpSet /\ Idle.kind = "none"
<1>1. Nowhere \in [cl : Sector, off : Nat]
  BY Constants DEF Nowhere
<1>2. <<>> \in Seq(Name)
  OBVIOUS
<1> QED BY <1>1, <1>2 DEF Idle, OpSet

(***************************************************************************)
(* With no operation under way there is nothing more to know than the      *)
(* disk.                                                                   *)
(***************************************************************************)
LEMMA Rests ==
  ASSUME NEW k, NEW f, NEW r, NEW h, NEW L, Core(k, f, r, h, L), NEW p, NEW at, Owners(k, L, p, at),
         p # "erase" \/ "half move" \in L
  PROVE  Good(k, f, r, h, "idle", Idle, L)
<1>1. Owners(k, L, "idle", Idle.at)
  BY OwnersLapse
<1>2. OpOK("idle", Idle, k, f, r, h, L)
  BY IdleIs DEF OpOK, Kinds, Making
<1> QED BY <1>1, <1>2 DEF Good

(***************************************************************************)
(* The operation gives up, is cut off or has nothing left to do            *)
(* (fat32.cpp:300-322, 397-538, 831-876): the disk stays.                  *)
(***************************************************************************)
LEMMA Stops ==
  ASSUME FatInv, UNCHANGED disk, Go("idle", Idle), NEW M, lapse' = lapse \cup M, M \subseteq Lapse,
         pc = "erase" => "half move" \in M, faults' \in 0 .. MaxFaults
  PROVE  FatInv'
<1>0. Counters
  BY Opens
<1>1. PICK h : Good(contents, fat, RootCluster, h, pc, op, lapse)
  BY Opens
<1>2. lapse \subseteq lapse' /\ lapse' \subseteq Lapse
  BY <1>0 DEF Counters
<1>3. Core(contents, fat, RootCluster, h, lapse')
  BY <1>1, <1>2, CoreLapse DEF Good
<1>4. Owners(contents, lapse, pc, op.at)
  BY <1>1 DEF Good
<1>5. pc # "erase" \/ "half move" \in lapse'
  OBVIOUS
<1>6. Owners(contents, lapse', pc, op.at)
  BY <1>2, <1>4, OwnersLapse
<1>7. Good(contents, fat, RootCluster, h, "idle", Idle, lapse')
  BY <1>3, <1>5, <1>6, Rests
<1>8. contents' = contents /\ fat' = fat /\ format' = format /\ pc' = "idle" /\ op' = Idle /\ ops' = ops
  BY DEF disk, Go
<1>9. Good(contents', fat', RootCluster, h, pc', op', lapse')
  BY <1>7, <1>8
<1>10. Counters'
  BY <1>0, <1>2, <1>8 DEF Counters
<1> QED BY <1>8, <1>9, <1>10, Settles

(***************************************************************************)
(* What a cut-off operation leaves is recorded: a move that has not erased *)
(* its old entry is a half move (fat32.cpp:983-985).                       *)
(***************************************************************************)
LEMMA UnfinishedIs ==
  ASSUME FatInv
  PROVE  Unfinished \subseteq Lapse /\ (pc = "erase" => "half move" \in Unfinished)
<1>1. pc = "erase" => op.kind # "append"
  BY DEF FatInv, OpOK, Kinds
<1>2. CASE pc = "erase"
  <2>1. Unfinished = {"half move"}
    BY <1>1, <1>2 DEF Unfinished
  <2> QED BY <2>1 DEF Lapse
<1>3. CASE pc # "erase" /\ op.kind = "append"
  <2>1. Unfinished = {"cut append"}
    BY <1>3 DEF Unfinished
  <2> QED BY <1>3, <2>1 DEF Lapse
<1>4. CASE pc # "erase" /\ op.kind # "append"
  <2>1. Unfinished = {}
    BY <1>4 DEF Unfinished
  <2> QED BY <1>4, <2>1
<1> QED BY <1>2, <1>3, <1>4

(***************************************************************************)
(* A failed write or a power loss keeps the invariant.                     *)
(***************************************************************************)
LEMMA AbortStep ==
  ASSUME FatInv, Abort
  PROVE  FatInv'
<1>1. faults' \in 0 .. MaxFaults
  <2>1. faults \in 0 .. MaxFaults /\ MaxFaults \in Nat
    BY FatAssumptions DEF FatInv
  <2> QED BY <2>1 DEF Abort
<1>2. UNCHANGED disk /\ Go("idle", Idle) /\ lapse' = lapse \cup Unfinished
  BY DEF Abort
<1> QED BY <1>1, <1>2, UnfinishedIs, Stops

(***************************************************************************)
(* Giving up keeps the invariant (fat32.cpp:300-322, 397-538, 831-876).    *)
(***************************************************************************)
LEMMA RefuseStep ==
  ASSUME FatInv, Refuse
  PROVE  FatInv'
<1>1. UNCHANGED disk /\ Go("idle", Idle) /\ Lapsed(Unfinished)
  BY DEF Refuse, Return
<1>2. faults' \in 0 .. MaxFaults
  BY <1>1, Opens, UnfinishedIs, LapsedIs
<1>3. lapse' = lapse \cup Unfinished
  BY <1>1 DEF Lapsed
<1> QED BY <1>1, <1>2, <1>3, UnfinishedIs, Stops

(***************************************************************************)
(* Mkdir ends at the end of its path (fat32.cpp:840, 875).                 *)
(***************************************************************************)
LEMMA MkdirDoneStep ==
  ASSUME FatInv, MkdirDone
  PROVE  FatInv'
<1>1. UNCHANGED disk /\ Go("idle", Idle) /\ Lapsed({}) /\ pc # "erase"
  BY DEF MkdirDone, Return
<1>2. faults' \in 0 .. MaxFaults
  BY <1>1, Opens, LapsedIs
<1>3. PICK M : M = {}
  OBVIOUS
<1>4. lapse' = lapse \cup M /\ M \subseteq Lapse
  BY <1>1, <1>3 DEF Lapsed
<1> QED BY <1>1, <1>2, <1>4, Stops

------------------------------------------------------------------------------
(***************************************************************************)
(* What an operation knows does not depend on the FAT or on the lapses     *)
(* alone, and stays true of its own record when it goes on.                *)
(***************************************************************************)
Same(o2, o) ==
  o2.kind = o.kind /\ o2.dir = o.dir /\ o2.name = o.name /\ o2.start = o.start /\ o2.at = o.at

(***************************************************************************)
(* An operation that is not erasing may go on to any step.                 *)
(***************************************************************************)
LEMMA OwnersMove ==
  ASSUME NEW k, NEW L, NEW p, NEW at, Owners(k, L, p, at), p # "erase", NEW q, NEW to
  PROVE  Owners(k, L, q, to)
<1>1. L \subseteq L
  OBVIOUS
<1> QED BY <1>1, OwnersLapse

(***************************************************************************)
(* What an operation knows of its chain stays true while no entry appears. *)
(***************************************************************************)
LEMMA KeepsOwn ==
  ASSUME NEW k, NEW k2, KeepsNames(k2, k), NEW f, NEW r, NEW h, NEW L, NEW M, L \subseteq M,
         NEW o, NEW o2, Same(o2, o), Own(k, f, r, h, L, o)
  PROVE  Own(k2, f, r, h, M, o2)
<1>1. o2.kind = o.kind /\ o2.dir = o.dir /\ o2.start = o.start /\ o2.at = o.at
  BY DEF Same
<1>2. Unnamed(k, o.start) => Unnamed(k2, o.start)
  BY KeepsUnnamed
<1>3. OnlyAt(k, L, o.start, o.at) => OnlyAt(k2, L, o.start, o.at)
  BY KeepsOnlyAt
<1>4. OnlyAt(k2, L, o.start, o.at) => OnlyAt(k2, M, o.start, o.at)
  BY DEF OnlyAt
<1> QED BY <1>1, <1>2, <1>3, <1>4 DEF Own

(***************************************************************************)
(* The same for the name an operation is about to use.                     *)
(***************************************************************************)
LEMMA KeepsNameFree ==
  ASSUME NEW k, NEW k2, KeepsNames(k2, k), NEW h, NEW L, NEW M, L \subseteq M,
         NEW o, NEW o2, Same(o2, o), NameFree(k, h, L, o)
  PROVE  NameFree(k2, h, M, o2)
<1>1. o2.dir = o.dir /\ o2.name = o.name
  BY DEF Same
<1>2. Absent(k, h, o.dir, o.name) => Absent(k2, h, o.dir, o.name)
  BY KeepsAbsent
<1> QED BY <1>1, <1>2 DEF NameFree, Told

(***************************************************************************)
(* Nothing appears where nothing is written.                               *)
(***************************************************************************)
LEMMA KeepsItself ==
  ASSUME NEW k
  PROVE  KeepsNames(k, k)
BY DEF KeepsNames

(***************************************************************************)
(* The lowest free entry of the FAT (fat32.cpp:305-320).                   *)
(***************************************************************************)
LEMMA AllocateIs ==
  ASSUME AllocateCluster # 0
  PROVE  /\ AllocateCluster \in Cluster /\ fat[AllocateCluster] = 0
         /\ \A d \in Cluster : fat[d] = 0 => AllocateCluster <= d
<1> DEFINE free == {c \in Cluster : fat[c] = 0}
<1>1. free # {} /\ AllocateCluster = Min(free)
  BY DEF AllocateCluster
<1>2. free \subseteq Nat
  BY Constants
<1>3. Min(free) \in free /\ \A n \in free : Min(free) <= n
  <2> HIDE DEF free
  <2> QED BY <1>1, <1>2, MinIs
<1> QED BY <1>1, <1>3

(***************************************************************************)
(* AllocateCluster keeps the invariant (fat32.cpp:300-322,                 *)
(* fat16.cpp:412-430).                                                     *)
(***************************************************************************)
LEMMA AllocateStep ==
  ASSUME FatInv, Allocate
  PROVE  FatInv'
<1>0. Counters
  BY Opens
<1>1. PICK h : Good(contents, fat, RootCluster, h, pc, op, lapse)
  BY Opens
<1>2. PICK c, o : c = AllocateCluster /\ o = [op EXCEPT !.new = c]
  OBVIOUS
<1>3. /\ pc \in {"first", "more"} /\ c # 0
      /\ fat' = [fat EXCEPT ![c] = EOC] /\ op' = o
      /\ pc' = IF pc = "first" THEN "start" ELSE "link"
      /\ format' = format /\ contents' = contents /\ faults' = faults /\ lapse' = lapse /\ ops' = ops
  BY <1>2 DEF Allocate, Go, fine
<1>4. c \in Cluster /\ fat[c] = 0 /\ \A d \in Cluster : fat[d] = 0 => c <= d
  BY <1>2, <1>3, AllocateIs
<1>5. /\ Core(contents, fat, RootCluster, h, lapse) /\ Owners(contents, lapse, pc, op.at)
      /\ OpOK(pc, op, contents, fat, RootCluster, h, lapse) /\ op \in OpSet
  BY <1>1 DEF Good, OpOK, Kinds
<1>6. Marked(fat', fat, c)
  <2>1. fat \in [Cluster -> Cluster \cup {0, EOC}]
    BY <1>5 DEF Core, Links
  <2> QED BY <1>3, <1>4, <2>1 DEF Marked
<1>7. Core(contents, fat', RootCluster, h, lapse) /\ Fresh(contents, fat', RootCluster, h, c)
  BY <1>4, <1>5, <1>6, MarkedCore, RootIs
<1>8. o \in OpSet /\ Same(o, op) /\ o.new = c /\ o.cur = op.cur /\ o.len = op.len /\ o.size = op.size
  BY <1>2, <1>4, <1>5 DEF OpSet, Same
<1>9. o.kind = op.kind /\ o.dir = op.dir /\ o.start = op.start /\ o.at = op.at
  BY <1>8 DEF Same
<1>10. o.kind # "append" => DirAt(fat', h, o.dir) /\ c # o.dir
  <2> SUFFICES ASSUME o.kind # "append" PROVE DirAt(fat', h, o.dir) /\ c # o.dir
    OBVIOUS
  <2>1. DirAt(fat, h, op.dir)
    BY <1>3, <1>5, <1>9 DEF OpOK, Making
  <2> QED BY <1>4, <1>6, <1>9, <2>1, MarkedDirAt
<1>11. o.kind # "append" => NameFree(contents, h, lapse, o)
  <2>1. op.kind # "append" => NameFree(contents, h, lapse, op)
    BY <1>3, <1>5 DEF OpOK, Making
  <2> QED BY <1>8, <1>9, <2>1, KeepsItself, KeepsNameFree
<1>12. CASE pc = "first"
  <2>1. pc' = "start" /\ op.kind \in {"create", "mkdir"}
    BY <1>3, <1>5, <1>12 DEF OpOK, Kinds
  <2>2. Kinds("start", o)
    BY <1>8, <1>9, <2>1 DEF Kinds
  <2>3. OpOK("start", o, contents, fat', RootCluster, h, lapse)
    BY <1>7, <1>8, <1>10, <1>11, <2>2 DEF OpOK
  <2>4. Owners(contents, lapse, "start", o.at)
    BY <1>5, <1>12, OwnersMove
  <2>5. Good(contents', fat', RootCluster, h, pc', op', lapse')
    BY <1>3, <1>7, <2>1, <2>3, <2>4 DEF Good
  <2> QED BY <1>0, <1>3, <2>5, Settles DEF Counters
<1>13. CASE pc = "more"
  <2>1. pc' = "link" /\ Cur(contents, fat, RootCluster, h, lapse, op)
    BY <1>3, <1>5, <1>13 DEF OpOK
  <2>2. LastOf(fat, lapse, op.cur)
    BY <2>1 DEF Cur, FileCur, DirCur
  <2>3. op.cur # c /\ fat'[op.cur] = fat[op.cur] /\ LastOf(fat', lapse, op.cur)
    BY <1>4, <1>6, <2>2 DEF LastOf, Marked
  <2>4. Cur(contents, fat', RootCluster, h, lapse, o)
    BY <1>8, <1>9, <2>1, <2>3 DEF Cur, FileCur, DirCur
  <2>5. o.kind # "append" => c # o.start /\ Own(contents, fat', RootCluster, h, lapse, o)
    <3> SUFFICES ASSUME o.kind # "append" PROVE c # o.start /\ Own(contents, fat', RootCluster, h, lapse, o)
      OBVIOUS
    <3>1. Own(contents, fat, RootCluster, h, lapse, op)
      BY <1>5, <1>9, <1>13 DEF OpOK
    <3>2. Own(contents, fat, RootCluster, h, lapse, o)
      BY <1>8, <3>1, KeepsItself, KeepsOwn
    <3>3. Begins(fat, RootCluster, o.start)
      BY <3>2 DEF Own
    <3>4. Begins(fat', RootCluster, o.start) /\ o.start # c
      BY <1>4, <1>6, <3>3, MarkedBegins
    <3>5. fat'[o.start] = fat[o.start]
      BY <1>6, <3>3, <3>4 DEF Marked, Begins
    <3> QED BY <3>2, <3>4, <3>5 DEF Own
  <2>6. Kinds("link", o)
    BY <1>5, <1>8, <1>9, <1>13 DEF OpOK, Kinds
  <2>7. OpOK("link", o, contents, fat', RootCluster, h, lapse)
    BY <1>7, <1>8, <1>10, <1>11, <2>3, <2>4, <2>5, <2>6 DEF OpOK
  <2>8. Owners(contents, lapse, "link", o.at)
    BY <1>5, <1>13, OwnersMove
  <2>9. Good(contents', fat', RootCluster, h, pc', op', lapse')
    BY <1>3, <1>7, <2>1, <2>7, <2>8 DEF Good
  <2> QED BY <1>0, <1>3, <2>9, Settles DEF Counters
<1> QED BY <1>3, <1>12, <1>13

(***************************************************************************)
(* Writing a whole cluster that is not inside a directory's chain.         *)
(***************************************************************************)
LEMMA ClusterWrite ==
  ASSUME NEW k, NEW f, NEW r, NEW h, NEW L, Core(k, f, r, h, L), NEW x \in Cluster, OnDisk(x),
         NEW R \in [1 .. Cells -> CellSet], GapFree(R, Cells), RowNames(R, k[x], Cells),
         ~(f[x] \in Cluster /\ DirHead(k, r, h[x])), NEW k2, k2 = [k EXCEPT ![x] = R]
  PROVE  Core(k2, f, r, h, L) /\ KeepsNames(k2, k)
<1>1. x \in Sector /\ Width(x) = Cells
  BY Constants DEF OnDisk
<1>2. Rows(k)
  BY DEF Core
<1>3. WrittenRow(k2, k, x, R)
  BY <1>1, <1>2, RowWrite
<1> QED BY <1>1, <1>3, RowKeeps

(***************************************************************************)
(* A row with no name adds none.                                           *)
(***************************************************************************)
LEMMA NamelessRow ==
  ASSUME NEW R, NoNames(R), NEW Q
  PROVE  RowNames(R, Q, Cells)
BY DEF NoNames, RowNames

(***************************************************************************)
(* The first cluster of a file or directory is written before anything     *)
(* leads to it (fat32.cpp:466-470, 344-366).                               *)
(***************************************************************************)
LEMMA StartClusterStep ==
  ASSUME FatInv, StartCluster
  PROVE  FatInv'
<1>0. Counters
  BY Opens
<1>1. PICK h : Good(contents, fat, RootCluster, h, pc, op, lapse)
  BY Opens
<1>2. PICK n, o, R : /\ n = op.new /\ o = [op EXCEPT !.start = op.new, !.cur = op.new]
                     /\ R = IF op.kind = "create" THEN Blank ELSE DirCluster(op.new, op.dir)
  OBVIOUS
<1>3. /\ pc = "start" /\ OnDisk(n) /\ contents' = [contents EXCEPT ![n] = R]
      /\ fat' = fat /\ op' = o /\ pc' = IF op.kind = "create" THEN "fill" ELSE "entry"
      /\ format' = format /\ faults' = faults /\ lapse' = lapse /\ ops' = ops
  BY <1>2 DEF StartCluster, Write, Go, fine
<1>4. /\ Core(contents, fat, RootCluster, h, lapse) /\ Owners(contents, lapse, pc, op.at)
      /\ OpOK(pc, op, contents, fat, RootCluster, h, lapse) /\ Kinds(pc, op) /\ op \in OpSet
  BY <1>1 DEF Good, OpOK, Kinds
<1>5. Fresh(contents, fat, RootCluster, h, n) /\ op.kind \in {"create", "mkdir"} /\ n # op.dir
  BY <1>2, <1>3, <1>4 DEF OpOK, Kinds
<1>6. /\ n \in Cluster /\ fat[n] = EOC /\ Unlinked(fat, n) /\ Unnamed(contents, n) /\ n # RootCluster
      /\ h[n] = n /\ \A c \in Cluster : h[c] = n => c = n
  BY <1>5 DEF Fresh
<1>7. EOC # 0 /\ EOC \notin Cluster
  BY Constants DEF EOC
<1>8. R \in [1 .. Cells -> CellSet] /\ GapFree(R, Cells) /\ NoNames(R)
  <2>1. op.new \in Cluster \cup {0} /\ op.dir \in Cluster \cup {0}
    BY <1>4 DEF OpSet
  <2>2. CASE op.kind = "create"
    BY <1>2, <2>2, BlankIs
  <2>3. CASE op.kind # "create"
    BY <1>2, <2>1, <2>3, DirRow
  <2> QED BY <2>2, <2>3
<1>9. Core(contents', fat, RootCluster, h, lapse) /\ KeepsNames(contents', contents)
  <2>1. RowNames(R, contents[n], Cells)
    BY <1>8, NamelessRow
  <2> QED BY <1>3, <1>4, <1>6, <1>7, <1>8, <2>1, ClusterWrite
<1>10. /\ o \in OpSet /\ o.kind = op.kind /\ o.dir = op.dir /\ o.name = op.name /\ o.at = op.at
       /\ o.start = n /\ o.cur = n /\ o.len = op.len
  BY <1>2, <1>4 DEF OpSet
<1>11. DirAt(fat, h, o.dir)
  BY <1>3, <1>4, <1>5, <1>10 DEF OpOK, Making
<1>12. NameFree(contents', h, lapse, o)
  <2>1. NameFree(contents, h, lapse, op)
    BY <1>3, <1>4, <1>5 DEF OpOK, Making
  <2>2. Absent(contents, h, op.dir, op.name) => Absent(contents', h, op.dir, op.name)
    BY <1>9, KeepsAbsent
  <2> QED BY <1>10, <2>1, <2>2 DEF NameFree
<1>13. Own(contents', fat, RootCluster, h, lapse, o)
  <2>1. Unnamed(contents', n)
    BY <1>6, <1>9, KeepsUnnamed
  <2>2. Begins(fat, RootCluster, n)
    BY <1>6, <1>7 DEF Begins
  <2> QED BY <1>5, <1>6, <1>10, <2>1, <2>2 DEF Own
<1>14. FileCur(contents', fat, RootCluster, h, lapse, o)
  <2>1. Unnamed(contents', n)
    BY <1>6, <1>9, KeepsUnnamed
  <2>2. ~DirHead(contents', RootCluster, n)
    BY <1>6, <2>1 DEF DirHead, Unnamed
  <2> QED BY <1>6, <1>7, <1>10, <2>2 DEF FileCur, LastOf
<1>15. Kinds(pc', o)
  BY <1>3, <1>5, <1>10 DEF Kinds
<1>16. OpOK(pc', o, contents', fat, RootCluster, h, lapse)
  <2>1. pc' \in {"fill", "entry"}
    BY <1>3
  <2> QED BY <1>11, <1>12, <1>13, <1>14, <1>15, <2>1 DEF OpOK
<1>17. Owners(contents', lapse, pc', o.at)
  <2>1. Owners(contents', lapse, pc, op.at)
    BY <1>4, <1>9, KeepsOwners
  <2> QED BY <1>3, <2>1, OwnersMove
<1>18. Good(contents', fat', RootCluster, h, pc', op', lapse')
  BY <1>3, <1>9, <1>16, <1>17 DEF Good
<1> QED BY <1>0, <1>3, <1>18, Settles DEF Counters

(***************************************************************************)
(* How much goes into a cluster.                                           *)
(***************************************************************************)
LEMMA ChunkIs ==
  ASSUME op \in OpSet, NEW room \in Nat, room > 0
  PROVE  /\ Chunk(room) \in Nat /\ op.len - Chunk(room) \in Nat
         /\ op.len > 0 => Chunk(room) > 0
         /\ ~(op.len > Chunk(room)) => op.len - Chunk(room) = 0
<1>1. PICK l : l = op.len
  OBVIOUS
<1>2. l \in Nat
  BY <1>1 DEF OpSet
<1>3. PICK c : c = Chunk(room)
  OBVIOUS
<1>4. c = IF l < room THEN l ELSE room
  BY <1>1, <1>3 DEF Chunk
<1>5. c \in Nat /\ l - c \in Nat /\ (l > 0 => c > 0) /\ (~(l > c) => l - c = 0)
  BY <1>2, <1>4
<1> QED BY <1>1, <1>3, <1>5

(***************************************************************************)
(* The number of operations, which tells their data apart, is a number.    *)
(***************************************************************************)
LEMMA CountsOps ==
  ASSUME Counters
  PROVE  ops \in Nat
<1>1. MaxOps \in Nat /\ ops \in 0 .. MaxOps
  BY FatAssumptions DEF Counters
<1> QED BY <1>1

(***************************************************************************)
(* A new file is written cluster by cluster (fat32.cpp:473-489).           *)
(***************************************************************************)
LEMMA FillStep ==
  ASSUME FatInv, Fill
  PROVE  FatInv'
<1>0. Counters
  BY Opens
<1>1. PICK h : Good(contents, fat, RootCluster, h, pc, op, lapse)
  BY Opens
<1>2. PICK x, n, o : x = op.cur /\ n = Chunk(Cells) /\ o = [op EXCEPT !.len = op.len - n]
  OBVIOUS
<1>3. /\ pc = "fill" /\ OnDisk(x) /\ contents' = [contents EXCEPT ![x] = Put(Blank, 0, n)]
      /\ fat' = fat /\ op' = o /\ pc' = IF op.len > n THEN "more" ELSE "entry"
      /\ format' = format /\ faults' = faults /\ lapse' = lapse /\ ops' = ops
  BY <1>2 DEF Fill, Write, Go, fine
<1>4. /\ Core(contents, fat, RootCluster, h, lapse) /\ Owners(contents, lapse, pc, op.at)
      /\ OpOK(pc, op, contents, fat, RootCluster, h, lapse) /\ Kinds(pc, op) /\ op \in OpSet
  BY <1>1 DEF Good, OpOK, Kinds
<1>5. op.kind = "create" /\ FileCur(contents, fat, RootCluster, h, lapse, op)
  BY <1>3, <1>4 DEF OpOK, Kinds
<1>6. x \in Cluster /\ h[x] = op.start /\ ~DirHead(contents, RootCluster, op.start)
  BY <1>2, <1>5 DEF FileCur, LastOf
<1>7. ops \in Nat
  BY <1>0, CountsOps
<1>8. PICK R : R = Put(Blank, 0, n)
  OBVIOUS
<1>9. R \in [1 .. Cells -> CellSet] /\ GapFree(R, Cells) /\ NoNames(R)
  BY <1>7, <1>8, BlankRow
<1>10. Core(contents', fat, RootCluster, h, lapse) /\ KeepsNames(contents', contents)
  <2>1. RowNames(R, contents[x], Cells)
    BY <1>9, NamelessRow
  <2>2. contents' = [contents EXCEPT ![x] = R]
    BY <1>3, <1>8
  <2>3. ~(fat[x] \in Cluster /\ DirHead(contents, RootCluster, h[x]))
    BY <1>6
  <2>4. Core(contents, fat, RootCluster, h, lapse) /\ x \in Cluster /\ OnDisk(x)
    BY <1>3, <1>4, <1>6
  <2> QED BY <1>9, <2>1, <2>2, <2>3, <2>4, ClusterWrite
<1>11. op.len - n \in Nat /\ (~(op.len > n) => op.len - n = 0)
  BY <1>2, <1>4, ChunkIs, Constants
<1>12. /\ o \in OpSet /\ Same(o, op) /\ o.kind = "create" /\ o.dir = op.dir
       /\ o.start = op.start /\ o.cur = op.cur /\ o.len = op.len - n
  BY <1>2, <1>4, <1>5, <1>11 DEF OpSet, Same
<1>13. DirAt(fat, h, o.dir) /\ NameFree(contents, h, lapse, op) /\ Own(contents, fat, RootCluster, h, lapse, op)
  BY <1>3, <1>4, <1>5, <1>12 DEF OpOK, Making
<1>14. NameFree(contents', h, lapse, o)
  BY <1>10, <1>12, <1>13, KeepsNameFree
<1>15. Own(contents', fat, RootCluster, h, lapse, o)
  BY <1>10, <1>12, <1>13, KeepsOwn
<1>16. Cur(contents', fat, RootCluster, h, lapse, o)
  <2>1. ~DirHead(contents', RootCluster, op.start)
    BY <1>6, <1>10, KeepsDirHead
  <2> QED BY <1>5, <1>12, <2>1 DEF Cur, FileCur
<1>17. Kinds(pc', o)
  BY <1>3, <1>11, <1>12 DEF Kinds
<1>18. OpOK(pc', o, contents', fat, RootCluster, h, lapse)
  <2>1. pc' \in {"more", "entry"}
    BY <1>3
  <2> QED BY <1>12, <1>13, <1>14, <1>15, <1>16, <1>17, <2>1 DEF OpOK
<1>19. Owners(contents', lapse, pc', o.at)
  <2>1. Owners(contents', lapse, pc, op.at)
    BY <1>4, <1>10, KeepsOwners
  <2> QED BY <1>3, <2>1, OwnersMove
<1>20. Good(contents', fat', RootCluster, h, pc', op', lapse')
  BY <1>3, <1>10, <1>18, <1>19 DEF Good
<1> QED BY <1>0, <1>3, <1>20, Settles DEF Counters

(***************************************************************************)
(* A marked cluster is linked to the last one of a chain                   *)
(* (fat32.cpp:422-425, 481-484, 516-519): it takes over that chain's head. *)
(***************************************************************************)
LEMMA LinkStep ==
  ASSUME FatInv, Link
  PROVE  FatInv'
<1>0. Counters
  BY Opens
<1>1. PICK h : Good(contents, fat, RootCluster, h, pc, op, lapse)
  BY Opens
<1>2. PICK b, n, g : b = op.cur /\ n = op.new /\ g = [h EXCEPT ![n] = h[b]]
  OBVIOUS
<1>3. /\ pc = "link" /\ fat' = [fat EXCEPT ![b] = n] /\ op' = op /\ pc' = "linked"
      /\ contents' = contents /\ format' = format /\ faults' = faults /\ lapse' = lapse /\ ops' = ops
  BY <1>2 DEF Link, Go, fine
<1>4. /\ Core(contents, fat, RootCluster, h, lapse) /\ Owners(contents, lapse, pc, op.at)
      /\ OpOK(pc, op, contents, fat, RootCluster, h, lapse) /\ Kinds(pc, op) /\ op \in OpSet
  BY <1>1 DEF Good, OpOK, Kinds
<1>5. /\ Fresh(contents, fat, RootCluster, h, n) /\ b # n
      /\ Cur(contents, fat, RootCluster, h, lapse, op)
      /\ op.kind # "append" => n # op.dir /\ n # op.start /\ DirAt(fat, h, op.dir)
                                 /\ NameFree(contents, h, lapse, op) /\ Own(contents, fat, RootCluster, h, lapse, op)
  BY <1>2, <1>3, <1>4 DEF OpOK, Making
<1>6. LastOf(fat, lapse, b) /\ (DirHead(contents, RootCluster, h[b]) => NoFree(contents, b))
  BY <1>2, <1>5 DEF Cur, FileCur, DirCur
<1>7. b \in Cluster /\ n \in Cluster /\ fat[n] = EOC /\ fat[b] # 0
  BY <1>5, <1>6 DEF LastOf, Fresh
<1>8. Joined(fat', g, fat, h, b, n)
  <2>1. fat \in [Cluster -> Cluster \cup {0, EOC}] /\ h \in [Cluster \cup {0} -> Cluster \cup {0}]
    BY <1>4 DEF Core, Links, Heads
  <2>2. /\ fat' \in [Cluster -> Cluster \cup {0, EOC}] /\ fat'[b] = n
        /\ \A c \in Cluster : c # b => fat'[c] = fat[c]
    BY <1>3, <1>7, <2>1
  <2>3. /\ g \in [Cluster \cup {0} -> Cluster \cup {0}] /\ g[n] = h[b]
        /\ \A c \in Cluster \cup {0} : c # n => g[c] = h[c]
    BY <1>2, <1>7, <2>1
  <2> QED BY <2>2, <2>3 DEF Joined
<1>9. Core(contents, fat', RootCluster, g, lapse)
  BY <1>4, <1>5, <1>6, <1>8, RootIs, JoinedCore
<1>10. fat'[n] = EOC /\ fat'[b] = n /\ g[n] = h[b] /\ \A c \in Cluster \cup {0} : c # n => g[c] = h[c]
  BY <1>5, <1>7, <1>8 DEF Joined
<1>11. op.kind # "append" => DirAt(fat', g, op.dir)
  BY <1>5, <1>7, <1>8, JoinedDirAt
<1>12. op.kind # "append" => NameFree(contents, g, lapse, op)
  <2>1. Absent(contents, h, op.dir, op.name) => Absent(contents, g, op.dir, op.name)
    BY <1>5, <1>7, <1>8, JoinedAbsent
  <2> QED BY <1>5, <2>1 DEF NameFree
<1>13. LinkedEnd(contents, fat', n)
  BY <1>5, <1>7, <1>10 DEF LinkedEnd, Fresh
<1>14. LinkedTo(contents, RootCluster, g, op)
  BY <1>2, <1>5, <1>10 DEF Cur, FileCur, DirCur, LinkedTo
<1>15. op.kind # "append" => Own(contents, fat', RootCluster, g, lapse, op)
  <2> SUFFICES ASSUME op.kind # "append" PROVE Own(contents, fat', RootCluster, g, lapse, op)
    OBVIOUS
  <2>1. PICK s : s = op.start
    OBVIOUS
  <2>2. /\ Begins(fat, RootCluster, s) /\ h[s] = s /\ s # n /\ s \in Cluster
        /\ op.kind \in {"create", "mkdir"} => Unnamed(contents, s) /\ s # op.dir
        /\ op.kind = "mkdir" => fat[s] = EOC /\ \A c \in Cluster : h[c] = s => c = s
        /\ op.kind = "rename" => OnlyAt(contents, lapse, s, op.at)
    BY <1>5, <2>1 DEF Own, Begins
  <2>3. Begins(fat', RootCluster, s)
    BY <1>7, <1>8, <2>2, JoinedBegins
  <2>4. g[s] = s
    BY <1>10, <2>2
  <2>5. ASSUME op.kind = "mkdir" PROVE fat'[s] = EOC /\ \A c \in Cluster : g[c] = s => c = s
    <3>1. h[b] = op.dir /\ op.dir # s
      BY <1>2, <1>5, <2>2, <2>5 DEF Cur, DirCur
    <3>2. b # s /\ fat'[s] = fat[s]
      BY <1>8, <2>2, <3>1 DEF Joined
    <3>3. \A c \in Cluster : g[c] = s => c = s
      BY <1>10, <2>2, <2>5, <3>1
    <3> QED BY <2>2, <2>5, <3>2, <3>3
  <2> QED BY <2>1, <2>2, <2>3, <2>4, <2>5 DEF Own
<1>16. Kinds("linked", op)
  BY <1>3, <1>4 DEF Kinds
<1>17. OpOK("linked", op, contents, fat', RootCluster, g, lapse)
  BY <1>2, <1>11, <1>12, <1>13, <1>14, <1>15, <1>16 DEF OpOK
<1>18. Owners(contents, lapse, "linked", op.at)
  BY <1>3, <1>4, OwnersMove
<1>19. Good(contents', fat', RootCluster, g, pc', op', lapse')
  BY <1>3, <1>9, <1>17, <1>18 DEF Good
<1> QED BY <1>0, <1>3, <1>19, Settles DEF Counters

(***************************************************************************)
(* The linked cluster is written (fat32.cpp:426-428, 485-486, 520-525).    *)
(***************************************************************************)
LEMMA LinkedStep ==
  ASSUME FatInv, Linked
  PROVE  FatInv'
<1>0. Counters
  BY Opens
<1>1. PICK h : Good(contents, fat, RootCluster, h, pc, op, lapse)
  BY Opens
<1>2. PICK x, n, o : /\ x = op.new /\ n = IF op.kind = "append" THEN Chunk(Cells) ELSE 0
                     /\ o = [op EXCEPT !.cur = op.new, !.len = op.len - n, !.size = op.size + n]
  OBVIOUS
<1>3. /\ pc = "linked" /\ OnDisk(x) /\ contents' = [contents EXCEPT ![x] = Put(Blank, 0, n)]
      /\ fat' = fat /\ op' = o
      /\ format' = format /\ faults' = faults /\ lapse' = lapse /\ ops' = ops
  BY <1>2 DEF Linked, Write, Go, fine
<1>4. pc' = CASE op.kind = "append" -> (IF op.len > n THEN "more" ELSE "size")
              [] op.kind = "create" /\ op.len > 0 -> "fill"
              [] OTHER -> "entry"
  BY <1>2 DEF Linked, Go
<1>5. /\ Core(contents, fat, RootCluster, h, lapse) /\ Owners(contents, lapse, pc, op.at)
      /\ OpOK(pc, op, contents, fat, RootCluster, h, lapse) /\ Kinds(pc, op) /\ op \in OpSet
  BY <1>1 DEF Good, OpOK, Kinds
<1>6. LinkedEnd(contents, fat, x) /\ LinkedTo(contents, RootCluster, h, op)
  BY <1>2, <1>3, <1>5 DEF OpOK
<1>7. x \in Cluster /\ fat[x] = EOC /\ EOC # 0 /\ EOC \notin Cluster
  BY <1>6, Constants DEF LinkedEnd, EOC
<1>8. PICK R : R = Put(Blank, 0, n)
  OBVIOUS
<1>9. R \in [1 .. Cells -> CellSet] /\ GapFree(R, Cells) /\ NoNames(R)
  BY <1>0, <1>8, BlankRow, CountsOps
<1>10. Core(contents', fat, RootCluster, h, lapse) /\ KeepsNames(contents', contents)
  <2>1. RowNames(R, contents[x], Cells)
    BY <1>9, NamelessRow
  <2>2. contents' = [contents EXCEPT ![x] = R]
    BY <1>3, <1>8
  <2>3. ~(fat[x] \in Cluster /\ DirHead(contents, RootCluster, h[x]))
    BY <1>7
  <2>4. Core(contents, fat, RootCluster, h, lapse) /\ x \in Cluster /\ OnDisk(x)
    BY <1>3, <1>5, <1>7
  <2> QED BY <1>9, <2>1, <2>2, <2>3, <2>4, ClusterWrite
<1>11. op.len \in Nat /\ op.size \in Nat
  BY <1>5 DEF OpSet
<1>12. n \in Nat /\ op.len - n \in Nat /\ (op.kind # "append" => n = 0)
       /\ (op.kind = "append" /\ op.len > 0 => n > 0)
  BY <1>2, <1>5, <1>11, ChunkIs, Constants
<1>13. op.size + n \in Nat /\ (n > 0 => op.size + n > 0) /\ (n = 0 => op.len - n = op.len)
  BY <1>11, <1>12
<1>14. /\ o \in OpSet /\ Same(o, op) /\ o.kind = op.kind /\ o.dir = op.dir /\ o.start = op.start
       /\ o.cur = x /\ o.len = op.len - n /\ o.size = op.size + n
  BY <1>2, <1>5, <1>7, <1>12, <1>13 DEF OpSet, Same
<1>15. op.kind # "append" => /\ DirAt(fat, h, o.dir) /\ NameFree(contents, h, lapse, op)
                             /\ Own(contents, fat, RootCluster, h, lapse, op)
  BY <1>3, <1>5, <1>14 DEF OpOK, Making
<1>16. op.kind # "append" => NameFree(contents', h, lapse, o)
  BY <1>10, <1>14, <1>15, KeepsNameFree
<1>17. op.kind # "append" => Own(contents', fat, RootCluster, h, lapse, o)
  BY <1>10, <1>14, <1>15, KeepsOwn
<1>18. op.kind = "append" \/ (op.kind = "create" /\ op.len > 0) =>
         FileCur(contents', fat, RootCluster, h, lapse, o)
  <2> SUFFICES ASSUME op.kind = "append" \/ (op.kind = "create" /\ op.len > 0)
               PROVE  FileCur(contents', fat, RootCluster, h, lapse, o)
    OBVIOUS
  <2>0. ~(op.len > 0 /\ op.len = 0)
    BY <1>11
  <2>1. h[x] = op.start /\ ~DirHead(contents, RootCluster, op.start)
    BY <1>2, <1>6, <2>0 DEF LinkedTo
  <2>2. ~DirHead(contents', RootCluster, op.start)
    BY <1>10, <2>1, KeepsDirHead
  <2> QED BY <1>7, <1>14, <2>1, <2>2 DEF FileCur, LastOf
<1>19. Owners(contents', lapse, pc', o.at)
  <2>1. Owners(contents', lapse, pc, op.at)
    BY <1>5, <1>10, KeepsOwners
  <2> QED BY <1>3, <2>1, OwnersMove
<1>20. OpOK(pc', o, contents', fat, RootCluster, h, lapse)
  <2>0. op.kind \in {"create", "mkdir", "rename", "append"}
    BY <1>3, <1>5 DEF Kinds
  <2>1. CASE op.kind = "append"
    <3>1. pc' = IF op.len > n THEN "more" ELSE "size"
      BY <1>4, <2>1
    <3>2. op.len > 0 /\ n > 0
      BY <1>3, <1>5, <1>12, <2>1 DEF Kinds
    <3>3. op.len > n => op.len - n > 0
      BY <1>11, <1>12
    <3>4. Kinds(pc', o)
      BY <1>13, <1>14, <2>1, <3>1, <3>2, <3>3 DEF Kinds
    <3>5. Cur(contents', fat, RootCluster, h, lapse, o)
      BY <1>14, <1>18, <2>1 DEF Cur
    <3> QED BY <1>14, <2>1, <3>1, <3>4, <3>5 DEF OpOK
  <2>2. CASE op.kind = "create" /\ op.len > 0
    <3>1. pc' = "fill"
      BY <1>4, <2>2
    <3>2. Kinds(pc', o)
      BY <1>14, <2>2, <3>1 DEF Kinds
    <3> QED BY <1>14, <1>15, <1>16, <1>17, <1>18, <2>2, <3>1, <3>2 DEF OpOK
  <2>3. CASE op.kind # "append" /\ ~(op.kind = "create" /\ op.len > 0)
    <3>1. pc' = "entry"
      BY <1>4, <2>3
    <3>2. op.kind = "create" => op.len - n = 0
      BY <1>11, <1>12, <1>13, <2>3
    <3>3. Kinds(pc', o)
      BY <1>14, <2>0, <2>3, <3>1, <3>2 DEF Kinds
    <3> QED BY <1>14, <1>15, <1>16, <1>17, <2>3, <3>1, <3>3 DEF OpOK
  <2> QED BY <2>1, <2>2, <2>3
<1>21. Good(contents', fat', RootCluster, h, pc', op', lapse')
  BY <1>3, <1>10, <1>19, <1>20 DEF Good
<1> QED BY <1>0, <1>3, <1>21, Settles DEF Counters

(***************************************************************************)
(* An append writes into the last cluster of its file (fat32.cpp:502-514,  *)
(* fat16.cpp:83-91).                                                       *)
(***************************************************************************)
LEMMA AppendFirstStep ==
  ASSUME FatInv, AppendFirst
  PROVE  FatInv'
<1>0. Counters
  BY Opens
<1>1. PICK h : Good(contents, fat, RootCluster, h, pc, op, lapse)
  BY Opens
<1>2. PICK x, off, n, o, M :
         /\ x = op.cur /\ off = op.size % Cells
         /\ n = IF FillsLastCluster THEN Chunk(Cells - off) ELSE 0
         /\ o = [op EXCEPT !.len = op.len - n, !.size = op.size + n]
         /\ M = IF n > 0 /\ off = 0 THEN {"boundary append"} ELSE {}
  OBVIOUS
<1>3. /\ pc = "append" /\ op' = o /\ ops' = ops /\ pc' = IF op.len > n THEN "more" ELSE "size"
      /\ IF n > 0 THEN Write(x, Put(contents[x], off, n)) ELSE UNCHANGED disk
      /\ Lapsed(M)
  BY <1>2 DEF AppendFirst, Go
<1>4. /\ Core(contents, fat, RootCluster, h, lapse) /\ Owners(contents, lapse, pc, op.at)
      /\ OpOK(pc, op, contents, fat, RootCluster, h, lapse) /\ Kinds(pc, op) /\ op \in OpSet
  BY <1>1 DEF Good, OpOK, Kinds
<1>5. op.kind = "append" /\ op.len > 0 /\ FileCur(contents, fat, RootCluster, h, lapse, op)
  BY <1>3, <1>4 DEF OpOK, Kinds
<1>6. /\ x \in Cluster /\ h[x] = op.start /\ ~DirHead(contents, RootCluster, op.start)
      /\ LastOf(fat, lapse, x)
  BY <1>2, <1>5 DEF FileCur, LastOf
<1>7. M \subseteq Lapse
  BY <1>2 DEF Lapse
<1>8. lapse \subseteq lapse' /\ lapse' \subseteq Lapse /\ faults' \in 0 .. MaxFaults
  BY <1>0, <1>3, <1>7, LapsedIs
<1>9. op.len \in Nat /\ op.size \in Nat
  BY <1>4 DEF OpSet
<1>10. n \in Nat /\ op.len - n \in Nat /\ (op.len > n => op.len - n > 0)
       /\ (~(op.len > n) => n > 0)
  <2>1. Cells \in Nat /\ Cells >= 2
    BY Constants
  <2>2. off \in Nat /\ off < Cells
    <3>1. PICK z, w : z = op.size /\ w = Cells
      OBVIOUS
    <3>2. z \in Nat /\ w \in Nat /\ w > 0
      BY <1>9, <2>1, <3>1
    <3>3. off = z % w
      BY <1>2, <3>1, Zenon
    <3>4. off \in Nat /\ off < w
      BY <3>2, <3>3
    <3> QED BY <3>1, <3>4
  <2>3. PICK room : room = Cells - off
    OBVIOUS
  <2>4. room \in Nat /\ room > 0
    BY <2>1, <2>2, <2>3
  <2>5. n \in Nat /\ op.len - n \in Nat
    <3>1. CASE FillsLastCluster
      BY <1>2, <1>4, <2>3, <2>4, <3>1, ChunkIs
    <3>2. CASE ~FillsLastCluster
      BY <1>2, <1>9, <3>2
    <3> QED BY <3>1, <3>2
  <2> QED BY <1>5, <1>9, <2>5
<1>11. op.size + n \in Nat /\ (n > 0 => op.size + n > 0)
  BY <1>9, <1>10
<1>12. /\ o \in OpSet /\ Same(o, op) /\ o.kind = "append" /\ o.start = op.start
       /\ o.cur = x /\ o.len = op.len - n /\ o.size = op.size + n
  BY <1>2, <1>4, <1>5, <1>10, <1>11 DEF OpSet, Same
<1>13. /\ Core(contents', fat, RootCluster, h, lapse) /\ KeepsNames(contents', contents)
       /\ fat' = fat /\ format' = format
  <2>1. CASE n > 0
    <3>1. /\ OnDisk(x) /\ contents' = [contents EXCEPT ![x] = Put(contents[x], off, n)]
          /\ fat' = fat /\ format' = format
      BY <1>3, <2>1 DEF Write
    <3>2. PICK R : R = Put(contents[x], off, n)
      OBVIOUS
    <3>3. contents[x] \in [1 .. Cells -> CellSet] /\ GapFree(contents[x], Cells)
      <4>1. x \in Sector /\ Width(x) = Cells
        BY <1>6, <3>1, Constants DEF OnDisk
      <4> QED BY <1>4, <4>1 DEF Core, Rows, NoGap
    <3>4. R \in [1 .. Cells -> CellSet] /\ GapFree(R, Cells) /\ RowNames(R, contents[x], Cells)
      BY <1>0, <3>2, <3>3, OverwrittenRow, CountsOps
    <3>5. ~(fat[x] \in Cluster /\ DirHead(contents, RootCluster, h[x]))
      BY <1>6
    <3>6. Core(contents, fat, RootCluster, h, lapse) /\ x \in Cluster /\ OnDisk(x)
          /\ contents' = [contents EXCEPT ![x] = R]
      BY <1>4, <1>6, <3>1, <3>2
    <3>7. Core(contents', fat, RootCluster, h, lapse) /\ KeepsNames(contents', contents)
      BY <3>4, <3>5, <3>6, ClusterWrite
    <3> QED BY <3>1, <3>7
  <2>2. CASE ~(n > 0)
    <3>1. contents' = contents /\ fat' = fat /\ format' = format
      BY <1>3, <2>2 DEF disk
    <3> QED BY <1>4, <3>1, KeepsItself
  <2> QED BY <2>1, <2>2
<1>14. Core(contents', fat, RootCluster, h, lapse')
  BY <1>8, <1>13, CoreLapse
<1>15. FileCur(contents', fat, RootCluster, h, lapse', o)
  <2>1. ~DirHead(contents', RootCluster, op.start)
    BY <1>6, <1>13, KeepsDirHead
  <2> QED BY <1>6, <1>8, <1>12, <2>1 DEF FileCur, LastOf
<1>16. Kinds(pc', o)
  BY <1>3, <1>10, <1>11, <1>12 DEF Kinds
<1>17. OpOK(pc', o, contents', fat, RootCluster, h, lapse')
  <2>1. pc' \in {"more", "size"}
    BY <1>3
  <2>2. Cur(contents', fat, RootCluster, h, lapse', o)
    BY <1>12, <1>15 DEF Cur
  <2> QED BY <1>12, <1>16, <2>1, <2>2 DEF OpOK
<1>18. Owners(contents', lapse', pc', o.at)
  <2>1. Owners(contents', lapse, pc, op.at)
    BY <1>4, <1>13, KeepsOwners
  <2>2. pc # "erase"
    BY <1>3
  <2> QED BY <1>8, <2>1, <2>2, OwnersLapse
<1>19. Good(contents', fat', RootCluster, h, pc', op', lapse')
  BY <1>3, <1>13, <1>14, <1>17, <1>18 DEF Good
<1> QED BY <1>0, <1>3, <1>8, <1>13, <1>19, Settles DEF Counters

(***************************************************************************)
(* What Return leaves: the disk, and lapses.                               *)
(***************************************************************************)
LEMMA Returns ==
  ASSUME Counters, format' = format, NEW M, M \subseteq Lapse, Return(M),
         NEW h, Core(contents', fat', RootCluster, h, lapse),
         NEW p, NEW at, Owners(contents', lapse, p, at), p # "erase"
  PROVE  FatInv'
<1>1. pc' = "idle" /\ op' = Idle /\ ops' = ops /\ Lapsed(M)
  BY DEF Return, Go
<1>2. lapse \subseteq lapse' /\ lapse' \subseteq Lapse /\ faults' \in 0 .. MaxFaults
  BY <1>1, LapsedIs
<1>3. Core(contents', fat', RootCluster, h, lapse')
  BY <1>2, CoreLapse
<1>4. Owners(contents', lapse', p, at)
  BY <1>2, OwnersLapse
<1>5. Good(contents', fat', RootCluster, h, "idle", Idle, lapse')
  BY <1>3, <1>4, Rests
<1>6. Good(contents', fat', RootCluster, h, pc', op', lapse')
  BY <1>1, <1>5
<1> QED BY <1>1, <1>2, <1>6, Settles DEF Counters

(***************************************************************************)
(* The size in the directory entry (fat32.cpp:530-536).                    *)
(***************************************************************************)
LEMMA UpdateSizeStep ==
  ASSUME FatInv, UpdateSize
  PROVE  FatInv'
<1>0. Counters
  BY Opens
<1>1. PICK h : Good(contents, fat, RootCluster, h, pc, op, lapse)
  BY Opens
<1>2. PICK x, o, q, E : x = op.at.cl /\ o = op.at.off /\ q = contents[x][o] /\ E = [q EXCEPT !.size = op.size]
  OBVIOUS
<1>3. /\ pc = "size" /\ contents' = [contents EXCEPT ![x] = [contents[x] EXCEPT ![o] = E]]
      /\ fat' = fat /\ format' = format /\ Return({})
  BY <1>2 DEF UpdateSize, Write
<1>4. /\ Core(contents, fat, RootCluster, h, lapse) /\ Owners(contents, lapse, pc, op.at)
      /\ Kinds(pc, op) /\ op \in OpSet
  BY <1>1 DEF Good, OpOK, Kinds
<1>5. x \in Sector /\ op.size \in Nat /\ op.size > 0
  BY <1>2, <1>3, <1>4 DEF OpSet, Kinds
<1>6. o \in 1 .. Width(x) => E \in CellSet /\ E # Free /\ SameEntry(E, contents[x][o])
  <2> SUFFICES ASSUME o \in 1 .. Width(x) PROVE E \in CellSet /\ E # Free /\ SameEntry(E, contents[x][o])
    OBVIOUS
  <2>1. q \in CellSet
    BY <1>2, <1>4, <1>5 DEF Core, Rows
  <2>2. /\ E \in CellSet /\ E.size = op.size /\ E.name = q.name /\ E.tag = q.tag /\ E.start = q.start
    BY <1>2, <1>5, <2>1 DEF CellSet
  <2>3. Free.size = 0
    BY DEF Free
  <2>4. E # Free
    BY <1>5, <2>2, <2>3
  <2> QED BY <1>2, <2>2, <2>4 DEF SameEntry, Live
<1>7. Core(contents', fat, RootCluster, h, lapse) /\ KeepsNames(contents', contents)
  <2>1. Edits(contents', contents, x, o, E) /\ Editable(contents, x, o, E)
    BY <1>3, <1>6 DEF Edits, Editable
  <2> QED BY <1>4, <1>5, <2>1, EditKeeps
<1>8. Owners(contents', lapse, pc, op.at)
  BY <1>4, <1>7, KeepsOwners
<1>9. PICK M : M = {}
  OBVIOUS
<1>10. Return(M) /\ M \subseteq Lapse /\ Core(contents', fat', RootCluster, h, lapse) /\ pc # "erase"
  BY <1>3, <1>7, <1>9
<1> QED BY <1>0, <1>3, <1>8, <1>10, Returns

(***************************************************************************)
(* The old entry of a moved file is erased (fat32.cpp:984-985): whatever   *)
(* two entries had in common with it, they no longer have.                 *)
(***************************************************************************)
LEMMA EraseOldStep ==
  ASSUME FatInv, EraseOld
  PROVE  FatInv'
<1>0. Counters
  BY Opens
<1>1. PICK h : Good(contents, fat, RootCluster, h, pc, op, lapse)
  BY Opens
<1>2. PICK x, o : x = op.at.cl /\ o = op.at.off
  OBVIOUS
<1>3. /\ pc = "erase" /\ contents' = [contents EXCEPT ![x] = [contents[x] EXCEPT ![o] = Gone]]
      /\ fat' = fat /\ format' = format /\ Return({})
  BY <1>2 DEF EraseOld, Write
<1>4. /\ Core(contents, fat, RootCluster, h, lapse) /\ Owners(contents, lapse, pc, op.at)
      /\ op \in OpSet
  BY <1>1 DEF Good, OpOK, Kinds
<1>5. x \in Sector
  BY <1>2, <1>4 DEF OpSet
<1>6. Gone \in CellSet /\ Gone # Free /\ ~Live(Gone)
  BY DeadCells
<1>7. PICK E : E = Gone
  OBVIOUS
<1>8. o \in 1 .. Width(x) => E \in CellSet /\ E # Free /\ SameEntry(E, contents[x][o])
  BY <1>6, <1>7 DEF SameEntry
<1>9. /\ Core(contents', fat, RootCluster, h, lapse) /\ KeepsNames(contents', contents)
      /\ Holds(contents', x, o, E)
  <2>1. Edits(contents', contents, x, o, E) /\ Editable(contents, x, o, E)
    BY <1>3, <1>7, <1>8 DEF Edits, Editable
  <2> QED BY <1>4, <1>5, <2>1, EditKeeps
<1>10. ~Named(contents', x, o)
  BY <1>6, <1>7, <1>9 DEF Named, Holds
<1>11. Owners(contents', lapse, pc, op.at)
  BY <1>4, <1>9, KeepsOwners
<1>12. Owners(contents', lapse, "idle", op.at)
  <2> SUFFICES ASSUME NEW c, NEW i, NEW d, NEW j, Named(contents', c, i), Named(contents', d, j),
                      contents'[c][i].start = contents'[d][j].start
               PROVE  /\ contents'[c][i].tag = contents'[d][j].tag
                      /\ Excused(lapse, "idle", op.at, c, i, d, j)
    BY DEF Owners
  <2>1. contents'[c][i].tag = contents'[d][j].tag /\ Excused(lapse, pc, op.at, c, i, d, j)
    BY <1>11 DEF Owners
  <2>2. ~At(op.at, c, i) /\ ~At(op.at, d, j)
    BY <1>2, <1>10 DEF At
  <2> QED BY <2>1, <2>2 DEF Excused
<1>13. PICK M, p : M = {} /\ p = "idle"
  OBVIOUS
<1>14. /\ Return(M) /\ M \subseteq Lapse /\ Core(contents', fat', RootCluster, h, lapse)
       /\ Owners(contents', lapse, p, op.at) /\ p # "erase"
  BY <1>3, <1>9, <1>12, <1>13
<1> QED BY <1>0, <1>3, <1>14, Returns

(***************************************************************************)
(* A rename within a directory changes the name of an entry and nothing    *)
(* else (fat32.cpp:969-975).                                               *)
(***************************************************************************)
LEMMA RenameInPlaceStep ==
  ASSUME FatInv, RenameInPlace
  PROVE  FatInv'
<1>0. Counters
  BY Opens
<1>1. PICK h : Good(contents, fat, RootCluster, h, pc, op, lapse)
  BY Opens
<1>2. PICK x, o, q, E : x = op.at.cl /\ o = op.at.off /\ q = contents[x][o] /\ E = [q EXCEPT !.name = op.name]
  OBVIOUS
<1>3. /\ pc = "rename" /\ contents' = [contents EXCEPT ![x] = [contents[x] EXCEPT ![o] = E]]
      /\ fat' = fat /\ format' = format /\ Return({})
  BY <1>2 DEF RenameInPlace, Write
<1>4. /\ Core(contents, fat, RootCluster, h, lapse) /\ Owners(contents, lapse, pc, op.at)
      /\ OpOK(pc, op, contents, fat, RootCluster, h, lapse) /\ Kinds(pc, op)
  BY <1>1 DEF Good, OpOK
<1>5. Named(contents, x, o) /\ h[x] = op.dir /\ NameFree(contents, h, lapse, op)
  BY <1>2, <1>3, <1>4 DEF OpOK, Kinds, Making
<1>6. x \in Sector /\ o \in 1 .. Width(x) /\ Live(q) /\ q.name \in Name
  BY <1>2, <1>5 DEF Named
<1>7. q \in CellSet
  BY <1>2, <1>4, <1>6 DEF Core, Rows
<1>8. /\ E \in CellSet /\ E.name = op.name /\ E.tag = q.tag /\ E.start = q.start /\ op.name \in Name
  <2>1. op.name \in Name
    BY <1>5 DEF NameFree
  <2> QED BY <1>2, <1>7, <2>1 DEF CellSet
<1>9. Live(E) /\ E # Free
  <2>1. Live(E)
    BY <1>6, <1>8 DEF Live
  <2> QED BY <2>1, DeadCells
<1>10. Placed(contents, fat, RootCluster, h, lapse, x, o, E)
  <2>1. x \in Cluster => fat[x] # 0
    BY <1>4, <1>5 DEF Core, Inhabited
  <2>2. \A j \in 1 .. o : contents[x][j] # Free
    BY <1>2, <1>4, <1>6 DEF Core, NoGap, GapFree
  <2>3. Begins(fat, RootCluster, q.start) /\ h[q.start] = q.start
    BY <1>2, <1>4, <1>5 DEF Core, Starts, NamesHeads
  <2>4. q.tag = "dir" => DirHead(contents, RootCluster, q.start)
    BY <1>2, <1>5 DEF DirHead
  <2>5. q.tag = "dir" => \A c \in Cluster : fat[c] \in Cluster /\ h[c] = q.start => NoFree(contents, c)
    BY <1>4, <2>4 DEF Core, DirsFull
  <2>6. Told(lapse) => Absent(contents, h, h[x], op.name)
    BY <1>5 DEF NameFree
  <2> QED BY <1>6, <1>8, <1>9, <2>1, <2>2, <2>3, <2>5, <2>6 DEF Placed
<1>11. WrittenCell(contents', contents, x, o, E)
  <2>1. Edits(contents', contents, x, o, E) /\ Rows(contents)
    BY <1>3, <1>4 DEF Edits, Core
  <2> QED BY <1>6, <1>8, <2>1, CellWrite
<1>12. Core(contents', fat, RootCluster, h, lapse)
  BY <1>4, <1>10, <1>11, CellCore
<1>13. ASSUME NEW c, NEW i, Named(contents', c, i)
       PROVE  /\ Named(contents, c, i) /\ contents'[c][i].start = contents[c][i].start
              /\ contents'[c][i].tag = contents[c][i].tag
  <2>1. CASE c = x /\ i = o
    BY <1>2, <1>5, <1>8, <1>11, <2>1 DEF WrittenCell
  <2>2. CASE ~(c = x /\ i = o)
    <3>1. c \in Sector /\ i \in 1 .. Width(c)
      BY <1>13 DEF Named
    <3>2. contents'[c][i] = contents[c][i]
      BY <1>11, <2>2, <3>1 DEF WrittenCell
    <3> QED BY <1>13, <3>2 DEF Named
  <2> QED BY <2>1, <2>2
<1>14. Owners(contents', lapse, pc, op.at)
  <2> SUFFICES ASSUME NEW c, NEW i, NEW d, NEW j, Named(contents', c, i), Named(contents', d, j),
                      contents'[c][i].start = contents'[d][j].start
               PROVE  /\ contents'[c][i].tag = contents'[d][j].tag
                      /\ Excused(lapse, pc, op.at, c, i, d, j)
    BY DEF Owners
  <2>1. /\ Named(contents, c, i) /\ contents'[c][i].start = contents[c][i].start
        /\ contents'[c][i].tag = contents[c][i].tag
    BY <1>13
  <2>2. /\ Named(contents, d, j) /\ contents'[d][j].start = contents[d][j].start
        /\ contents'[d][j].tag = contents[d][j].tag
    BY <1>13
  <2>3. contents[c][i].start = contents[d][j].start
    BY <2>1, <2>2
  <2>4. contents[c][i].tag = contents[d][j].tag /\ Excused(lapse, pc, op.at, c, i, d, j)
    BY <1>4, <2>1, <2>2, <2>3 DEF Owners
  <2> QED BY <2>1, <2>2, <2>4
<1>15. PICK M : M = {}
  OBVIOUS
<1>16. Return(M) /\ M \subseteq Lapse /\ Core(contents', fat', RootCluster, h, lapse) /\ pc # "erase"
  BY <1>3, <1>12, <1>15
<1> QED BY <1>0, <1>3, <1>14, <1>16, Returns

(***************************************************************************)
(* Where AddEntry writes: the first unused cell, in a cluster of the       *)
(* directory (fat32.cpp:402-420, fat16.cpp:465-480).                       *)
(***************************************************************************)
RoomIn(d, h, x, o) ==
  /\ x \in Sector /\ h[x] = d /\ (x \in Cluster => fat[x] # 0)
  /\ o \in 1 .. Width(x) /\ contents[x][o] \in {Free, Gone}
  /\ \A j \in 1 .. o : j # o => contents[x][j] # Free

(***************************************************************************)
(* The place AddEntry chooses is such a place.                             *)
(***************************************************************************)
LEMMA RoomAt ==
  ASSUME NEW r, NEW h, NEW L, Core(contents, fat, r, h, L), NEW d, DirAt(fat, h, d), HasRoom(d),
         NEW c, c = Chain(d), NEW x, x = c[Min({i \in DOMAIN c : OnDisk(c[i]) /\ Unused(c[i]) # {}})],
         NEW o, o = Min(Unused(x))
  PROVE  RoomIn(d, h, x, o)
<1> DEFINE T == {i \in DOMAIN c : OnDisk(c[i]) /\ Unused(c[i]) # {}}
<1>1. PICK n \in Nat : DirChain(c, d, n, h)
  BY DirectoryChain DEF Core
<1>2. DOMAIN c = 1 .. n
  BY <1>1 DEF DirChain
<1>3. T \subseteq Nat
  BY <1>2
<1>4. T # {}
  BY DEF HasRoom, Range
<1>5. Min(T) \in T
  <2> HIDE DEF T
  <2> QED BY <1>3, <1>4, MinIs
<1>6. x \in Sector /\ h[x] = d /\ (x \in Cluster => fat[x] # 0) /\ Unused(x) # {}
  BY <1>1, <1>2, <1>5 DEF DirChain
<1>7. DOMAIN contents[x] = 1 .. Width(x) /\ Width(x) \in Nat
  BY <1>6, Constants DEF Core, Rows, Width
<1>8. Unused(x) \subseteq Nat
  <2>1. Unused(x) \subseteq 1 .. Width(x)
    BY <1>7 DEF Unused
  <2>2. 1 .. Width(x) \subseteq Nat
    BY <1>7
  <2> QED BY <2>1, <2>2
<1>9. o \in Unused(x) /\ \A j \in Unused(x) : o <= j
  BY <1>6, <1>8, MinIs
<1>10. o \in 1 .. Width(x) /\ contents[x][o] \in {Free, Gone}
  BY <1>7, <1>9 DEF Unused
<1>11. ASSUME NEW j \in 1 .. o, j # o PROVE contents[x][j] # Free
  <2>1. j \in 1 .. Width(x) /\ ~(o <= j)
    BY <1>7, <1>10, <1>11
  <2>2. j \notin Unused(x)
    BY <1>9, <2>1
  <2> QED BY <1>7, <2>1, <2>2 DEF Unused
<1> QED BY <1>6, <1>10, <1>11 DEF RoomIn

(***************************************************************************)
(* The entry AddEntry writes (fat32.cpp:408-418, 490, 871, 983).           *)
(***************************************************************************)
EntryFor(E, o) ==
  /\ E \in CellSet /\ E # Free /\ Live(E) /\ E.name = o.name /\ E.start = o.start
  /\ E.tag = IF o.kind = "mkdir" THEN "dir" ELSE "file"

(***************************************************************************)
(* A directory entry for Mkdir, a file entry for the others.               *)
(***************************************************************************)
LEMMA NewEntryIs ==
  ASSUME op \in OpSet, op.name \in Name
  PROVE  EntryFor(NewEntry, op)
<1>1. op.start \in Cluster \cup {0} /\ op.size \in Nat
  BY DEF OpSet
<1>2. op.name \in Name \cup {"", ".", ".."}
  OBVIOUS
<1>3. CASE op.kind = "mkdir"
  <2>1. PICK E : E = Dir(op.name, op.start)
    OBVIOUS
  <2>2. E \in CellSet /\ Live(E) /\ E # Free /\ E.name = op.name /\ E.start = op.start /\ E.tag = "dir"
    BY <1>1, <1>2, <2>1, DirCells
  <2>3. NewEntry = E
    BY <1>3, <2>1 DEF NewEntry
  <2> QED BY <1>3, <2>2, <2>3 DEF EntryFor
<1>4. CASE op.kind # "mkdir"
  <2>1. PICK z : z = IF op.kind = "create" /\ op.dir = Root16 THEN 0 ELSE op.size
    OBVIOUS
  <2>2. z \in Nat
    BY <1>1, <2>1
  <2>3. PICK E : E = File(op.name, op.start, z)
    OBVIOUS
  <2>4. E \in CellSet /\ Live(E) /\ E # Free /\ E.name = op.name /\ E.start = op.start /\ E.tag = "file"
    <3>1. PICK m, s : m = op.name /\ s = op.start
      OBVIOUS
    <3>2. m \in Name \cup {"", ".", ".."} /\ s \in Cluster \cup {0} /\ E = File(m, s, z)
      BY <1>1, <1>2, <2>3, <3>1
    <3>3. E \in CellSet /\ E.name = m /\ E.start = s /\ E.tag = "file"
      BY <2>2, <3>2 DEF File, CellSet, Tag
    <3>4. Live(E) /\ E # Free
      BY <3>3, DeadCells DEF Live
    <3> QED BY <3>1, <3>3, <3>4
  <2>5. NewEntry = E
    BY <1>4, <2>1, <2>3 DEF NewEntry
  <2> QED BY <1>4, <2>4, <2>5 DEF EntryFor
<1> QED BY <1>3, <1>4

(***************************************************************************)
(* Who owns the chain of a new entry: nobody did, or, in a move, the old   *)
(* entry does until it is erased (fat32.cpp:983-985).                      *)
(***************************************************************************)
LEMMA NewOwner ==
  ASSUME NEW k, NEW L, NEW p, p # "erase", NEW at, Owners(k, L, p, at), NEW x, NEW o, NEW E, NEW k2,
         WrittenCell(k2, k, x, o, E), NEW q,
         Unnamed(k, E.start) \/ (q = "erase" /\ E.tag = "file" /\ OnlyAt(k, L, E.start, at))
  PROVE  Owners(k2, L, q, at)
<1>1. k2[x][o] = E
  BY DEF WrittenCell
<1>2. ASSUME NEW c, NEW i, Named(k2, c, i), ~(c = x /\ i = o) PROVE Named(k, c, i) /\ k2[c][i] = k[c][i]
  <2>1. c \in Sector /\ i \in 1 .. Width(c)
    BY <1>2 DEF Named
  <2>2. k2[c][i] = k[c][i]
    BY <1>2, <2>1 DEF WrittenCell
  <2> QED BY <1>2, <2>2 DEF Named
<1>3. ASSUME NEW c, NEW i, Named(k2, c, i), ~(c = x /\ i = o), k2[c][i].start = E.start
      PROVE  k2[c][i].tag = E.tag /\ ("half move" \in L \/ (q = "erase" /\ At(at, c, i)))
  <2>1. Named(k, c, i) /\ k[c][i].start = E.start /\ k2[c][i].tag = k[c][i].tag
    BY <1>2, <1>3
  <2>2. q = "erase" /\ E.tag = "file" /\ OnlyAt(k, L, E.start, at)
    BY <2>1 DEF Unnamed
  <2>3. k[c][i].tag = "file" /\ (At(at, c, i) \/ "half move" \in L)
    BY <2>1, <2>2 DEF OnlyAt
  <2> QED BY <2>1, <2>2, <2>3
<1> SUFFICES ASSUME NEW c, NEW i, NEW d, NEW j, Named(k2, c, i), Named(k2, d, j),
                    k2[c][i].start = k2[d][j].start
             PROVE  k2[c][i].tag = k2[d][j].tag /\ Excused(L, q, at, c, i, d, j)
  BY DEF Owners
<1>4. CASE c = x /\ i = o /\ d = x /\ j = o
  BY <1>4 DEF Excused
<1>5. CASE (c = x /\ i = o) /\ ~(d = x /\ j = o)
  <2>1. k2[d][j].start = E.start /\ k2[c][i].tag = E.tag
    BY <1>1, <1>5
  <2>2. k2[d][j].tag = E.tag /\ ("half move" \in L \/ (q = "erase" /\ At(at, d, j)))
    BY <1>3, <1>5, <2>1
  <2> QED BY <2>1, <2>2 DEF Excused
<1>6. CASE ~(c = x /\ i = o) /\ (d = x /\ j = o)
  <2>1. k2[c][i].start = E.start /\ k2[d][j].tag = E.tag
    BY <1>1, <1>6
  <2>2. k2[c][i].tag = E.tag /\ ("half move" \in L \/ (q = "erase" /\ At(at, c, i)))
    BY <1>3, <1>6, <2>1
  <2> QED BY <2>1, <2>2 DEF Excused
<1>7. CASE ~(c = x /\ i = o) /\ ~(d = x /\ j = o)
  <2>1. Named(k, c, i) /\ k2[c][i] = k[c][i]
    BY <1>2, <1>7
  <2>2. Named(k, d, j) /\ k2[d][j] = k[d][j]
    BY <1>2, <1>7
  <2>3. k[c][i].start = k[d][j].start
    BY <2>1, <2>2
  <2>4. k[c][i].tag = k[d][j].tag /\ Excused(L, p, at, c, i, d, j)
    BY <2>1, <2>2, <2>3 DEF Owners
  <2> QED BY <2>1, <2>2, <2>4 DEF Excused
<1> QED BY <1>4, <1>5, <1>6, <1>7

(***************************************************************************)
(* The entry is written last (fat32.cpp:402-420, 490, 871, 983).           *)
(***************************************************************************)
LEMMA AddEntryStep ==
  ASSUME FatInv, AddEntry
  PROVE  FatInv'
<1>0. Counters
  BY Opens
<1>1. PICK h : Good(contents, fat, RootCluster, h, pc, op, lapse)
  BY Opens
<1>2. PICK c : c = Chain(op.dir)
  OBVIOUS
<1>3. PICK x : x = c[Min({i \in DOMAIN c : OnDisk(c[i]) /\ Unused(c[i]) # {}})]
  OBVIOUS
<1>4. PICK o, E : o = Min(Unused(x)) /\ E = NewEntry
  OBVIOUS
<1>5. /\ pc = "entry" /\ HasRoom(op.dir)
      /\ contents' = [contents EXCEPT ![x] = [contents[x] EXCEPT ![o] = E]]
      /\ fat' = fat /\ format' = format
  BY <1>2, <1>3, <1>4 DEF AddEntry, Write
<1>6. /\ op.kind = "create" => Return(IF op.dir = Root16 THEN {"size lost"} ELSE {})
      /\ op.kind = "mkdir" => Go("component", [op EXCEPT !.dir = op.start]) /\ UNCHANGED fine
      /\ op.kind = "rename" => Go("erase", op) /\ UNCHANGED fine
  BY DEF AddEntry
<1>7. /\ Core(contents, fat, RootCluster, h, lapse) /\ Owners(contents, lapse, pc, op.at)
      /\ OpOK(pc, op, contents, fat, RootCluster, h, lapse) /\ Kinds(pc, op) /\ op \in OpSet
  BY <1>1 DEF Good, OpOK, Kinds
<1>8. /\ op.kind \in {"create", "mkdir", "rename"} /\ DirAt(fat, h, op.dir)
      /\ NameFree(contents, h, lapse, op) /\ Own(contents, fat, RootCluster, h, lapse, op)
  BY <1>5, <1>7 DEF OpOK, Kinds, Making
<1>9. RoomIn(op.dir, h, x, o)
  BY <1>2, <1>3, <1>4, <1>5, <1>7, <1>8, RoomAt
<1>10. EntryFor(E, op)
  <2>1. op.name \in Name
    BY <1>8 DEF NameFree
  <2> QED BY <1>4, <1>7, <2>1, NewEntryIs
<1>11. /\ E \in CellSet /\ E # Free /\ Live(E) /\ E.name = op.name /\ E.start = op.start
       /\ E.tag = IF op.kind = "mkdir" THEN "dir" ELSE "file"
  BY <1>10 DEF EntryFor
<1>12. x \in Sector /\ o \in 1 .. Width(x) /\ h[x] = op.dir
  BY <1>9 DEF RoomIn
<1>13. Placed(contents, fat, RootCluster, h, lapse, x, o, E)
  <2>1. (x \in Cluster => fat[x] # 0) /\ \A j \in 1 .. o : j # o => contents[x][j] # Free
    BY <1>9 DEF RoomIn
  <2>2. E.name \in Name /\ (Told(lapse) => Absent(contents, h, h[x], E.name))
    BY <1>8, <1>11, <1>12 DEF NameFree
  <2>3. Begins(fat, RootCluster, E.start) /\ h[E.start] = E.start
    BY <1>8, <1>11 DEF Own
  <2>4. E.tag = "dir" => \A d \in Cluster : fat[d] \in Cluster /\ h[d] = E.start => NoFree(contents, d)
    <3>1. EOC \notin Cluster
      BY Constants DEF EOC
    <3>2. E.tag = "dir" => fat[E.start] = EOC /\ \A d \in Cluster : h[d] = E.start => d = E.start
      BY <1>8, <1>11 DEF Own
    <3> QED BY <3>1, <3>2
  <2> QED BY <1>11, <1>12, <2>1, <2>2, <2>3, <2>4 DEF Placed
<1>14. WrittenCell(contents', contents, x, o, E)
  <2>1. Edits(contents', contents, x, o, E) /\ Rows(contents)
    BY <1>5, <1>7 DEF Edits, Core
  <2> QED BY <1>11, <1>12, <2>1, CellWrite
<1>15. Core(contents', fat, RootCluster, h, lapse)
  BY <1>7, <1>13, <1>14, CellCore
<1>16. pc # "erase"
  BY <1>5
<1>17. CASE op.kind = "create"
  <2>1. Unnamed(contents, E.start)
    BY <1>8, <1>11, <1>17 DEF Own
  <2>2. Owners(contents', lapse, "entry", op.at)
    BY <1>7, <1>14, <1>16, <2>1, NewOwner
  <2>3. PICK M, p : M = (IF op.dir = Root16 THEN {"size lost"} ELSE {}) /\ p = "entry"
    OBVIOUS
  <2>4. Return(M)
    BY <1>6, <1>17, <2>3
  <2>5. M \subseteq Lapse /\ p # "erase" /\ Owners(contents', lapse, p, op.at)
    BY <2>2, <2>3 DEF Lapse
  <2>6. Core(contents', fat', RootCluster, h, lapse)
    BY <1>5, <1>15
  <2> QED BY <1>0, <1>5, <2>4, <2>5, <2>6, Returns
<1>18. CASE op.kind = "mkdir"
  <2>1. Unnamed(contents, E.start)
    BY <1>8, <1>11, <1>18 DEF Own
  <2>2. Owners(contents', lapse, "component", op.at)
    BY <1>7, <1>14, <1>16, <2>1, NewOwner
  <2>3. PICK u : u = [op EXCEPT !.dir = op.start]
    OBVIOUS
  <2>4. pc' = "component" /\ op' = u /\ ops' = ops /\ faults' = faults /\ lapse' = lapse
    BY <1>6, <1>18, <2>3 DEF Go, fine
  <2>5. u \in OpSet /\ u.kind = "mkdir" /\ u.dir = op.start /\ u.at = op.at
    BY <1>7, <1>18, <2>3 DEF OpSet
  <2>6. DirAt(fat, h, u.dir)
    BY <1>8, <2>5 DEF Own, Begins, DirAt
  <2>7. Kinds("component", u)
    BY <2>5 DEF Kinds
  <2>8. OpOK("component", u, contents', fat, RootCluster, h, lapse)
    BY <2>6, <2>7 DEF OpOK, Making
  <2>9. Good(contents', fat', RootCluster, h, pc', op', lapse')
    BY <1>5, <1>15, <2>2, <2>4, <2>5, <2>8 DEF Good
  <2> QED BY <1>0, <1>5, <2>4, <2>9, Settles DEF Counters
<1>19. CASE op.kind = "rename"
  <2>1. OnlyAt(contents, lapse, E.start, op.at) /\ E.tag = "file"
    BY <1>8, <1>11, <1>19 DEF Own
  <2>2. Owners(contents', lapse, "erase", op.at)
    BY <1>7, <1>14, <1>16, <2>1, NewOwner
  <2>3. pc' = "erase" /\ op' = op /\ ops' = ops /\ faults' = faults /\ lapse' = lapse
    BY <1>6, <1>19 DEF Go, fine
  <2>4. Kinds("erase", op)
    BY <1>7, <1>19 DEF Kinds
  <2>5. OpOK("erase", op, contents', fat, RootCluster, h, lapse)
    BY <2>4 DEF OpOK, Making
  <2>6. Good(contents', fat', RootCluster, h, pc', op', lapse')
    BY <1>5, <1>15, <2>2, <2>3, <2>5 DEF Good
  <2> QED BY <1>0, <1>5, <2>3, <2>6, Settles DEF Counters
<1> QED BY <1>8, <1>17, <1>18, <1>19

(***************************************************************************)
(* A directory is extended where its chain ends, or where a read error     *)
(* made it seem to end; its clusters are full up to there                  *)
(* (fat32.cpp:421-429).                                                    *)
(***************************************************************************)
LEMMA ExtendDirectoryStep ==
  ASSUME FatInv, ExtendDirectory
  PROVE  FatInv'
<1>0. Counters
  BY Opens
<1>1. PICK h : Good(contents, fat, RootCluster, h, pc, op, lapse)
  BY Opens
<1>2. PICK c : c = Chain(op.dir)
  OBVIOUS
<1>3. PICK k \in DOMAIN c : /\ \A j \in 1 .. k : OnDisk(c[j]) /\ Unused(c[j]) = {}
                            /\ Go("more", [op EXCEPT !.cur = c[k]])
                            /\ Lapsed(IF k < Len(c) THEN {"read error"} ELSE {})
  BY <1>2 DEF ExtendDirectory
<1>4. PICK o, M : o = [op EXCEPT !.cur = c[k]] /\ M = IF k < Len(c) THEN {"read error"} ELSE {}
  OBVIOUS
<1>5. /\ pc = "entry" /\ op.dir # 0 /\ contents' = contents /\ fat' = fat /\ format' = format
      /\ pc' = "more" /\ op' = o /\ ops' = ops /\ Lapsed(M)
  BY <1>3, <1>4 DEF ExtendDirectory, Go, disk, Root16
<1>6. /\ Core(contents, fat, RootCluster, h, lapse) /\ Owners(contents, lapse, pc, op.at)
      /\ OpOK(pc, op, contents, fat, RootCluster, h, lapse) /\ Kinds(pc, op) /\ op \in OpSet
  BY <1>1 DEF Good, OpOK, Kinds
<1>7. /\ op.kind \in {"create", "mkdir", "rename"} /\ DirAt(fat, h, op.dir)
      /\ (op.kind = "create" => op.len = 0)
      /\ NameFree(contents, h, lapse, op) /\ Own(contents, fat, RootCluster, h, lapse, op)
  BY <1>5, <1>6 DEF OpOK, Kinds, Making
<1>8. M \subseteq Lapse
  BY <1>4 DEF Lapse
<1>9. lapse \subseteq lapse' /\ lapse' \subseteq Lapse /\ M \subseteq lapse' /\ faults' \in 0 .. MaxFaults
  BY <1>0, <1>5, <1>8, LapsedIs
<1>10. op.dir \in Cluster /\ fat[op.dir] # 0 /\ h[op.dir] = op.dir
  BY <1>5, <1>7 DEF DirAt
<1>11. PICK n \in Nat : ChainOf(c, op.dir, n, h)
  BY <1>2, <1>6, <1>10, ChainSound DEF Core
<1>12. /\ k \in 1 .. n /\ Len(c) = n /\ c[k] \in Cluster /\ h[c[k]] = op.dir /\ fat[c[k]] # 0
       /\ fat[c[n]] \notin Cluster
  BY <1>3, <1>10, <1>11 DEF ChainOf
<1>13. "read error" \notin lapse' => k = n
  <2>1. "read error" \notin lapse' => ~(k < n)
    BY <1>4, <1>9, <1>12
  <2>2. n \in Nat /\ k \in 1 .. n
    BY <1>11, <1>12
  <2>3. ~(k < n) => k = n
    BY <2>2
  <2> QED BY <2>1, <2>3
<1>14. LastOf(fat, lapse', c[k])
  BY <1>12, <1>13 DEF LastOf
<1>15. NoFree(contents, c[k])
  <2> SUFFICES ASSUME c[k] \in Sector, NEW i \in 1 .. Width(c[k]) PROVE contents[c[k]][i] # Free
    BY DEF NoFree
  <2>1. DOMAIN contents[c[k]] = 1 .. Width(c[k])
    BY <1>6 DEF Core, Rows
  <2>2. Unused(c[k]) = {}
    <3>1. n \in Nat /\ k \in 1 .. n
      BY <1>11, <1>12
    <3>2. k \in 1 .. k
      BY <3>1
    <3> QED BY <1>3, <3>2
  <2> QED BY <2>1, <2>2 DEF Unused
<1>16. /\ o \in OpSet /\ Same(o, op) /\ o.kind = op.kind /\ o.dir = op.dir /\ o.cur = c[k] /\ o.len = op.len
  BY <1>4, <1>6, <1>12 DEF OpSet, Same
<1>17. NameFree(contents, h, lapse', o)
  BY <1>7, <1>9, <1>16, KeepsItself, KeepsNameFree
<1>18. Own(contents, fat, RootCluster, h, lapse', o)
  BY <1>7, <1>9, <1>16, KeepsItself, KeepsOwn
<1>19. Cur(contents, fat, RootCluster, h, lapse', o)
  BY <1>7, <1>12, <1>14, <1>15, <1>16 DEF Cur, DirCur
<1>20. Kinds("more", o)
  BY <1>7, <1>16 DEF Kinds
<1>21. OpOK("more", o, contents, fat, RootCluster, h, lapse')
  BY <1>7, <1>16, <1>17, <1>18, <1>19, <1>20 DEF OpOK
<1>22. Owners(contents, lapse', "more", o.at)
  <2>1. pc # "erase"
    BY <1>5
  <2> QED BY <1>6, <1>9, <2>1, OwnersLapse
<1>23. Core(contents, fat, RootCluster, h, lapse')
  BY <1>6, <1>9, CoreLapse
<1>24. Good(contents', fat', RootCluster, h, pc', op', lapse')
  BY <1>5, <1>21, <1>22, <1>23 DEF Good
<1> QED BY <1>0, <1>5, <1>9, <1>24, Settles DEF Counters

------------------------------------------------------------------------------
(***************************************************************************)
(* An operation starts with what its lookups found (fat32.cpp:436-462,     *)
(* 915-967); the disk is not touched yet.                                  *)
(***************************************************************************)
LEMMA BeginStep ==
  ASSUME Counters, NEW h, Good(contents, fat, RootCluster, h, pc, op, lapse),
         NEW step, NEW o, NEW M, M \subseteq Lapse, Begin(step, o, M),
         OpOK(step, o, contents, fat, RootCluster, h, lapse')
  PROVE  FatInv'
<1>1. /\ pc = "idle" /\ ops < MaxOps /\ ops' = ops + 1 /\ pc' = step /\ op' = o /\ Lapsed(M)
      /\ contents' = contents /\ fat' = fat /\ format' = format
  BY DEF Begin, disk
<1>2. lapse \subseteq lapse' /\ lapse' \subseteq Lapse /\ faults' \in 0 .. MaxFaults
  BY <1>1, LapsedIs
<1>3. ops' \in 0 .. MaxOps
  <2>1. ops \in 0 .. MaxOps /\ MaxOps \in Nat
    BY FatAssumptions DEF Counters
  <2> QED BY <1>1, <2>1
<1>4. Core(contents, fat, RootCluster, h, lapse) /\ Owners(contents, lapse, pc, op.at) /\ pc # "erase"
  BY <1>1 DEF Good
<1>5. Core(contents, fat, RootCluster, h, lapse')
  BY <1>2, <1>4, CoreLapse
<1>6. Owners(contents, lapse', step, o.at)
  BY <1>2, <1>4, OwnersLapse
<1>7. Good(contents', fat', RootCluster, h, pc', op', lapse')
  BY <1>1, <1>5, <1>6 DEF Good
<1> QED BY <1>1, <1>2, <1>3, <1>7, Settles DEF Counters

(***************************************************************************)
(* A path has a last component, a name.                                    *)
(***************************************************************************)
LEMMA PathIs ==
  ASSUME NEW path \in Path
  PROVE  path \in Seq(Name) /\ path # <<>> /\ Last(path) \in Name
<1>1. path \in Seq(Name) /\ path # <<>>
  BY FatAssumptions
<1>2. Last(path) = path[Len(path)]
  BY DEF Last
<1>3. Len(path) \in Nat /\ Len(path) # 0
  BY <1>1
<1>4. Len(path) \in 1 .. Len(path)
  BY <1>3
<1>5. path[Len(path)] \in Name
  BY <1>1, <1>4
<1> QED BY <1>1, <1>2, <1>5

(***************************************************************************)
(* What lookups add to the lapses are lapses.                              *)
(***************************************************************************)
LEMMA LapsesAre ==
  ASSUME NEW d, NEW m, NEW path
  PROVE  /\ Missed(d, m) \subseteq Lapse /\ Doubled(d, m) \subseteq Lapse
         /\ ThroughFile(path) \subseteq Lapse
BY DEF Missed, Doubled, ThroughFile, Lapse

(***************************************************************************)
(* What an entry holds of a name is a name, and holds all of itself.       *)
(***************************************************************************)
LEMMA ShortIs ==
  ASSUME NEW m \in Name
  PROVE  Short[m] \in Name /\ Short[Short[m]] = Short[m]
BY FatAssumptions

(***************************************************************************)
(* When a name was not found, what an entry would hold of it is not there, *)
(* unless a read failed or the name is too long (fat32.cpp:850, 967).      *)
(***************************************************************************)
LEMMA MissedIs ==
  ASSUME NEW r, NEW h, NEW L, Core(contents, fat, r, h, L), NEW d, DirAt(fat, h, d), NEW m \in Name,
         NEW M, L \subseteq M, Missed(d, m) \subseteq M, Doubled(d, m) \subseteq M
  PROVE  Told(M) => Absent(contents, h, d, Short[m])
<1> SUFFICES ASSUME Told(M) PROVE Absent(contents, h, d, Short[m])
  OBVIOUS
<1>1. FindShortEntry(d, m) = Nowhere
  BY DEF Missed, Told
<1>2. FindShortEntry(d, Short[m]) = Nowhere
  <2>1. CASE Short[m] = m
    BY <1>1, <2>1
  <2>2. CASE Short[m] # m
    BY <2>2 DEF Doubled, Told
  <2> QED BY <2>1, <2>2
<1>3. "read error" \notin L
  BY DEF Told
<1>4. PICK s \in Name : s = Short[m]
  BY ShortIs
<1> QED BY <1>2, <1>3, <1>4, Finds

(***************************************************************************)
(* WriteFile of a new name (fat32.cpp:458-466).                            *)
(***************************************************************************)
LEMMA CreateFileStep ==
  ASSUME FatInv, NEW path \in Path, NEW len \in Length, CreateFile(path, len)
  PROVE  FatInv'
<1>0. Counters
  BY Opens
<1>1. PICK h : Good(contents, fat, RootCluster, h, pc, op, lapse)
  BY Opens
<1>2. PICK d, m, M, b : /\ d = ParentDir(path) /\ m = Short[Last(path)]
                        /\ M = Missed(d, m) \cup ThroughFile(path) /\ b = (M = {})
  OBVIOUS
<1>3. PICK o : o = [Idle EXCEPT !.kind = "create", !.dir = d, !.name = m, !.asked = len,
                                !.sound = b, !.len = len, !.size = len]
  OBVIOUS
<1>4. d >= 0 /\ Begin("first", o, M)
  BY <1>2, <1>3 DEF CreateFile
<1>5. M \subseteq Lapse
  BY <1>2, LapsesAre
<1>6. Core(contents, fat, RootCluster, h, lapse)
  BY <1>1 DEF Good
<1>7. DirAt(fat, h, d)
  BY <1>2, <1>4, <1>6, ParentAt
<1>8. m \in Name /\ Short[m] = m
  BY <1>2, PathIs, ShortIs
<1>9. lapse \subseteq lapse' /\ M \subseteq lapse'
  BY <1>0, <1>4, <1>5, LapsedIs DEF Begin
<1>10. Told(lapse') => Absent(contents, h, d, m)
  <2>1. Missed(d, m) \subseteq lapse' /\ Doubled(d, m) \subseteq lapse'
    BY <1>2, <1>8, <1>9 DEF Doubled
  <2> QED BY <1>6, <1>7, <1>8, <1>9, <2>1, MissedIs
<1>11. len \in Nat /\ b \in BOOLEAN
  BY <1>2, FatAssumptions
<1>12. o \in OpSet /\ o.kind = "create" /\ o.dir = d /\ o.name = m
  <2>1. d \in Cluster \cup {0}
    BY <1>7 DEF DirAt
  <2> QED BY <1>3, <1>8, <1>11, <2>1, IdleIs DEF OpSet
<1>13. NameFree(contents, h, lapse', o)
  BY <1>8, <1>10, <1>12 DEF NameFree
<1>14. Kinds("first", o)
  BY <1>12 DEF Kinds
<1>15. OpOK("first", o, contents, fat, RootCluster, h, lapse')
  BY <1>7, <1>12, <1>13, <1>14 DEF OpOK
<1> QED BY <1>0, <1>1, <1>4, <1>5, <1>15, BeginStep

(***************************************************************************)
(* WriteFile of a file that exists: it writes to a cluster of that file's  *)
(* chain, the last one unless a read failed (fat32.cpp:493-501).           *)
(***************************************************************************)
LEMMA AppendFileStep ==
  ASSUME FatInv, NEW path \in Path, NEW len \in Length, AppendFile(path, len)
  PROVE  FatInv'
<1>0. Counters
  BY Opens
<1>1. PICK h : Good(contents, fat, RootCluster, h, pc, op, lapse)
  BY Opens
<1> DEFINE Started(d, at, e, c) ==
             /\ d >= 0 /\ at # Nowhere /\ e.tag = "file"
             /\ \E last \in Range(c) :
                  Begin("append",
                        [Idle EXCEPT !.kind = "append", !.dir = d, !.name = e.name, !.asked = len,
                                     !.sound = ((IF last # Last(c) THEN {"read error"} ELSE {})
                                                  \cup ThroughFile(path)) = {} /\ Whole(e),
                                     !.len = len,
                                     !.start = e.start, !.size = e.size, !.cur = last, !.at = at],
                        (IF last # Last(c) THEN {"read error"} ELSE {}) \cup ThroughFile(path))
<1>s. Started(ParentDir(path), FindShortEntry(ParentDir(path), Short[Last(path)]),
              Cell(FindShortEntry(ParentDir(path), Short[Last(path)])),
              Chain(Cell(FindShortEntry(ParentDir(path), Short[Last(path)])).start))
  BY Zenon DEF AppendFile
<1> HIDE DEF Started
<1>2. PICK d, m, at, e, c :
         /\ d = ParentDir(path) /\ m = Short[Last(path)] /\ at = FindShortEntry(d, m) /\ e = Cell(at)
         /\ c = Chain(e.start)
  OBVIOUS
<1> DEFINE Wrong(last) == (IF last # Last(c) THEN {"read error"} ELSE {}) \cup ThroughFile(path)
           Found(last) ==
             [Idle EXCEPT !.kind = "append", !.dir = d, !.name = e.name, !.asked = len,
                          !.sound = Wrong(last) = {} /\ Whole(e), !.len = len,
                          !.start = e.start, !.size = e.size, !.cur = last, !.at = at]
<1>3. /\ d >= 0 /\ at # Nowhere /\ e.tag = "file"
      /\ \E last \in Range(c) : Begin("append", Found(last), Wrong(last))
  <2>1. Started(d, at, e, c)
    BY <1>2, <1>s
  <2> QED BY <2>1, Zenon DEF Started
<1>4. PICK last \in Range(c) : Begin("append", Found(last), Wrong(last))
  BY <1>3
<1>5. PICK o, M, b :
        /\ b = (Wrong(last) = {} /\ Whole(e)) /\ b \in BOOLEAN
        /\ o = [Idle EXCEPT !.kind = "append", !.dir = d, !.name = e.name, !.asked = len,
                            !.sound = b, !.len = len,
                            !.start = e.start, !.size = e.size, !.cur = last, !.at = at]
        /\ o = Found(last) /\ M = Wrong(last)
  OBVIOUS
<1>6. Begin("append", o, M)
  BY <1>4, <1>5
<1> HIDE DEF Found
<1>7. M \subseteq Lapse /\ (last # Last(c) => "read error" \in M)
  <2>1. {"read error"} \subseteq Lapse
    BY DEF Lapse
  <2> QED BY <1>5, <2>1, LapsesAre
<1>8. Core(contents, fat, RootCluster, h, lapse) /\ Owners(contents, lapse, pc, op.at)
  BY <1>1 DEF Good
<1>9. DirAt(fat, h, d)
  BY <1>2, <1>3, <1>8, ParentAt
<1>10. m \in Name
  BY <1>2, PathIs, ShortIs
<1>11. FoundAt(at, d, m, h)
  BY <1>2, <1>3, <1>8, <1>9, <1>10, Finds
<1>12. /\ at \in [cl : Sector, off : Nat] /\ Named(contents, at.cl, at.off) /\ e = contents[at.cl][at.off]
       /\ e.name \in Name
  BY <1>2, <1>11 DEF FoundAt, Cell, Named
<1>13. e \in CellSet
  BY <1>8, <1>12 DEF Core, Rows, Named
<1>14. PICK s : s = e.start
  OBVIOUS
<1>15. Begins(fat, RootCluster, s) /\ h[s] = s
  BY <1>8, <1>12, <1>14 DEF Core, Starts, NamesHeads
<1>16. s \in Cluster /\ fat[s] # 0 /\ s # RootCluster
  BY <1>15 DEF Begins
<1>17. PICK n \in Nat : ChainOf(c, s, n, h)
  BY <1>2, <1>8, <1>14, <1>16, ChainSound DEF Core
<1>18. /\ DOMAIN c = 1 .. n /\ Len(c) = n /\ n >= 1 /\ fat[c[n]] \notin Cluster
       /\ \A k \in 1 .. n : c[k] \in Cluster /\ h[c[k]] = s /\ fat[c[k]] # 0
  BY <1>15, <1>17 DEF ChainOf
<1>19. last \in Cluster /\ h[last] = s /\ fat[last] # 0
  <2>1. PICK k \in DOMAIN c : last = c[k]
    BY DEF Range
  <2> QED BY <1>18, <2>1
<1>20. lapse \subseteq lapse' /\ M \subseteq lapse'
  BY <1>0, <1>6, <1>7, LapsedIs DEF Begin
<1>21. LastOf(fat, lapse', last)
  <2>1. "read error" \notin lapse' => last = c[n]
    BY <1>7, <1>18, <1>20 DEF Last
  <2> QED BY <1>18, <1>19, <2>1 DEF LastOf
<1>22. ~DirHead(contents, RootCluster, s)
  <2> SUFFICES ASSUME NEW x, NEW i, Named(contents, x, i), contents[x][i].tag = "dir", contents[x][i].start = s
               PROVE  FALSE
    BY <1>16 DEF DirHead
  <2>1. PICK y, j : y = at.cl /\ j = at.off
    OBVIOUS
  <2>2. Named(contents, y, j) /\ contents[y][j].start = contents[x][i].start /\ contents[y][j].tag = "file"
    BY <1>3, <1>12, <1>14, <2>1
  <2>3. \A v, p, w, q : Named(contents, v, p) /\ Named(contents, w, q)
                          /\ contents[v][p].start = contents[w][q].start
                          => contents[v][p].tag = contents[w][q].tag
    <3>1. Owners(contents, lapse, pc, op.at)
      BY <1>8
    <3> QED BY <3>1 DEF Owners
  <2>4. contents[x][i].tag = contents[y][j].tag
    <3>1. Named(contents, x, i) /\ Named(contents, y, j) /\ contents[x][i].start = contents[y][j].start
      BY <2>2
    <3> QED BY <2>3, <3>1
  <2> QED BY <2>2, <2>4
<1>23. len \in Nat /\ len > 0
  <2>1. len \in Nat \ {0}
    BY FatAssumptions
  <2> QED BY <2>1
<1>24. /\ o \in OpSet /\ o.kind = "append" /\ o.start = s /\ o.cur = last /\ o.len = len
  <2>1. d \in Cluster \cup {0} /\ e.size \in Nat /\ e.start \in Cluster \cup {0}
    BY <1>9, <1>13 DEF DirAt, CellSet
  <2>2. /\ b \in BOOLEAN
        /\ o = [Idle EXCEPT !.kind = "append", !.dir = d, !.name = e.name, !.asked = len,
                            !.sound = b, !.len = len,
                            !.start = e.start, !.size = e.size, !.cur = last, !.at = at]
    BY <1>5
  <2> HIDE DEF Wrong
  <2> QED BY <2>2, <1>12, <1>14, <1>19, <1>23, <2>1, IdleIs DEF OpSet
<1>25. Kinds("append", o)
  BY <1>23, <1>24 DEF Kinds
<1>26. FileCur(contents, fat, RootCluster, h, lapse', o)
  BY <1>19, <1>21, <1>22, <1>24 DEF FileCur
<1>27. OpOK("append", o, contents, fat, RootCluster, h, lapse')
  BY <1>24, <1>25, <1>26 DEF OpOK, Making
<1> QED BY <1>0, <1>1, <1>6, <1>7, <1>27, BeginStep

(***************************************************************************)
(* Rename: the source is an entry, the destination's name is free, and in  *)
(* a move the source is a file, whose only entry it is                     *)
(* (fat32.cpp:915-967).                                                    *)
(***************************************************************************)
LEMMA RenameStep ==
  ASSUME FatInv, NEW src \in Path, NEW dst \in Path, Rename(src, dst)
  PROVE  FatInv'
<1>0. Counters
  BY Opens
<1>1. PICK h : Good(contents, fat, RootCluster, h, pc, op, lapse)
  BY Opens
<1>2. PICK from, to, m, at, e :
         /\ from = ParentDir(src) /\ to = ParentDir(dst) /\ m = Short[Last(dst)]
         /\ at = FindShortEntry(from, Short[Last(src)]) /\ e = Cell(at)
  OBVIOUS
<1>3. PICK step, o, M :
        /\ step = IF from = to THEN "rename" ELSE "entry"
        /\ o = [Idle EXCEPT !.kind = "rename", !.dir = to, !.name = m,
                            !.start = e.start, !.size = e.size, !.at = at]
        /\ M = Missed(to, Last(dst)) \cup Doubled(to, Last(dst)) \cup ThroughFile(src) \cup ThroughFile(dst)
  OBVIOUS
<1>4. /\ from >= 0 /\ to >= 0 /\ at # Nowhere /\ (from # to => e.tag = "file")
      /\ Begin(step, o, M)
  BY <1>2, <1>3 DEF Rename
<1>5. M \subseteq Lapse
  BY <1>3, LapsesAre
<1>6. Core(contents, fat, RootCluster, h, lapse) /\ Owners(contents, lapse, pc, op.at) /\ pc = "idle"
  BY <1>1, <1>4 DEF Good, Begin
<1>7. DirAt(fat, h, from) /\ DirAt(fat, h, to)
  BY <1>2, <1>4, <1>6, ParentAt
<1>8. Last(dst) \in Name /\ m \in Name /\ Short[Last(src)] \in Name
  BY <1>2, PathIs, ShortIs
<1>9. FoundAt(at, from, Short[Last(src)], h)
  BY <1>2, <1>4, <1>6, <1>7, <1>8, Finds
<1>10. /\ at \in [cl : Sector, off : Nat] /\ Named(contents, at.cl, at.off) /\ h[at.cl] = from
       /\ e = contents[at.cl][at.off]
  BY <1>2, <1>9 DEF FoundAt, Cell
<1>11. e \in CellSet
  BY <1>6, <1>10 DEF Core, Rows, Named
<1>12. lapse \subseteq lapse' /\ M \subseteq lapse'
  BY <1>0, <1>4, <1>5, LapsedIs DEF Begin
<1>13. Told(lapse') => Absent(contents, h, to, m)
  <2>1. Missed(to, Last(dst)) \subseteq lapse' /\ Doubled(to, Last(dst)) \subseteq lapse'
    BY <1>3, <1>12
  <2> QED BY <1>2, <1>6, <1>7, <1>8, <1>12, <2>1, MissedIs
<1>14. /\ o \in OpSet /\ o.kind = "rename" /\ o.dir = to /\ o.name = m /\ o.start = e.start /\ o.at = at
  <2>1. to \in Cluster \cup {0} /\ e.size \in Nat /\ e.start \in Cluster \cup {0}
    BY <1>7, <1>11 DEF DirAt, CellSet
  <2> QED BY <1>3, <1>8, <1>10, <2>1, IdleIs DEF OpSet
<1>15. NameFree(contents, h, lapse', o)
  BY <1>8, <1>13, <1>14 DEF NameFree
<1>16. Kinds(step, o)
  BY <1>3, <1>14 DEF Kinds
<1>17. CASE from = to
  <2>1. OpOK("rename", o, contents, fat, RootCluster, h, lapse')
    BY <1>3, <1>7, <1>10, <1>14, <1>15, <1>16, <1>17 DEF OpOK
  <2>2. step = "rename"
    BY <1>3, <1>17
  <2> QED BY <1>0, <1>1, <1>4, <1>5, <2>1, <2>2, BeginStep
<1>18. CASE from # to
  <2>1. Begins(fat, RootCluster, e.start) /\ h[e.start] = e.start
    BY <1>6, <1>10 DEF Core, Starts, NamesHeads
  <2>2. OnlyAt(contents, lapse', e.start, at)
    <3> SUFFICES ASSUME NEW x, NEW i, Named(contents, x, i), contents[x][i].start = e.start
                 PROVE  contents[x][i].tag = "file" /\ (At(at, x, i) \/ "half move" \in lapse')
      BY DEF OnlyAt
    <3>1. PICK y, j : y = at.cl /\ j = at.off
      OBVIOUS
    <3>2. Named(contents, y, j) /\ contents[y][j].start = contents[x][i].start /\ contents[y][j].tag = "file"
      BY <1>4, <1>10, <1>18, <3>1
    <3>3. contents[x][i].tag = contents[y][j].tag /\ Excused(lapse, pc, op.at, x, i, y, j)
      BY <1>6, <3>2 DEF Owners
    <3> QED BY <1>6, <1>12, <3>1, <3>2, <3>3 DEF Excused, At
  <2>3. Own(contents, fat, RootCluster, h, lapse', o)
    BY <1>14, <2>1, <2>2 DEF Own
  <2>4. step = "entry"
    BY <1>3, <1>18
  <2>5. OpOK("entry", o, contents, fat, RootCluster, h, lapse')
    BY <1>7, <1>14, <1>15, <1>16, <2>3, <2>4 DEF OpOK
  <2> QED BY <1>0, <1>1, <1>4, <1>5, <2>4, <2>5, BeginStep
<1> QED BY <1>17, <1>18

(***************************************************************************)
(* Mkdir starts at the root (fat32.cpp:831-849).                           *)
(***************************************************************************)
LEMMA MkdirStep ==
  ASSUME FatInv, NEW path \in Path, NEW parents \in BOOLEAN, Mkdir(path, parents)
  PROVE  FatInv'
<1>0. Counters
  BY Opens
<1>1. PICK h : Good(contents, fat, RootCluster, h, pc, op, lapse)
  BY Opens
<1>2. PICK o, M : /\ o = [Idle EXCEPT !.kind = "mkdir", !.path = path, !.parents = parents,
                                      !.dir = RootCluster]
                  /\ M = {}
  OBVIOUS
<1>3. Begin("component", o, M) /\ M \subseteq Lapse
  BY <1>2 DEF Mkdir
<1>4. DirAt(fat, h, RootCluster)
  BY <1>1, RootAt DEF Good, Core
<1>5. o \in OpSet /\ o.kind = "mkdir" /\ o.dir = RootCluster
  <2>1. path \in Seq(Name)
    BY PathIs
  <2> QED BY <1>2, <2>1, IdleIs, RootIs DEF OpSet
<1>6. Kinds("component", o)
  BY <1>5 DEF Kinds
<1>7. OpOK("component", o, contents, fat, RootCluster, h, lapse')
  BY <1>4, <1>5, <1>6 DEF OpOK, Making
<1> QED BY <1>0, <1>1, <1>3, <1>7, BeginStep

(***************************************************************************)
(* What is left of a path.                                                 *)
(***************************************************************************)
LEMMA PathStep ==
  ASSUME op \in OpSet, op.path # <<>>
  PROVE  Head(op.path) \in Name /\ Tail(op.path) \in Seq(Name)
<1>1. PICK path : path = op.path
  OBVIOUS
<1>2. path \in Seq(Name) /\ path # <<>>
  BY <1>1 DEF OpSet
<1>3. Head(path) \in Name /\ Tail(path) \in Seq(Name)
  BY <1>2
<1> QED BY <1>1, <1>3

(***************************************************************************)
(* A component that exists leads on to where it starts (fat32.cpp:850-853).*)
(***************************************************************************)
LEMMA MkdirDescendStep ==
  ASSUME FatInv, MkdirDescend
  PROVE  FatInv'
<1>0. Counters
  BY Opens
<1>1. PICK h : Good(contents, fat, RootCluster, h, pc, op, lapse)
  BY Opens
<1>2. PICK p, e, t : p = FindShortEntry(op.dir, Head(op.path)) /\ e = Cell(p) /\ t = Tail(op.path)
  OBVIOUS
<1>3. PICK o, M : /\ o = [op EXCEPT !.path = t, !.dir = e.start]
                  /\ M = IF e.tag = "file" THEN {"file as directory"} ELSE {}
  OBVIOUS
<1>4. /\ pc = "component" /\ op.path # <<>> /\ p # Nowhere /\ pc' = "component" /\ op' = o /\ ops' = ops
      /\ Lapsed(M) /\ contents' = contents /\ fat' = fat /\ format' = format
  BY <1>2, <1>3 DEF MkdirDescend, Go, disk, Enters
<1>5. /\ Core(contents, fat, RootCluster, h, lapse) /\ Owners(contents, lapse, pc, op.at)
      /\ OpOK(pc, op, contents, fat, RootCluster, h, lapse) /\ Kinds(pc, op) /\ op \in OpSet
  BY <1>1 DEF Good, OpOK, Kinds
<1>6. op.kind = "mkdir" /\ DirAt(fat, h, op.dir)
  BY <1>4, <1>5 DEF OpOK, Kinds
<1>7. Head(op.path) \in Name /\ t \in Seq(Name)
  BY <1>2, <1>4, <1>5, PathStep
<1>8. FoundAt(p, op.dir, Head(op.path), h)
  BY <1>2, <1>4, <1>5, <1>6, <1>7, Finds
<1>9. Named(contents, p.cl, p.off) /\ e = contents[p.cl][p.off]
  BY <1>2, <1>8 DEF FoundAt, Cell
<1>10. DirAt(fat, h, e.start)
  BY <1>5, <1>9, NamedAt
<1>11. M \subseteq Lapse
  BY <1>3 DEF Lapse
<1>12. lapse \subseteq lapse' /\ lapse' \subseteq Lapse /\ faults' \in 0 .. MaxFaults
  BY <1>0, <1>4, <1>11, LapsedIs
<1>13. o \in OpSet /\ o.kind = "mkdir" /\ o.dir = e.start
  <2>1. e.start \in Cluster \cup {0}
    BY <1>10 DEF DirAt
  <2> QED BY <1>3, <1>5, <1>6, <1>7, <2>1 DEF OpSet
<1>14. Kinds("component", o)
  BY <1>13 DEF Kinds
<1>15. OpOK("component", o, contents, fat, RootCluster, h, lapse')
  BY <1>10, <1>13, <1>14 DEF OpOK, Making
<1>16. Core(contents, fat, RootCluster, h, lapse')
  BY <1>5, <1>12, CoreLapse
<1>17. Owners(contents, lapse', "component", o.at)
  <2>1. pc # "erase"
    BY <1>4
  <2> QED BY <1>5, <1>12, <2>1, OwnersLapse
<1>18. Good(contents', fat', RootCluster, h, pc', op', lapse')
  BY <1>4, <1>15, <1>16, <1>17 DEF Good
<1> QED BY <1>0, <1>4, <1>12, <1>18, Settles DEF Counters

(***************************************************************************)
(* A component that was not found is made (fat32.cpp:854-866).             *)
(***************************************************************************)
LEMMA MkdirMissingStep ==
  ASSUME FatInv, MkdirMissing
  PROVE  FatInv'
<1>0. Counters
  BY Opens
<1>1. PICK h : Good(contents, fat, RootCluster, h, pc, op, lapse)
  BY Opens
<1>2. PICK m, t, o : m = Head(op.path) /\ t = Tail(op.path) /\ o = [op EXCEPT !.path = t, !.name = Short[m]]
  OBVIOUS
<1>3. PICK M : M = Missed(op.dir, m) \cup Doubled(op.dir, m)
  OBVIOUS
<1>4. /\ pc = "component" /\ op.path # <<>> /\ pc' = "first" /\ op' = o /\ ops' = ops
      /\ Lapsed(M) /\ contents' = contents /\ fat' = fat /\ format' = format
  BY <1>2, <1>3 DEF MkdirMissing, Go, disk
<1>5. /\ Core(contents, fat, RootCluster, h, lapse) /\ Owners(contents, lapse, pc, op.at)
      /\ OpOK(pc, op, contents, fat, RootCluster, h, lapse) /\ Kinds(pc, op) /\ op \in OpSet
  BY <1>1 DEF Good, OpOK, Kinds
<1>6. op.kind = "mkdir" /\ DirAt(fat, h, op.dir)
  BY <1>4, <1>5 DEF OpOK, Kinds
<1>7. m \in Name /\ t \in Seq(Name) /\ Short[m] \in Name
  BY <1>2, <1>4, <1>5, PathStep, ShortIs
<1>8. M \subseteq Lapse
  BY <1>3, LapsesAre
<1>9. lapse \subseteq lapse' /\ lapse' \subseteq Lapse /\ M \subseteq lapse' /\ faults' \in 0 .. MaxFaults
  BY <1>0, <1>4, <1>8, LapsedIs
<1>10. Told(lapse') => Absent(contents, h, op.dir, Short[m])
  BY <1>3, <1>5, <1>6, <1>7, <1>9, MissedIs
<1>11. o \in OpSet /\ o.kind = "mkdir" /\ o.dir = op.dir /\ o.name = Short[m]
  BY <1>2, <1>5, <1>6, <1>7 DEF OpSet
<1>12. NameFree(contents, h, lapse', o)
  BY <1>7, <1>10, <1>11 DEF NameFree
<1>13. Kinds("first", o)
  BY <1>11 DEF Kinds
<1>14. OpOK("first", o, contents, fat, RootCluster, h, lapse')
  BY <1>6, <1>11, <1>12, <1>13 DEF OpOK
<1>15. Core(contents, fat, RootCluster, h, lapse')
  BY <1>5, <1>9, CoreLapse
<1>16. Owners(contents, lapse', "first", o.at)
  <2>1. pc # "erase"
    BY <1>4
  <2> QED BY <1>5, <1>9, <2>1, OwnersLapse
<1>17. Good(contents', fat', RootCluster, h, pc', op', lapse')
  BY <1>4, <1>14, <1>15, <1>16 DEF Good
<1> QED BY <1>0, <1>4, <1>9, <1>17, Settles DEF Counters

------------------------------------------------------------------------------
(***************************************************************************)
(* The disk image of the build: the root holds one directory.              *)
(***************************************************************************)
Image(d) ==
  /\ d \in Cluster /\ d \in Sector /\ RootCluster \in Sector /\ d # RootCluster
  /\ (RootCluster = 0 /\ d = 2) \/ (RootCluster = 2 /\ d = 3)
  /\ fat = [c \in Cluster |-> IF c = RootCluster \/ c = d THEN EOC ELSE 0]
  /\ contents[d] = DirCluster(d, RootCluster)
  /\ contents[RootCluster] = [[i \in 1 .. Width(RootCluster) |-> Free] EXCEPT ![1] = Dir(ImageDir, d)]
  /\ \A c \in Sector : c # d /\ c # RootCluster => contents[c] = [i \in 1 .. Width(c) |-> Free]
  /\ DOMAIN contents = Sector /\ contents = [c \in Sector |-> contents[c]]

(***************************************************************************)
(* The initial state is that image (fat32.cpp:129-244).                    *)
(***************************************************************************)
LEMMA ImageIs ==
  ASSUME Init
  PROVE  \E d : Image(d)
<1> DEFINE cells(c) == [i \in 1 .. (IF c = Root16 THEN RootCells ELSE Cells) |-> Free]
<1>1. PICK d : d = IF format = "FAT32" THEN 3 ELSE 2
  OBVIOUS
<1>2. PICK r : r = RootCluster
  OBVIOUS
<1>3. (r = 0 /\ d = 2) \/ (r = 2 /\ d = 3)
  BY <1>1, <1>2 DEF RootCluster, Root16
<1>4. 2 \in Cluster /\ 3 \in Cluster /\ 0 \in Sector /\ 2 \in Sector /\ 3 \in Sector
  BY Constants DEF Sector, Root16
<1>5. fat = [c \in Cluster |-> IF c \in {r, d} THEN EOC ELSE 0]
  BY <1>1, <1>2 DEF Init
<1>6. contents = [c \in Sector |->
                    IF c = d THEN DirCluster(d, r)
                    ELSE IF c = r THEN [cells(c) EXCEPT ![1] = Dir(ImageDir, d)]
                    ELSE cells(c)]
  BY <1>1, <1>2 DEF Init, Sector
<1>7. \A c : cells(c) = [i \in 1 .. Width(c) |-> Free]
  BY DEF Width
<1> HIDE DEF cells
<1>8. fat = [c \in Cluster |-> IF c = r \/ c = d THEN EOC ELSE 0]
  BY <1>5
<1>9. d \in Sector /\ r \in Sector /\ d \in Cluster /\ d # r
  BY <1>3, <1>4
<1>10. contents[d] = DirCluster(d, r)
  BY <1>6, <1>9
<1>11. contents[r] = [cells(r) EXCEPT ![1] = Dir(ImageDir, d)]
  BY <1>6, <1>9
<1>12. contents[r] = [[i \in 1 .. Width(r) |-> Free] EXCEPT ![1] = Dir(ImageDir, d)]
  BY <1>7, <1>11
<1>13. \A c \in Sector : c # d /\ c # r => contents[c] = cells(c)
  BY <1>6
<1>14. \A c \in Sector : c # d /\ c # r => contents[c] = [i \in 1 .. Width(c) |-> Free]
  BY <1>7, <1>13
<1>15. DOMAIN contents = Sector /\ contents = [c \in Sector |-> contents[c]]
  BY <1>6
<1>16. Image(d)
  BY <1>2, <1>3, <1>8, <1>9, <1>10, <1>12, <1>14, <1>15, Zenon DEF Image
<1> QED BY <1>16

(***************************************************************************)
(* The rows of the image, and the only entry in them.                      *)
(***************************************************************************)
LEMMA ImageRows ==
  ASSUME NEW d, Image(d)
  PROVE  /\ Rows(contents) /\ NoGap(contents)
         /\ \A c, i : Named(contents, c, i) => c = RootCluster /\ i = 1 /\ contents[c][i].start = d
<1>1. PICK r : r = RootCluster
  OBVIOUS
<1>2. /\ d \in Cluster /\ d \in Sector /\ r \in Sector /\ d # r
      /\ contents[d] = DirCluster(d, r)
      /\ contents[r] = [[i \in 1 .. Width(r) |-> Free] EXCEPT ![1] = Dir(ImageDir, d)]
      /\ \A c \in Sector : c # d /\ c # r => contents[c] = [i \in 1 .. Width(c) |-> Free]
      /\ contents = [c \in Sector |-> contents[c]]
  BY <1>1 DEF Image
<1>3. \A c \in Sector : Width(c) \in Nat /\ Width(c) >= 1
  BY Constants DEF Width
<1>4. Width(d) = Cells
  BY <1>2, Constants
<1>5. r \in Cluster \cup {0}
  BY <1>1, RootIs
<1>6. contents[d] \in [1 .. Width(d) -> CellSet] /\ GapFree(contents[d], Width(d)) /\ NoNames(contents[d])
  BY <1>2, <1>4, <1>5, DirRow
<1>7. PICK E : E = Dir(ImageDir, d)
  OBVIOUS
<1>8. E \in CellSet /\ E # Free /\ E.start = d
  <2>1. ImageDir \in Name \cup {"", ".", ".."}
    BY FatAssumptions
  <2> QED BY <1>2, <1>7, <2>1, DirCells
<1>9. /\ DOMAIN contents[r] = 1 .. Width(r) /\ contents[r][1] = E
      /\ \A i \in 1 .. Width(r) : i # 1 => contents[r][i] = Free
  BY <1>2, <1>3, <1>7
<1>10. contents[r] \in [1 .. Width(r) -> CellSet]
  <2>1. \A i \in 1 .. Width(r) : contents[r][i] \in CellSet
    BY <1>8, <1>9, DeadCells
  <2> QED BY <1>2, <2>1
<1>11. GapFree(contents[r], Width(r))
  <2> SUFFICES ASSUME NEW i \in 1 .. Width(r), Live(contents[r][i]), NEW j \in 1 .. i
               PROVE  contents[r][j] # Free
    BY DEF GapFree
  <2>1. i = 1
    BY <1>9, DeadCells
  <2>2. j = 1
    BY <2>1
  <2> QED BY <1>8, <1>9, <2>2
<1>12. ASSUME NEW c \in Sector, c # d, c # r
       PROVE  /\ contents[c] \in [1 .. Width(c) -> CellSet] /\ GapFree(contents[c], Width(c))
              /\ \A i \in 1 .. Width(c) : ~Live(contents[c][i])
  <2>1. contents[c] = [i \in 1 .. Width(c) |-> Free]
    BY <1>2, <1>12
  <2>2. \A i \in 1 .. Width(c) : contents[c][i] = Free
    BY <2>1
  <2>3. contents[c] \in [1 .. Width(c) -> CellSet]
    BY <2>1, DeadCells
  <2> QED BY <2>2, <2>3, DeadCells DEF GapFree
<1>13. ASSUME NEW c \in Sector PROVE contents[c] \in [1 .. Width(c) -> CellSet] /\ GapFree(contents[c], Width(c))
  BY <1>6, <1>10, <1>11, <1>12
<1>14. Rows(contents)
  <2>1. \A c \in Sector : contents[c] \in Row
    BY <1>13 DEF Row, Width
  <2>2. contents \in [Sector -> Row]
    BY <1>2, <2>1
  <2> QED BY <1>13, <2>2 DEF Rows
<1>15. NoGap(contents)
  BY <1>13 DEF NoGap
<1>16. ASSUME NEW c, NEW i, Named(contents, c, i) PROVE c = r /\ i = 1 /\ contents[c][i].start = d
  <2>1. c \in Sector /\ i \in 1 .. Width(c) /\ Live(contents[c][i]) /\ contents[c][i].name \in Name
    BY <1>16 DEF Named
  <2>2. c # d
    BY <1>4, <1>6, <2>1 DEF NoNames
  <2>3. c = r
    BY <1>12, <2>1, <2>2
  <2>4. i = 1
    BY <1>9, <2>1, <2>3, DeadCells
  <2> QED BY <1>8, <1>9, <2>3, <2>4
<1> QED BY <1>1, <1>14, <1>15, <1>16

(***************************************************************************)
(* The image has the invariant, each cluster being its own head.           *)
(***************************************************************************)
LEMMA InitGood ==
  ASSUME Init
  PROVE  FatInv
<1>1. PICK d : Image(d)
  BY ImageIs
<1>2. PICK r, h : r = RootCluster /\ h = [c \in Cluster \cup {0} |-> c]
  OBVIOUS
<1>3. /\ d \in Cluster /\ d # r /\ r \in Cluster \cup {0}
      /\ (r = 0 /\ d = 2) \/ (r = 2 /\ d = 3)
      /\ fat = [c \in Cluster |-> IF c = r \/ c = d THEN EOC ELSE 0]
  BY <1>1, <1>2, RootIs DEF Image
<1>4. EOC = 1 /\ 1 \notin Cluster /\ 0 \notin Cluster /\ \A c \in Cluster : c \in Nat /\ c >= 2
  BY Constants DEF EOC
<1>5. /\ Rows(contents) /\ NoGap(contents)
      /\ \A c, i : Named(contents, c, i) => c = r /\ i = 1 /\ contents[c][i].start = d
  BY <1>1, <1>2, ImageRows
<1>6. /\ \A c \in Cluster : fat[c] = IF c = r \/ c = d THEN 1 ELSE 0
      /\ fat \in [Cluster -> Cluster \cup {0, EOC}]
  BY <1>3, <1>4
<1>7. \A c \in Cluster : fat[c] \notin Cluster
  BY <1>4, <1>6
<1>8. Links(fat, r)
  <2>1. ASSUME NEW c \in Cluster, NEW e \in Cluster, c < e, fat[c] = 0 PROVE fat[e] = 0
    <3> SUFFICES ASSUME fat[e] # 0 PROVE FALSE
      OBVIOUS
    <3>1. e = r \/ e = d
      BY <1>6
    <3>2. c \in Nat /\ c >= 2
      BY <1>4
    <3>3. c = r
      BY <1>3, <2>1, <3>1, <3>2
    <3> QED BY <1>6, <2>1, <3>3
  <2>2. r \in Cluster => fat[r] # 0
    BY <1>6
  <2> QED BY <1>6, <1>7, <2>1, <2>2 DEF Links
<1>9. Begins(fat, r, d)
  <2>1. Unlinked(fat, d)
    BY <1>3, <1>7 DEF Unlinked
  <2>2. fat[d] # 0
    BY <1>3, <1>6
  <2> QED BY <1>3, <2>1, <2>2 DEF Begins
<1>10. \A c \in Cluster \cup {0} : h[c] = c
  BY <1>2
<1>11. Heads(fat, r, h)
  <2>1. h \in [Cluster \cup {0} -> Cluster \cup {0}]
    BY <1>2
  <2> QED BY <1>3, <1>4, <1>7, <1>10, <2>1 DEF Heads
<1>12. Starts(contents, fat, r) /\ NamesHeads(contents, h)
  BY <1>3, <1>5, <1>9, <1>10 DEF Starts, NamesHeads
<1>13. DirsFull(contents, fat, r, h)
  BY <1>7 DEF DirsFull
<1>14. Inhabited(contents, fat)
  BY <1>5, <1>6 DEF Inhabited
<1>15. Attached(fat, h) /\ UniqueNames(contents, h)
  BY <1>5, <1>10 DEF Attached, UniqueNames
<1>16. Core(contents, fat, r, h, lapse)
  BY <1>5, <1>8, <1>11, <1>12, <1>13, <1>14, <1>15 DEF Core
<1>17. Owners(contents, lapse, "idle", Idle.at)
  <2> SUFFICES ASSUME NEW c, NEW i, NEW e, NEW j, Named(contents, c, i), Named(contents, e, j)
               PROVE  contents[c][i].tag = contents[e][j].tag /\ Excused(lapse, "idle", Idle.at, c, i, e, j)
    BY DEF Owners
  <2>1. c = e /\ i = j
    BY <1>5
  <2> QED BY <2>1 DEF Excused
<1>18. Good(contents, fat, r, h, "idle", Idle, lapse)
  BY <1>16, <1>17, Rests
<1>19. pc = "idle" /\ op = Idle /\ ops = 0 /\ faults = 0 /\ lapse = {} /\ format \in Format
  BY DEF Init
<1>20. ops \in 0 .. MaxOps /\ faults \in 0 .. MaxFaults /\ lapse \subseteq Lapse
  <2>1. MaxOps \in Nat /\ MaxFaults \in Nat
    BY FatAssumptions
  <2> QED BY <1>19, <2>1
<1> QED BY <1>2, <1>18, <1>19, <1>20 DEF FatInv, Good

(***************************************************************************)
(* A step that changes nothing keeps the invariant.                        *)
(***************************************************************************)
LEMMA StutterStep ==
  ASSUME FatInv, UNCHANGED vars
  PROVE  FatInv'
<1>1. PICK h : Good(contents, fat, RootCluster, h, pc, op, lapse)
  BY Opens
<1>2. /\ contents' = contents /\ fat' = fat /\ format' = format /\ pc' = pc /\ op' = op
      /\ ops' = ops /\ faults' = faults /\ lapse' = lapse
  BY DEF vars
<1>3. Good(contents', fat', RootCluster, h, pc', op', lapse')
  BY <1>1, <1>2
<1>4. Counters'
  BY <1>2, Opens DEF Counters
<1> QED BY <1>2, <1>3, <1>4, Settles

(***************************************************************************)
(* FatInv is an inductive invariant of the specification: every write of   *)
(* every operation (fat32.cpp:300-538, 831-987, fat16.cpp:5-132,           *)
(* 412-651), failed reads, failed writes and power losses included, keeps  *)
(* it.                                                                     *)
(***************************************************************************)
THEOREM FatInvariant == Spec => []FatInv
<1>1. Init => FatInv
  BY InitGood
<1>2. FatInv /\ [Next]_vars => FatInv'
  <2> SUFFICES ASSUME FatInv, [Next]_vars PROVE FatInv'
    OBVIOUS
  <2>1. ASSUME NEW path \in Path, NEW len \in Length, CreateFile(path, len) PROVE FatInv'
    BY <2>1, CreateFileStep
  <2>2. ASSUME NEW path \in Path, NEW len \in Length, AppendFile(path, len) PROVE FatInv'
    BY <2>2, AppendFileStep
  <2>3. ASSUME NEW path \in Path, NEW parents \in BOOLEAN, Mkdir(path, parents) PROVE FatInv'
    BY <2>3, MkdirStep
  <2>4. ASSUME NEW src \in Path, NEW dst \in Path, Rename(src, dst) PROVE FatInv'
    BY <2>4, RenameStep
  <2>5. ASSUME MkdirDescend \/ MkdirMissing \/ MkdirDone PROVE FatInv'
    BY <2>5, MkdirDescendStep, MkdirMissingStep, MkdirDoneStep
  <2>6. ASSUME Allocate \/ StartCluster \/ Fill \/ Link \/ Linked PROVE FatInv'
    BY <2>6, AllocateStep, StartClusterStep, FillStep, LinkStep, LinkedStep
  <2>7. ASSUME AppendFirst \/ UpdateSize \/ AddEntry \/ ExtendDirectory PROVE FatInv'
    BY <2>7, AppendFirstStep, UpdateSizeStep, AddEntryStep, ExtendDirectoryStep
  <2>8. ASSUME RenameInPlace \/ EraseOld \/ Refuse \/ Abort PROVE FatInv'
    BY <2>8, RenameInPlaceStep, EraseOldStep, RefuseStep, AbortStep
  <2>9. CASE UNCHANGED vars
    BY <2>9, StutterStep
  <2>10. CASE Next
    BY <2>1, <2>2, <2>3, <2>4, <2>5, <2>6, <2>7, <2>8, <2>10 DEF Next
  <2> QED BY <2>9, <2>10
<1> QED BY <1>1, <1>2, PTL DEF Spec

(***************************************************************************)
(* The invariant implies the type invariant.                               *)
(***************************************************************************)
LEMMA InvTypes ==
  ASSUME FatInv
  PROVE  TypeOK
<1>1. PICK h : Good(contents, fat, RootCluster, h, pc, op, lapse)
  BY Opens
<1>2. Rows(contents) /\ fat \in [Cluster -> Cluster \cup {0, EOC}] /\ Kinds(pc, op)
  BY <1>1 DEF Good, Core, Links, OpOK
<1>3. ASSUME NEW c \in DOMAIN contents, NEW i \in DOMAIN contents[c]
      PROVE  contents[c][i].tag \in {"free", "gone", "data", "file", "dir"}
  <2>1. c \in Sector
    BY <1>2 DEF Rows
  <2>2. contents[c] \in [1 .. Width(c) -> CellSet]
    BY <1>2, <2>1 DEF Rows
  <2>3. contents[c][i] \in CellSet
    BY <2>2
  <2> QED BY <2>3 DEF CellSet, Tag
<1>4. op.len \in Nat /\ op.size \in Nat
  BY <1>2 DEF Kinds, OpSet
<1> QED BY <1>2, <1>3, <1>4 DEF TypeOK, FatInv, Kinds

(***************************************************************************)
(* Every state has the types of TypeOK.                                    *)
(***************************************************************************)
THEOREM DiskTypesHold == Spec => []TypeOK
<1>1. FatInv => TypeOK
  BY InvTypes
<1> QED BY <1>1, FatInvariant, PTL

(***************************************************************************)
(* Wherever an operation is cut off and whatever read failed, no cluster   *)
(* is in two chains (fat32.cpp:300-322, 422-425, 481-484, 516-519).        *)
(***************************************************************************)
THEOREM ChainsNeverShared == Spec => []NoSharedCluster
<1>1. FatInv => NoSharedCluster
  BY CoreGivesNoSharing DEF FatInv
<1> QED BY <1>1, FatInvariant, PTL

(***************************************************************************)
(* An entry owns its chain, except inside a move and after one that was    *)
(* cut off (fat32.cpp:984-985).                                            *)
(***************************************************************************)
THEOREM ChainsHaveOneEntry == Spec => []OneEntryPerChain
<1>1. FatInv => OneEntryPerChain
  BY OwnersGivesOneEntry DEF FatInv
<1> QED BY <1>1, FatInvariant, PTL

(***************************************************************************)
(* Names are unique as long as every read succeeded, and lookups see every *)
(* entry (fat32.cpp:368-434).                                              *)
(***************************************************************************)
THEOREM DirectoriesStaySound == Spec => []DirectoriesSound
<1>1. FatInv => DirectoriesSound
  BY InvTypes, CoreGivesUniqueNames, CoreHidesNothing DEF FatInv, DirectoriesSound
<1> QED BY <1>1, FatInvariant, PTL
=============================================================================

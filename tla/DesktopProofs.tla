---------------------------- MODULE DesktopProofs ----------------------------
(***************************************************************************)
(* Proofs about WindowTable and Desktop, for any number of windows, any    *)
(* windows of the desktop and any length of the event ring that holds what *)
(* one tick causes.  First what the framework's operations do to the slots *)
(* and to the z-order; then what each leaves of a sound table; last the    *)
(* phases of Tick.                                                         *)
(***************************************************************************)
EXTENDS Desktop, FiniteSetTheorems, WellFoundedInduction, TLAPS

(***************************************************************************)
(* A non-empty set of natural numbers has a smallest element: what the     *)
(* searches of framework.cpp:47-69 and findIndexById stop at.              *)
(***************************************************************************)
LEMMA MinimumExists ==
  ASSUME NEW T, T \subseteq Nat, T # {}
  PROVE  \E m \in T : \A n \in T : m <= n
<1> DEFINE Less == OpToRel(<, Nat)
<1>1. IsWellFoundedOn(Less, Nat)
  BY NatLessThanWellFounded
<1>2. \E x \in T : \A y \in T : ~ (<<y, x>> \in Less)
  <2> HIDE DEF Less
  <2> QED BY <1>1, WFMin
<1>3. PICK x \in T : \A y \in T : ~ (<<y, x>> \in Less)
  BY <1>2
<1>4. Less = {p \in Nat \X Nat : p[1] < p[2]}
  BY DEF OpToRel
<1>5. \A y \in T : x <= y
  <2> HIDE DEF Less
  <2>1. \A y \in T : ~ (y < x)
    BY <1>3, <1>4
  <2> QED BY <2>1
<1>6. QED
  BY <1>5

------------------------------------------------------------------------------
(***************************************************************************)
(* Slots and z-order.                                                      *)
(***************************************************************************)
\* z names each of the slots 1 .. n once.
Perm(z, n) ==
  /\ z \in [1 .. n -> 1 .. n]
  /\ \A k, m \in 1 .. n : z[k] = z[m] => k = m
  /\ \A i \in 1 .. n : \E k \in 1 .. n : z[k] = i

\* Slots are in the order of their ids, which are below next.
Ordered(s, next) ==
  /\ \A i, j \in 1 .. Len(s) : i < j => s[i].id < s[j].id
  /\ \A i \in 1 .. Len(s) : s[i].id < next

\* The types of a table's fields.
Table ==
  [windows : Seq(WindowRecord), zorder : Seq(Nat), nextId : Nat \ {0}, focus : Nat,
   gesture : Gesture, held : Nat, events : 0 .. EventSlots, dropped : BOOLEAN]

HasId(u, x) == \E i \in 1 .. Len(u.windows) : u.windows[i].id = x

\* Window x is drawn before window y.
Drawn(u, x, y) ==
  \E k, m \in 1 .. Len(u.windows) :
    k < m /\ u.windows[u.zorder[k]].id = x /\ u.windows[u.zorder[m]].id = y

\* The inductive part of WindowTableSound: ids are handed out in order.
Sound(u) ==
  /\ u \in Table
  /\ Len(u.windows) <= MaxWindows
  /\ Ordered(u.windows, u.nextId)
  /\ Perm(u.zorder, Len(u.windows))
  /\ u.focus # 0 => HasId(u, u.focus)

\* At most k events are pushed on the way from u to v.
Pushes(u, v, k) ==
  /\ v.events <= u.events + k
  /\ u.events + k <= EventSlots /\ ~u.dropped => ~v.dropped

SameWindow(a, b) == a.id = b.id /\ a.role = b.role /\ a.title = b.title

Rank(u, i) == zRoleRank[u.windows[i].role]

\* No window of u has crossed one of a higher role that is in front of it.
Layered(u, v) ==
  \A i, j \in 1 .. Len(u.windows) :
    /\ Rank(u, i) < Rank(u, j)
    /\ Drawn(u, u.windows[i].id, u.windows[j].id)
    /\ HasId(v, u.windows[i].id) /\ HasId(v, u.windows[j].id)
    => Drawn(v, u.windows[i].id, u.windows[j].id)

\* The windows of v are windows of u or newer than all of them.
Inherits(u, v) ==
  \A j \in 1 .. Len(v.windows) :
    v.windows[j].id < u.nextId =>
      \E i \in 1 .. Len(u.windows) : SameWindow(u.windows[i], v.windows[j])

\* What a call of the framework, or several, may make of a sound table.
Follows(u, v, k) ==
  /\ Sound(v) /\ u.nextId <= v.nextId
  /\ Inherits(u, v) /\ Layered(u, v) /\ Pushes(u, v, k)

\* The same when no window is created.
Keeps(u, v, k) == Follows(u, v, k) /\ v.nextId = u.nextId

(***************************************************************************)
(* RemoveAt is the shift of CloseWindow's loops (framework.cpp:528-530).   *)
(***************************************************************************)
LEMMA RemoveAtShifts ==
  ASSUME NEW S, NEW s \in Seq(S), NEW i \in 1 .. Len(s)
  PROVE  /\ RemoveAt(s, i) \in Seq(S) /\ Len(RemoveAt(s, i)) = Len(s) - 1
         /\ \A k \in 1 .. Len(s) - 1 : RemoveAt(s, i)[k] = IF k < i THEN s[k] ELSE s[k + 1]
<1>1. PICK n \in Nat : n = Len(s) /\ i \in 1 .. n
  OBVIOUS
<1>2. PICK a : a = SubSeq(s, 1, i - 1)
  OBVIOUS
<1>3. PICK b : b = SubSeq(s, i + 1, n)
  OBVIOUS
<1>4. a \in Seq(S) /\ Len(a) = i - 1 /\ \A k \in 1 .. i - 1 : a[k] = s[k]
  BY <1>1, <1>2
<1>5. b \in Seq(S) /\ Len(b) = n - i /\ \A k \in 1 .. n - i : b[k] = s[k + i]
  BY <1>1, <1>3
<1>6. RemoveAt(s, i) = a \o b
  BY <1>1, <1>2, <1>3 DEF RemoveAt
<1>7. a \o b \in Seq(S) /\ Len(a \o b) = n - 1
  BY <1>1, <1>4, <1>5
<1>8. ASSUME NEW k \in 1 .. n - 1
      PROVE  (a \o b)[k] = IF k < i THEN s[k] ELSE s[k + 1]
  <2>1. CASE k < i
    BY <1>1, <1>4, <1>5, <2>1
  <2>2. CASE ~(k < i)
    <3>1. k - (i - 1) \in 1 .. n - i /\ (k - (i - 1)) + i = k + 1
      BY <1>1, <2>2
    <3>2. (a \o b)[k] = b[k - (i - 1)]
      BY <1>1, <1>4, <1>5, <2>2
    <3> QED BY <1>5, <2>2, <3>1, <3>2
  <2> QED BY <2>1, <2>2
<1> QED BY <1>1, <1>6, <1>7, <1>8

\* y is z with entry cur moved forward to position target.
Shifted(y, z, n, cur, target) ==
  \A k \in 1 .. n : y[k] = IF k < cur \/ k > target THEN z[k]
                           ELSE IF k < target THEN z[k + 1] ELSE z[cur]

\* Entries k and m of z are in y, in this order.
StillBefore(y, z, n, k, m) == \E a, b \in 1 .. n : a < b /\ y[a] = z[k] /\ y[b] = z[m]

(***************************************************************************)
(* The shifted z-order still names every slot once.                        *)
(***************************************************************************)
LEMMA ShiftedPerm ==
  ASSUME NEW n \in Nat, NEW z, Perm(z, n), NEW cur \in 1 .. n, NEW target \in cur .. n,
         NEW y \in [1 .. n -> 1 .. n], Shifted(y, z, n, cur, target)
  PROVE  Perm(y, n)
<1> DEFINE from(k) == IF k < cur \/ k > target THEN k ELSE IF k < target THEN k + 1 ELSE cur
           to(k) == IF k < cur \/ k > target THEN k ELSE IF k = cur THEN target ELSE k - 1
<1>1. \A k \in 1 .. n : from(k) \in 1 .. n /\ y[k] = z[from(k)]
  BY SMTT(40) DEF Shifted
<1>2. ASSUME NEW k \in 1 .. n PROVE to(from(k)) = k
  <2>1. CASE k < cur \/ k > target
    BY <2>1
  <2>2. CASE k = target
    BY <2>2
  <2>3. CASE cur <= k /\ k < target
    BY <2>3
  <2> QED BY <2>1, <2>2, <2>3
<1>3. ASSUME NEW k \in 1 .. n PROVE to(k) \in 1 .. n /\ from(to(k)) = k
  <2>1. CASE k < cur \/ k > target
    BY <2>1
  <2>2. CASE k = cur
    BY <2>2
  <2>3. CASE cur < k /\ k <= target
    BY <2>3
  <2> QED BY <2>1, <2>2, <2>3
<1> HIDE DEF from, to
<1>4. ASSUME NEW k \in 1 .. n, NEW m \in 1 .. n, y[k] = y[m] PROVE k = m
  <2>1. from(k) \in 1 .. n /\ from(m) \in 1 .. n /\ z[from(k)] = z[from(m)]
    BY <1>1, <1>4
  <2>2. from(k) = from(m)
    BY <2>1 DEF Perm
  <2> QED BY <1>2, <2>2
<1>5. ASSUME NEW i \in 1 .. n PROVE \E k \in 1 .. n : y[k] = i
  <2>1. PICK k \in 1 .. n : z[k] = i
    BY DEF Perm
  <2> QED BY <1>1, <1>3, <2>1
<1> QED BY <1>4, <1>5 DEF Perm

(***************************************************************************)
(* Only windows of no higher rank are overtaken, so of two windows of      *)
(* different ranks the one behind stays behind when it has the lower rank. *)
(***************************************************************************)
LEMMA ShiftedDrawn ==
  ASSUME NEW n \in Nat, NEW z, Perm(z, n), NEW cur \in 1 .. n, NEW target \in cur .. n,
         NEW y \in [1 .. n -> 1 .. n], Shifted(y, z, n, cur, target),
         NEW k \in 1 .. n, NEW m \in 1 .. n, k < m, k # cur \/ m > target
  PROVE  StillBefore(y, z, n, k, m)
<1> DEFINE to(j) == IF j < cur \/ j > target THEN j ELSE IF j = cur THEN target ELSE j - 1
<1>1. to(k) \in 1 .. n /\ to(m) \in 1 .. n /\ to(k) < to(m)
  <2>1. CASE k < cur \/ k > target
    BY <2>1, SMTT(40)
  <2>2. CASE k = cur
    BY <2>2, SMTT(40)
  <2>3. CASE cur < k /\ k <= target
    BY <2>3
  <2> QED BY <2>1, <2>2, <2>3
<1>2. ASSUME NEW j \in 1 .. n PROVE y[to(j)] = z[j]
  <2>1. CASE j < cur \/ j > target
    BY <2>1 DEF Shifted
  <2>2. CASE j = cur
    BY <2>2 DEF Shifted
  <2>3. CASE cur < j /\ j <= target
    <3>1. to(j) = j - 1 /\ j - 1 \in 1 .. n /\ cur <= j - 1 /\ j - 1 < target /\ (j - 1) + 1 = j
      BY <2>3
    <3> HIDE DEF to
    <3> QED BY <3>1, SMTT(40) DEF Shifted
  <2> QED BY <2>1, <2>2, <2>3
<1> HIDE DEF to
<1> QED BY <1>1, <1>2 DEF StillBefore

------------------------------------------------------------------------------
(***************************************************************************)
(* Sound tables.                                                           *)
(***************************************************************************)
(***************************************************************************)
(* A permutation of the slots is a sequence of them.                       *)
(***************************************************************************)
LEMMA PermIsSequence ==
  ASSUME NEW n \in Nat, NEW z, Perm(z, n)
  PROVE  z \in Seq(Nat) /\ Len(z) = n /\ DOMAIN z = 1 .. n
<1>1. z \in [1 .. n -> Nat]
  BY DEF Perm
<1> QED BY <1>1

(***************************************************************************)
(* A sound table's fields.                                                 *)
(***************************************************************************)
LEMMA SoundFields ==
  ASSUME NEW u, Sound(u)
  PROVE  /\ u.windows \in Seq(WindowRecord) /\ Len(u.windows) \in Nat
         /\ DOMAIN u.windows = 1 .. Len(u.windows)
         /\ \A i \in 1 .. Len(u.windows) : u.windows[i] \in WindowRecord
         /\ u.nextId \in Nat \ {0} /\ u.focus \in Nat /\ u.held \in Nat /\ u.gesture \in Gesture
         /\ u.events \in 0 .. EventSlots /\ u.dropped \in BOOLEAN
<1>1. u \in Table
  BY DEF Sound
<1> QED BY <1>1 DEF Table

(***************************************************************************)
(* The id of a slot is a number above 0, below next, and its own.          *)
(***************************************************************************)
LEMMA SoundIds ==
  ASSUME NEW u, Sound(u)
  PROVE  /\ \A i \in 1 .. Len(u.windows) : u.windows[i].id \in Nat \ {0} /\ u.windows[i].id < u.nextId
         /\ \A i, j \in 1 .. Len(u.windows) : u.windows[i].id = u.windows[j].id => i = j
<1>1. \A i \in 1 .. Len(u.windows) : u.windows[i] \in WindowRecord
  BY SoundFields
<1>2. \A i \in 1 .. Len(u.windows) : u.windows[i].id \in Nat \ {0}
  BY <1>1 DEF WindowRecord
<1>3. Ordered(u.windows, u.nextId)
  BY DEF Sound
<1>4. PICK n \in Nat : n = Len(u.windows)
  BY SoundFields
<1>5. ASSUME NEW i \in 1 .. n, NEW j \in 1 .. n, u.windows[i].id = u.windows[j].id PROVE i = j
  <2>1. i < j \/ j < i \/ i = j
    OBVIOUS
  <2>2. ~(i < j) /\ ~(j < i)
    BY <1>2, <1>3, <1>4, <1>5 DEF Ordered
  <2> QED BY <2>1, <2>2
<1> QED BY <1>2, <1>3, <1>4, <1>5 DEF Ordered

(***************************************************************************)
(* findIndexById finds the slot of an id, if there is one.                 *)
(***************************************************************************)
LEMMA FindIndex ==
  ASSUME NEW u, Sound(u), NEW x
  PROVE  /\ HasId(u, x) => /\ findIndexById(u, x) \in 1 .. Len(u.windows)
                           /\ u.windows[findIndexById(u, x)].id = x
         /\ ~HasId(u, x) => findIndexById(u, x) = 0
         /\ Live(u, x) <=> HasId(u, x)
<1> DEFINE at == {i \in DOMAIN u.windows : u.windows[i].id = x}
<1>1. findIndexById(u, x) = IF at = {} THEN 0 ELSE CHOOSE i \in at : \A j \in at : i <= j
  BY DEF findIndexById
<1>2. at = {i \in 1 .. Len(u.windows) : u.windows[i].id = x} /\ at \subseteq Nat
  BY SoundFields
<1>3. HasId(u, x) <=> at # {}
  BY <1>2 DEF HasId
<1> HIDE DEF at
<1>4. at # {} => findIndexById(u, x) \in at
  <2> SUFFICES ASSUME at # {} PROVE findIndexById(u, x) \in at
    OBVIOUS
  <2>1. \E i \in at : \A j \in at : i <= j
    BY <1>2, MinimumExists
  <2> QED BY <1>1, <2>1
<1>5. PICK n \in Nat : n = Len(u.windows)
  BY SoundFields
<1>6. at # {} => findIndexById(u, x) \in 1 .. n /\ findIndexById(u, x) # 0
  BY <1>2, <1>4, <1>5
<1> QED BY <1>1, <1>2, <1>3, <1>4, <1>5, <1>6 DEF Live

(***************************************************************************)
(* The z-order of a sound table holds slots.                               *)
(***************************************************************************)
LEMMA SoundZ ==
  ASSUME NEW u, Sound(u)
  PROVE  /\ Perm(u.zorder, Len(u.windows))
         /\ \A k \in 1 .. Len(u.windows) : u.zorder[k] \in 1 .. Len(u.windows)
         /\ \A i \in 1 .. Len(u.windows) : \E k \in 1 .. Len(u.windows) : u.zorder[k] = i
  BY DEF Sound, Perm

(***************************************************************************)
(* Ids are never given out twice, so what follows in two calls follows in  *)
(* both together.                                                          *)
(***************************************************************************)
LEMMA FollowsTransitive ==
  ASSUME NEW u, NEW v, NEW w, NEW k \in Nat, NEW m \in Nat,
         Sound(u), Follows(u, v, k), Follows(v, w, m)
  PROVE  Follows(u, w, k + m)
<1>1. Sound(v) /\ Sound(w)
  BY DEF Follows
<1>2. PICK a \in Nat, b \in Nat, c \in Nat : a = u.nextId /\ b = v.nextId /\ c = w.nextId
  BY <1>1, SoundFields
<1>3. a <= b /\ b <= c /\ a <= c
  BY <1>2 DEF Follows
<1>4. Inherits(u, v) /\ Inherits(v, w) /\ Layered(u, v) /\ Layered(v, w)
  BY DEF Follows
<1>5. ASSUME NEW j \in 1 .. Len(w.windows), w.windows[j].id < u.nextId
      PROVE  \E p \in 1 .. Len(v.windows) : /\ SameWindow(v.windows[p], w.windows[j])
                                            /\ v.windows[p].id < u.nextId
  <2>1. w.windows[j].id \in Nat
    BY <1>1, SoundIds
  <2>2. w.windows[j].id < v.nextId
    BY <1>2, <1>3, <1>5, <2>1
  <2>3. PICK p \in 1 .. Len(v.windows) : SameWindow(v.windows[p], w.windows[j])
    BY <1>4, <2>2 DEF Inherits
  <2> QED BY <1>5, <2>3 DEF SameWindow
<1>6. Inherits(u, w)
  <2> SUFFICES ASSUME NEW j \in 1 .. Len(w.windows), w.windows[j].id < u.nextId
               PROVE  \E i \in 1 .. Len(u.windows) : SameWindow(u.windows[i], w.windows[j])
    BY DEF Inherits
  <2>1. PICK p \in 1 .. Len(v.windows) : /\ SameWindow(v.windows[p], w.windows[j])
                                         /\ v.windows[p].id < u.nextId
    BY <1>5
  <2>2. PICK i \in 1 .. Len(u.windows) : SameWindow(u.windows[i], v.windows[p])
    BY <1>4, <2>1 DEF Inherits
  <2> QED BY <2>1, <2>2 DEF SameWindow
<1>7. ASSUME NEW i \in 1 .. Len(u.windows), HasId(w, u.windows[i].id)
      PROVE  \E p \in 1 .. Len(v.windows) : /\ v.windows[p].id = u.windows[i].id
                                            /\ Rank(v, p) = Rank(u, i)
  <2>1. PICK j \in 1 .. Len(w.windows) : w.windows[j].id = u.windows[i].id
    BY <1>7 DEF HasId
  <2>2. w.windows[j].id < u.nextId
    BY <2>1, SoundIds
  <2>3. PICK p \in 1 .. Len(v.windows) : /\ SameWindow(v.windows[p], w.windows[j])
                                         /\ v.windows[p].id < u.nextId
    BY <1>5, <2>2
  <2>4. PICK q \in 1 .. Len(u.windows) : SameWindow(u.windows[q], v.windows[p])
    BY <1>4, <2>3 DEF Inherits
  <2>5. u.windows[q].id = u.windows[i].id
    BY <2>1, <2>3, <2>4 DEF SameWindow
  <2>6. q = i
    BY <2>5, SoundIds
  <2> QED BY <2>1, <2>3, <2>4, <2>6 DEF SameWindow, Rank
<1>8. Layered(u, w)
  <2> SUFFICES ASSUME NEW i \in 1 .. Len(u.windows), NEW j \in 1 .. Len(u.windows),
                      Rank(u, i) < Rank(u, j),
                      Drawn(u, u.windows[i].id, u.windows[j].id),
                      HasId(w, u.windows[i].id), HasId(w, u.windows[j].id)
               PROVE  Drawn(w, u.windows[i].id, u.windows[j].id)
    BY DEF Layered
  <2>1. PICK p \in 1 .. Len(v.windows) : v.windows[p].id = u.windows[i].id /\ Rank(v, p) = Rank(u, i)
    BY <1>7
  <2>2. PICK q \in 1 .. Len(v.windows) : v.windows[q].id = u.windows[j].id /\ Rank(v, q) = Rank(u, j)
    BY <1>7
  <2>3. HasId(v, u.windows[i].id) /\ HasId(v, u.windows[j].id)
    BY <2>1, <2>2 DEF HasId
  <2>4. Drawn(v, v.windows[p].id, v.windows[q].id)
    BY <1>4, <2>1, <2>2, <2>3 DEF Layered
  <2>5. Rank(v, p) < Rank(v, q)
    BY <2>1, <2>2
  <2>6. HasId(w, v.windows[p].id) /\ HasId(w, v.windows[q].id)
    BY <2>1, <2>2
  <2>7. Drawn(w, v.windows[p].id, v.windows[q].id)
    BY <1>4, <2>4, <2>5, <2>6 DEF Layered
  <2> QED BY <2>1, <2>2, <2>7
<1>9. Pushes(u, w, k + m)
  <2>1. PICK x \in Nat, y \in Nat, t \in Nat : x = u.events /\ y = v.events /\ t = w.events
    BY <1>1, SoundFields
  <2>2. EventSlots \in Nat
    BY TableConstants
  <2>3. y <= x + k /\ t <= y + m /\ t <= x + (k + m)
    BY <2>1 DEF Follows, Pushes
  <2>4. ASSUME x + (k + m) <= EventSlots, ~u.dropped PROVE ~w.dropped
    <3>1. x + k <= EventSlots
      BY <2>1, <2>2, <2>4
    <3>2. y + m <= EventSlots
      BY <2>1, <2>2, <2>3, <2>4
    <3>3. ~v.dropped
      BY <2>1, <2>4, <3>1 DEF Follows, Pushes
    <3> QED BY <2>1, <3>2, <3>3 DEF Follows, Pushes
  <2> QED BY <2>1, <2>3, <2>4 DEF Pushes
<1> QED BY <1>1, <1>2, <1>3, <1>6, <1>8, <1>9 DEF Follows

(***************************************************************************)
(* The same for calls that create no window.                               *)
(***************************************************************************)
LEMMA KeepsTransitive ==
  ASSUME NEW u, NEW v, NEW w, NEW k \in Nat, NEW m \in Nat,
         Sound(u), Keeps(u, v, k), Keeps(v, w, m)
  PROVE  Keeps(u, w, k + m)
  BY FollowsTransitive DEF Keeps

(***************************************************************************)
(* More room for events is no restriction.                                 *)
(***************************************************************************)
LEMMA FollowsWeaken ==
  ASSUME NEW u, NEW v, NEW k \in Nat, NEW m \in Nat, k <= m, Sound(u), Follows(u, v, k)
  PROVE  Follows(u, v, m)
<1>1. PICK x \in Nat, y \in Nat : x = u.events /\ y = v.events
  BY SoundFields DEF Follows
<1>2. EventSlots \in Nat
  BY TableConstants
<1>3. y <= x + k /\ y <= x + m
  BY <1>1 DEF Follows, Pushes
<1>4. ASSUME x + m <= EventSlots, ~u.dropped PROVE ~v.dropped
  <2>1. x + k <= EventSlots
    BY <1>1, <1>2, <1>4
  <2> QED BY <1>1, <1>4, <2>1 DEF Follows, Pushes
<1> QED BY <1>1, <1>3, <1>4 DEF Follows, Pushes

(***************************************************************************)
(* A call that leaves ids, roles, titles and the z-order alone.            *)
(***************************************************************************)
LEMMA QuietKeeps ==
  ASSUME NEW u, NEW v, NEW k \in Nat, Sound(u), v \in Table,
         v.zorder = u.zorder, v.nextId = u.nextId, Len(v.windows) = Len(u.windows),
         \A i \in 1 .. Len(u.windows) : SameWindow(u.windows[i], v.windows[i]),
         v.focus # 0 => HasId(u, v.focus), Pushes(u, v, k)
  PROVE  Keeps(u, v, k)
<1>1. \A x : HasId(v, x) <=> HasId(u, x)
  BY DEF HasId, SameWindow
<1>2. \A i \in 1 .. Len(u.windows) : v.windows[i].id = u.windows[i].id
  BY DEF SameWindow
<1>3. Ordered(v.windows, v.nextId)
  <2>1. Ordered(u.windows, u.nextId)
    BY DEF Sound
  <2> QED BY <1>2, <2>1 DEF Ordered
<1>4. Sound(v)
  BY <1>1, <1>3 DEF Sound
<1>5. \A x, y : Drawn(u, x, y) => Drawn(v, x, y)
  <2>1. \A p \in 1 .. Len(u.windows) : v.windows[v.zorder[p]].id = u.windows[u.zorder[p]].id
    BY <1>2, SoundZ
  <2> QED BY <2>1 DEF Drawn
<1>6. Layered(u, v)
  BY <1>5 DEF Layered
<1>7. Inherits(u, v)
  BY DEF Inherits
<1>8. u.nextId <= v.nextId
  BY SoundFields
<1> QED BY <1>4, <1>6, <1>7, <1>8 DEF Keeps, Follows

(***************************************************************************)
(* QuietKeeps for the calls that do not touch the slots at all.            *)
(***************************************************************************)
LEMMA StillKeeps ==
  ASSUME NEW u, NEW v, NEW k \in Nat, Sound(u), v \in Table,
         v.zorder = u.zorder, v.nextId = u.nextId, v.windows = u.windows,
         v.focus # 0 => HasId(u, v.focus), Pushes(u, v, k)
  PROVE  Keeps(u, v, k)
<1>1. \A i \in 1 .. Len(u.windows) : SameWindow(u.windows[i], v.windows[i])
  BY DEF SameWindow
<1> QED BY <1>1, QuietKeeps

------------------------------------------------------------------------------
(***************************************************************************)
(* The framework's operations.                                             *)
(***************************************************************************)
(***************************************************************************)
(* Ranks are numbers (zRoleRank, framework.cpp:36-45).                     *)
(***************************************************************************)
LEMMA RankNat ==
  ASSUME NEW u, Sound(u), NEW i \in 1 .. Len(u.windows)
  PROVE  Rank(u, i) \in Nat
<1>1. u.windows[i].role \in Role
  BY SoundFields DEF WindowRecord
<1> QED BY <1>1 DEF Rank, Role, zRoleRank

(***************************************************************************)
(* pushEvent (framework.cpp:235-244) touches the ring only.                *)
(***************************************************************************)
LEMMA PushKeeps ==
  ASSUME NEW u, Sound(u)
  PROVE  /\ Keeps(u, pushEvent(u), 1)
         /\ pushEvent(u).windows = u.windows /\ pushEvent(u).focus = u.focus
<1>1. u \in Table
  BY DEF Sound
<1>2. EventSlots \in Nat
  BY TableConstants
<1>3. CASE u.events < EventSlots
  <2>1. PICK v : v = [u EXCEPT !.events = @ + 1]
    OBVIOUS
  <2>2. v \in Table
    BY <1>1, <1>2, <1>3, <2>1 DEF Table
  <2>3. /\ v.zorder = u.zorder /\ v.nextId = u.nextId /\ v.windows = u.windows
        /\ v.focus = u.focus /\ v.events = u.events + 1 /\ v.dropped = u.dropped
    BY <1>1, <2>1 DEF Table
  <2>4. Pushes(u, v, 1)
    BY <2>3, SoundFields DEF Pushes
  <2>5. u.focus # 0 => HasId(u, u.focus)
    BY DEF Sound
  <2>6. Keeps(u, v, 1)
    BY <2>2, <2>3, <2>4, <2>5, StillKeeps
  <2> QED BY <1>3, <2>1, <2>3, <2>6 DEF pushEvent
<1>4. CASE ~(u.events < EventSlots)
  <2>1. PICK v : v = [u EXCEPT !.dropped = TRUE]
    OBVIOUS
  <2>2. v \in Table
    BY <1>1, <2>1 DEF Table
  <2>3. /\ v.zorder = u.zorder /\ v.nextId = u.nextId /\ v.windows = u.windows
        /\ v.focus = u.focus /\ v.events = u.events
    BY <1>1, <2>1 DEF Table
  <2>4. Pushes(u, v, 1)
    BY <1>2, <1>4, <2>3, SoundFields DEF Pushes
  <2>5. u.focus # 0 => HasId(u, u.focus)
    BY DEF Sound
  <2>6. Keeps(u, v, 1)
    BY <2>2, <2>3, <2>4, <2>5, StillKeeps
  <2> QED BY <1>4, <2>1, <2>3, <2>6 DEF pushEvent
<1> QED BY <1>3, <1>4

(***************************************************************************)
(* Nothing pushed when the ring is as it was.                              *)
(***************************************************************************)
LEMMA NothingPushed ==
  ASSUME NEW u, NEW v, Sound(u), v.events = u.events, v.dropped = u.dropped
  PROVE  Pushes(u, v, 0)
  BY SoundFields DEF Pushes

(***************************************************************************)
(* Doing nothing keeps a table.                                            *)
(***************************************************************************)
LEMMA SelfKeeps ==
  ASSUME NEW u, Sound(u), NEW k \in Nat
  PROVE  Keeps(u, u, k)
<1>1. u \in Table /\ (u.focus # 0 => HasId(u, u.focus))
  BY DEF Sound
<1>2. Pushes(u, u, 0)
  BY NothingPushed
<1>3. Keeps(u, u, 0)
  BY <1>1, <1>2, StillKeeps
<1> QED BY <1>3, FollowsWeaken DEF Keeps

(***************************************************************************)
(* The focus may go to any window, or be given up.                         *)
(***************************************************************************)
LEMMA FocusKeeps ==
  ASSUME NEW u, Sound(u), NEW x \in Nat, x # 0 => HasId(u, x)
  PROVE  /\ Keeps(u, [u EXCEPT !.focus = x], 0)
         /\ [u EXCEPT !.focus = x].windows = u.windows /\ [u EXCEPT !.focus = x].focus = x
<1>1. u \in Table
  BY DEF Sound
<1>2. PICK v : v = [u EXCEPT !.focus = x]
  OBVIOUS
<1>3. v \in Table
  BY <1>1, <1>2 DEF Table
<1>4. /\ v.zorder = u.zorder /\ v.nextId = u.nextId /\ v.windows = u.windows
      /\ v.focus = x /\ v.events = u.events /\ v.dropped = u.dropped
  BY <1>1, <1>2 DEF Table
<1>5. Pushes(u, v, 0)
  BY <1>4, NothingPushed
<1>6. Keeps(u, v, 0)
  BY <1>3, <1>4, <1>5, StillKeeps
<1> QED BY <1>2, <1>4, <1>6

(***************************************************************************)
(* SetFocusedWindow: a window that exists gets the focus.                  *)
(***************************************************************************)
LEMMA SetFocusedKeeps ==
  ASSUME NEW u, Sound(u), NEW x \in Nat
  PROVE  /\ Keeps(u, SetFocusedWindow(u, x), 0)
         /\ SetFocusedWindow(u, x).windows = u.windows
         /\ HasId(u, x) => SetFocusedWindow(u, x).focus = x
<1>1. CASE HasId(u, x)
  <2>1. SetFocusedWindow(u, x) = [u EXCEPT !.focus = x]
    BY <1>1, FindIndex DEF SetFocusedWindow
  <2> QED BY <1>1, <2>1, FocusKeeps
<1>2. CASE ~HasId(u, x)
  <2>1. SetFocusedWindow(u, x) = u
    BY <1>2, FindIndex DEF SetFocusedWindow
  <2> QED BY <1>2, <2>1, SelfKeeps
<1> QED BY <1>1, <1>2

(***************************************************************************)
(* A gesture begins or ends.                                               *)
(***************************************************************************)
LEMMA GestureKeeps ==
  ASSUME NEW u, Sound(u), NEW g \in Gesture, NEW h \in Nat
  PROVE  Keeps(u, [u EXCEPT !.gesture = g, !.held = h], 0)
<1>1. u \in Table
  BY DEF Sound
<1>2. PICK v : v = [u EXCEPT !.gesture = g, !.held = h]
  OBVIOUS
<1>3. v \in Table
  BY <1>1, <1>2 DEF Table
<1>4. /\ v.zorder = u.zorder /\ v.nextId = u.nextId /\ v.windows = u.windows
      /\ v.focus = u.focus /\ v.events = u.events /\ v.dropped = u.dropped
  BY <1>1, <1>2 DEF Table
<1>5. Pushes(u, v, 0)
  BY <1>4, NothingPushed
<1>6. u.focus # 0 => HasId(u, u.focus)
  BY DEF Sound
<1>7. Keeps(u, v, 0)
  BY <1>3, <1>4, <1>5, <1>6, StillKeeps
<1> QED BY <1>2, <1>7

(***************************************************************************)
(* PollEvent takes events off the ring.                                    *)
(***************************************************************************)
LEMMA PollKeeps ==
  ASSUME NEW u, Sound(u), NEW n \in Nat
  PROVE  /\ Keeps(u, PollEvents(u, n), 0)
         /\ PollEvents(u, n).windows = u.windows /\ PollEvents(u, n).focus = u.focus
         /\ PollEvents(u, n).events = (IF u.events > n THEN u.events - n ELSE 0)
         /\ PollEvents(u, n).dropped = u.dropped
<1>1. u \in Table
  BY DEF Sound
<1>2. PICK v : v = PollEvents(u, n)
  OBVIOUS
<1>3. /\ v.zorder = u.zorder /\ v.nextId = u.nextId /\ v.windows = u.windows
      /\ v.focus = u.focus /\ v.dropped = u.dropped
      /\ v.events = (IF u.events > n THEN u.events - n ELSE 0)
  BY <1>1, <1>2 DEF Table, PollEvents
<1>4. PICK e \in Nat : e = u.events /\ e <= EventSlots /\ EventSlots \in Nat
  BY SoundFields, TableConstants
<1>5. v.events \in 0 .. EventSlots /\ v.events <= u.events
  BY <1>3, <1>4
<1>6. v \in Table
  BY <1>1, <1>2, <1>3, <1>5 DEF Table, PollEvents
<1>7. Pushes(u, v, 0)
  BY <1>3, <1>4, <1>5 DEF Pushes
<1>8. u.focus # 0 => HasId(u, u.focus)
  BY DEF Sound
<1>9. Keeps(u, v, 0)
  BY <1>3, <1>6, <1>7, <1>8, StillKeeps
<1> QED BY <1>2, <1>3, <1>9

(***************************************************************************)
(* A window's state changes.                                               *)
(***************************************************************************)
LEMMA SetStateKeeps ==
  ASSUME NEW u, Sound(u), NEW x, HasId(u, x), NEW st \in WindowState
  PROVE  /\ Keeps(u, SetState(u, x, st), 0)
         /\ SetState(u, x, st).focus = u.focus
         /\ \A y : HasId(SetState(u, x, st), y) <=> HasId(u, y)
<1>1. u \in Table
  BY DEF Sound
<1>2. PICK f \in 1 .. Len(u.windows) : f = findIndexById(u, x)
  BY FindIndex
<1>3. PICK v : v = SetState(u, x, st)
  OBVIOUS
<1>4. PICK s : s = [u.windows EXCEPT ![f].state = st]
  OBVIOUS
<1>5. v = [u EXCEPT !.windows = s]
  BY <1>1, <1>2, <1>3, <1>4 DEF SetState, Table
<1>6. u.windows \in Seq(WindowRecord)
  BY SoundFields
<1>7. s \in Seq(WindowRecord) /\ Len(s) = Len(u.windows)
  <2>1. u.windows[f] \in WindowRecord
    BY <1>6
  <2>2. [u.windows[f] EXCEPT !.state = st] \in WindowRecord
    BY <2>1 DEF WindowRecord
  <2>3. s = [u.windows EXCEPT ![f] = [u.windows[f] EXCEPT !.state = st]]
    BY <1>4, <1>6
  <2> QED BY <1>6, <2>2, <2>3
<1>8. \A i \in 1 .. Len(u.windows) : SameWindow(u.windows[i], s[i])
  <2> SUFFICES ASSUME NEW i \in 1 .. Len(u.windows) PROVE SameWindow(u.windows[i], s[i])
    OBVIOUS
  <2>1. CASE i = f
    <3>1. u.windows[i] \in WindowRecord
      BY <1>6
    <3>2. s[i] = [u.windows[i] EXCEPT !.state = st]
      BY <1>4, <1>6, <2>1
    <3> QED BY <3>1, <3>2 DEF WindowRecord, SameWindow
  <2>2. CASE i # f
    <3>1. s[i] = u.windows[i]
      BY <1>4, <1>6, <2>2
    <3> QED BY <3>1 DEF SameWindow
  <2> QED BY <2>1, <2>2
<1>9. v \in Table
  BY <1>1, <1>5, <1>7 DEF Table
<1>10. /\ v.zorder = u.zorder /\ v.nextId = u.nextId /\ v.windows = s
       /\ v.focus = u.focus /\ v.events = u.events /\ v.dropped = u.dropped
  BY <1>1, <1>5 DEF Table
<1>11. Pushes(u, v, 0)
  BY <1>10, NothingPushed
<1>12. u.focus # 0 => HasId(u, u.focus)
  BY DEF Sound
<1>13. Keeps(u, v, 0)
  BY <1>7, <1>8, <1>9, <1>10, <1>11, <1>12, QuietKeeps
<1>14. \A y : HasId(v, y) <=> HasId(u, y)
  BY <1>7, <1>8, <1>10 DEF HasId, SameWindow
<1> QED BY <1>3, <1>10, <1>13, <1>14

(***************************************************************************)
(* moveWindowToLayerTop (framework.cpp:47-69) permutes the z-order, and    *)
(* overtakes only windows of no higher rank.                               *)
(***************************************************************************)
LEMMA MoveKeeps ==
  ASSUME NEW u, Sound(u), NEW idx \in 1 .. Len(u.windows)
  PROVE  /\ Keeps(u, moveWindowToLayerTop(u, idx), 0)
         /\ moveWindowToLayerTop(u, idx).windows = u.windows
         /\ moveWindowToLayerTop(u, idx).focus = u.focus
<1>1. u \in Table
  BY DEF Sound
<1>2. PICK n \in Nat : n = Len(u.windows)
  BY SoundFields
<1>3. PICK z : z = u.zorder
  OBVIOUS
<1>4. Perm(z, n) /\ z \in [1 .. n -> 1 .. n] /\ z \in Seq(Nat) /\ Len(z) = n /\ DOMAIN z = 1 .. n
  BY <1>2, <1>3, SoundZ, PermIsSequence DEF Perm
<1> DEFINE rk(i) == zRoleRank[u.windows[i].role]
           cur == CHOOSE k \in DOMAIN z : z[k] = idx
           above == {k \in DOMAIN z : k > cur /\ rk(z[k]) > rk(idx)}
           target == IF above = {} THEN Len(z) ELSE (CHOOSE k \in above : \A j \in above : k <= j) - 1
           y == [k \in DOMAIN z |-> IF k < cur \/ k > target THEN z[k]
                                    ELSE IF k < target THEN z[k + 1] ELSE idx]
<1>5. moveWindowToLayerTop(u, idx) = [u EXCEPT !.zorder = y]
  BY <1>3 DEF moveWindowToLayerTop
<1>6. \E k \in DOMAIN z : z[k] = idx
  BY <1>2, <1>4 DEF Perm
<1>7. cur \in 1 .. n /\ z[cur] = idx
  BY <1>4, <1>6
<1> HIDE DEF cur
<1>8. above \subseteq 1 .. n /\ above \subseteq Nat /\ \A k \in above : k > cur
  BY <1>4
<1>9. target \in cur .. n /\ \A k \in 1 .. n : k > cur /\ k <= target => k \notin above
  <2>1. CASE above = {}
    <3>1. target = n
      BY <1>4, <2>1
    <3> HIDE DEF target, above
    <3> QED BY <1>7, <2>1, <3>1
  <2>2. CASE above # {}
    <3>1. \E k \in above : \A j \in above : k <= j
      BY <1>8, <2>2, MinimumExists
    <3>2. PICK t : t = CHOOSE k \in above : \A j \in above : k <= j
      OBVIOUS
    <3>3. t \in above /\ \A j \in above : t <= j
      BY <3>1, <3>2
    <3>4. target = t - 1
      BY <2>2, <3>2
    <3> HIDE DEF target, above
    <3>5. t \in 1 .. n /\ t > cur
      BY <1>8, <3>3
    <3> QED BY <1>7, <1>8, <3>3, <3>4, <3>5
  <2> QED BY <2>1, <2>2
<1> HIDE DEF target
<1>10. \A k \in 1 .. n : k > cur /\ k <= target => ~(rk(z[k]) > rk(idx))
  BY <1>4, <1>9
<1> HIDE DEF above
<1>11. Shifted(y, z, n, cur, target)
  BY <1>4, <1>7 DEF Shifted
<1>12. y \in [1 .. n -> 1 .. n]
  <2>1. ASSUME NEW k \in 1 .. n
        PROVE  (IF k < cur \/ k > target THEN z[k] ELSE IF k < target THEN z[k + 1] ELSE idx) \in 1 .. n
    <3>1. CASE k < cur \/ k > target
      BY <1>4, <3>1
    <3>2. CASE k < target /\ ~(k < cur \/ k > target)
      <4>1. k + 1 \in 1 .. n
        BY <1>7, <1>9, <3>2
      <4> QED BY <1>4, <3>2, <4>1
    <3>3. CASE ~(k < cur \/ k > target) /\ ~(k < target)
      BY <1>2, <3>3
    <3> QED BY <3>1, <3>2, <3>3
  <2> QED BY <1>4, <2>1
<1> HIDE DEF y
<1>13. Perm(y, n)
  BY <1>4, <1>7, <1>9, <1>11, <1>12, ShiftedPerm
<1>14. PICK v : v = [u EXCEPT !.zorder = y]
  OBVIOUS
<1>15. /\ v.zorder = y /\ v.nextId = u.nextId /\ v.windows = u.windows
       /\ v.focus = u.focus /\ v.events = u.events /\ v.dropped = u.dropped
  BY <1>1, <1>14 DEF Table
<1>16. v \in Table
  <2>1. y \in Seq(Nat)
    BY <1>13, PermIsSequence
  <2> QED BY <1>1, <1>14, <2>1 DEF Table
<1>17. \A x : HasId(v, x) <=> HasId(u, x)
  BY <1>15 DEF HasId
<1>18. Sound(v)
  BY <1>2, <1>13, <1>15, <1>16, <1>17 DEF Sound
<1>19. Layered(u, v)
  <2> SUFFICES ASSUME NEW i \in 1 .. Len(u.windows), NEW j \in 1 .. Len(u.windows),
                      Rank(u, i) < Rank(u, j), Drawn(u, u.windows[i].id, u.windows[j].id)
               PROVE  Drawn(v, u.windows[i].id, u.windows[j].id)
    BY DEF Layered
  <2>1. PICK k \in 1 .. n, m \in 1 .. n :
          k < m /\ u.windows[z[k]].id = u.windows[i].id /\ u.windows[z[m]].id = u.windows[j].id
    BY <1>2, <1>3 DEF Drawn
  <2>2. z[k] \in 1 .. n /\ z[m] \in 1 .. n
    BY <1>4
  <2>3. z[k] = i /\ z[m] = j
    BY <1>2, <2>1, <2>2, SoundIds
  <2>4. k = cur => m > target
    <3> SUFFICES ASSUME k = cur, ~(m > target) PROVE FALSE
      OBVIOUS
    <3>1. ~(rk(z[m]) > rk(idx))
      <4>1. m > cur /\ m <= target
        BY <1>7, <1>9, <2>1
      <4> QED BY <1>10, <4>1
    <3>2. rk(z[m]) = Rank(u, j) /\ rk(idx) = Rank(u, i)
      BY <1>7, <2>3 DEF Rank
    <3>3. Rank(u, i) \in Nat /\ Rank(u, j) \in Nat
      BY RankNat
    <3> HIDE DEF rk
    <3> QED BY <3>1, <3>2, <3>3
  <2>5. k < m /\ target \in cur .. n /\ (k # cur \/ m > target)
    BY <1>9, <2>1, <2>4
  <2>6. StillBefore(y, z, n, k, m)
    BY <1>4, <1>7, <1>11, <1>12, <2>5, ShiftedDrawn
  <2>7. PICK a \in 1 .. n, b \in 1 .. n : a < b /\ y[a] = z[k] /\ y[b] = z[m]
    BY <2>6 DEF StillBefore
  <2> QED BY <1>2, <1>15, <2>3, <2>7 DEF Drawn
<1>20. Inherits(u, v)
  BY <1>15 DEF Inherits, SameWindow
<1>21. Pushes(u, v, 0)
  BY <1>15, NothingPushed
<1>22. u.nextId <= v.nextId
  BY <1>15, SoundFields
<1> QED BY <1>5, <1>14, <1>15, <1>18, <1>19, <1>20, <1>21, <1>22 DEF Keeps, Follows

(***************************************************************************)
(* CreateWindowEx (framework.cpp:276-314) puts the new window, with the    *)
(* next id, in the last slot and at the top of its layer.                  *)
(***************************************************************************)
LEMMA CreateFollows ==
  ASSUME NEW u, Sound(u), NEW title \in Title, NEW role \in Role, NEW flags \in SUBSET Flag, NewId(u) # 0
  PROVE  /\ Follows(u, CreateWindowEx(u, title, role, flags), 0)
         /\ CreateWindowEx(u, title, role, flags).windows
              = Append(u.windows, [id |-> u.nextId, title |-> title, role |-> role,
                                   flags |-> flags, state |-> "Normal"])
         /\ CreateWindowEx(u, title, role, flags).focus = u.focus
         /\ NewId(u) = u.nextId /\ HasId(CreateWindowEx(u, title, role, flags), NewId(u))
<1>1. u \in Table /\ Ordered(u.windows, u.nextId) /\ Perm(u.zorder, Len(u.windows))
  BY DEF Sound
<1>2. PICK n \in Nat : n = Len(u.windows)
  BY SoundFields
<1>3. n < MaxWindows /\ NewId(u) = u.nextId /\ MaxWindows \in Nat
  BY <1>2, TableConstants DEF NewId
<1>4. PICK win : win = [id |-> u.nextId, title |-> title, role |-> role,
                        flags |-> flags, state |-> "Normal"]
  OBVIOUS
<1>5. PICK next \in Nat \ {0} : next = u.nextId
  BY SoundFields
<1>6. win \in WindowRecord /\ win.id = next
  BY <1>4, <1>5 DEF WindowRecord, WindowState
<1>7. PICK s : s = Append(u.windows, win)
  OBVIOUS
<1>8. u.windows \in Seq(WindowRecord)
  BY SoundFields
<1>9. /\ s \in Seq(WindowRecord) /\ Len(s) = n + 1 /\ s[n + 1] = win
      /\ \A i \in 1 .. n : s[i] = u.windows[i]
  BY <1>2, <1>6, <1>7, <1>8
<1>10. PICK y : y = Append(u.zorder, n + 1)
  OBVIOUS
<1>11. Perm(y, n + 1)
  <2>1. u.zorder \in Seq(Nat) /\ Len(u.zorder) = n /\ u.zorder \in [1 .. n -> 1 .. n]
    BY <1>1, <1>2, PermIsSequence DEF Perm
  <2>2. /\ y \in Seq(Nat) /\ Len(y) = n + 1 /\ y[n + 1] = n + 1
        /\ \A k \in 1 .. n : y[k] = u.zorder[k]
    BY <1>10, <2>1
  <2>3. \A k \in 1 .. n : y[k] \in 1 .. n
    BY <2>1, <2>2
  <2>4. DOMAIN y = 1 .. n + 1
    BY <2>2
  <2>5. ASSUME NEW k \in 1 .. n + 1 PROVE y[k] \in 1 .. n + 1 /\ (y[k] = n + 1 <=> k = n + 1)
    <3>1. CASE k \in 1 .. n
      <4>1. y[k] \in 1 .. n
        BY <2>3, <3>1
      <4> QED BY <3>1, <4>1
    <3>2. CASE k = n + 1
      BY <2>2, <3>2
    <3> QED BY <3>1, <3>2
  <2>6. y \in [1 .. n + 1 -> 1 .. n + 1]
    BY <2>2, <2>4, <2>5
  <2>7. ASSUME NEW k \in 1 .. n + 1, NEW m \in 1 .. n + 1, y[k] = y[m] PROVE k = m
    <3>1. CASE k = n + 1 \/ m = n + 1
      BY <2>5, <2>7, <3>1
    <3>2. CASE k \in 1 .. n /\ m \in 1 .. n
      BY <1>1, <1>2, <2>2, <2>7, <3>2 DEF Perm
    <3> QED BY <3>1, <3>2
  <2>8. ASSUME NEW i \in 1 .. n + 1 PROVE \E k \in 1 .. n + 1 : y[k] = i
    <3>1. CASE i = n + 1
      <4>1. n + 1 \in 1 .. n + 1
        OBVIOUS
      <4> QED BY <2>2, <3>1, <4>1
    <3>2. CASE i \in 1 .. n
      <4>1. PICK k \in 1 .. n : u.zorder[k] = i
        BY <1>1, <1>2, <3>2 DEF Perm
      <4>2. k \in 1 .. n + 1 /\ y[k] = i
        BY <2>2, <4>1
      <4> QED BY <4>2
    <3> QED BY <3>1, <3>2
  <2> QED BY <2>6, <2>7, <2>8 DEF Perm
<1>12. PICK v : v = [u EXCEPT !.windows = s, !.zorder = y, !.nextId = next + 1]
  OBVIOUS
<1>13. CreateWindowEx(u, title, role, flags) = moveWindowToLayerTop(v, n + 1)
  BY <1>2, <1>4, <1>5, <1>7, <1>10, <1>12 DEF CreateWindowEx
<1>14. /\ v.zorder = y /\ v.nextId = next + 1 /\ v.windows = s
       /\ v.focus = u.focus /\ v.events = u.events /\ v.dropped = u.dropped
  BY <1>1, <1>12 DEF Table
<1>15. v \in Table
  <2>1. y \in Seq(Nat)
    BY <1>11, PermIsSequence
  <2>2. next + 1 \in Nat \ {0}
    OBVIOUS
  <2> QED BY <1>1, <1>9, <1>12, <2>1, <2>2 DEF Table
<1>16. \A i \in 1 .. n : u.windows[i].id \in Nat /\ u.windows[i].id < next
  BY <1>2, <1>5, SoundIds
<1>17. Ordered(s, next + 1)
  <2>1. ASSUME NEW i \in 1 .. n + 1, NEW j \in 1 .. n + 1, i < j PROVE s[i].id < s[j].id
    <3>1. CASE j = n + 1
      <4>1. i \in 1 .. n
        BY <2>1, <3>1
      <4> QED BY <1>6, <1>9, <1>16, <3>1, <4>1
    <3>2. CASE j \in 1 .. n
      <4>1. i \in 1 .. n
        BY <2>1, <3>2
      <4> QED BY <1>1, <1>2, <1>9, <2>1, <3>2, <4>1 DEF Ordered
    <3> QED BY <3>1, <3>2
  <2>2. ASSUME NEW i \in 1 .. n + 1 PROVE s[i].id < next + 1
    <3>1. CASE i = n + 1
      BY <1>6, <1>9, <3>1
    <3>2. CASE i \in 1 .. n
      <4>1. s[i].id = u.windows[i].id
        BY <1>9, <3>2
      <4> QED BY <1>16, <3>2, <4>1
    <3> QED BY <3>1, <3>2
  <2> QED BY <1>9, <2>1, <2>2 DEF Ordered
<1>18. \A x : HasId(u, x) => HasId(v, x)
  <2>1. \A i \in 1 .. n : i \in 1 .. n + 1
    OBVIOUS
  <2> QED BY <1>2, <1>9, <1>14, <2>1 DEF HasId
<1>19. Sound(v)
  <2>1. Len(v.windows) <= MaxWindows
    BY <1>3, <1>9, <1>14
  <2>2. v.focus # 0 => HasId(v, v.focus)
    BY <1>14, <1>18 DEF Sound
  <2> QED BY <1>9, <1>11, <1>14, <1>15, <1>17, <2>1, <2>2 DEF Sound
<1>20. Layered(u, v)
  <2>1. ASSUME NEW x, NEW w, Drawn(u, x, w) PROVE Drawn(v, x, w)
    <3>1. PICK k \in 1 .. n, m \in 1 .. n :
            k < m /\ u.windows[u.zorder[k]].id = x /\ u.windows[u.zorder[m]].id = w
      BY <1>2, <2>1 DEF Drawn
    <3>2. u.zorder \in Seq(Nat) /\ Len(u.zorder) = n /\ u.zorder \in [1 .. n -> 1 .. n]
      BY <1>1, <1>2, PermIsSequence DEF Perm
    <3>3. y[k] = u.zorder[k] /\ y[m] = u.zorder[m]
      BY <1>10, <3>2
    <3>4. s[y[k]] = u.windows[u.zorder[k]] /\ s[y[m]] = u.windows[u.zorder[m]]
      <4>1. u.zorder[k] \in 1 .. n /\ u.zorder[m] \in 1 .. n
        BY <3>2
      <4> QED BY <1>9, <3>3, <4>1
    <3>5. k \in 1 .. n + 1 /\ m \in 1 .. n + 1
      OBVIOUS
    <3> QED BY <1>9, <1>14, <3>1, <3>4, <3>5 DEF Drawn
  <2> QED BY <2>1 DEF Layered
<1>21. Inherits(u, v)
  <2> SUFFICES ASSUME NEW j \in 1 .. n + 1, s[j].id < next
               PROVE  \E i \in 1 .. n : SameWindow(u.windows[i], s[j])
    BY <1>2, <1>5, <1>9, <1>14 DEF Inherits
  <2>1. j # n + 1
    BY <1>6, <1>9
  <2>2. j \in 1 .. n
    BY <2>1
  <2> QED BY <1>9, <2>2 DEF SameWindow
<1>22. Pushes(u, v, 0)
  BY <1>14, NothingPushed
<1>23. u.nextId <= v.nextId
  BY <1>5, <1>14
<1>24. Follows(u, v, 0)
  BY <1>19, <1>20, <1>21, <1>22, <1>23 DEF Follows
<1>25. n + 1 \in 1 .. Len(v.windows)
  BY <1>9, <1>14
<1>26. /\ Follows(v, moveWindowToLayerTop(v, n + 1), 0)
       /\ moveWindowToLayerTop(v, n + 1).windows = s
       /\ moveWindowToLayerTop(v, n + 1).focus = u.focus
  BY <1>14, <1>19, <1>25, MoveKeeps DEF Keeps
<1>27. Follows(u, moveWindowToLayerTop(v, n + 1), 0 + 0)
  BY <1>24, <1>26, FollowsTransitive
<1>28. HasId(moveWindowToLayerTop(v, n + 1), next)
  BY <1>6, <1>9, <1>14, <1>25, <1>26 DEF HasId
<1> QED BY <1>3, <1>4, <1>5, <1>7, <1>13, <1>26, <1>27, <1>28

\* The slot in the table before that holds slot k of the table without slot p,
\* and back.
Skip(p, k) == IF k < p THEN k ELSE k + 1
Fall(p, k) == IF k > p THEN k - 1 ELSE k

(***************************************************************************)
(* Skip and Fall are inverse, and keep the order.                          *)
(***************************************************************************)
LEMMA SkipFall ==
  ASSUME NEW n \in Nat, NEW p \in 1 .. n
  PROVE  /\ \A k \in 1 .. n - 1 : Skip(p, k) \in 1 .. n /\ Skip(p, k) # p /\ Fall(p, Skip(p, k)) = k
         /\ \A k \in 1 .. n : k # p => Fall(p, k) \in 1 .. n - 1 /\ Skip(p, Fall(p, k)) = k
         /\ \A k, m \in 1 .. n - 1 : k < m => Skip(p, k) < Skip(p, m)
         /\ \A k, m \in 1 .. n : k # p /\ m # p /\ k < m => Fall(p, k) < Fall(p, m)
<1>1. ASSUME NEW k \in 1 .. n - 1
      PROVE  Skip(p, k) \in 1 .. n /\ Skip(p, k) # p /\ Fall(p, Skip(p, k)) = k
  <2>1. CASE k < p
    BY <2>1 DEF Skip, Fall
  <2>2. CASE ~(k < p)
    BY <2>2 DEF Skip, Fall
  <2> QED BY <2>1, <2>2
<1>2. ASSUME NEW k \in 1 .. n, k # p
      PROVE  Fall(p, k) \in 1 .. n - 1 /\ Skip(p, Fall(p, k)) = k
  <2>1. CASE k < p
    BY <2>1 DEF Skip, Fall
  <2>2. CASE k > p
    BY <2>2 DEF Skip, Fall
  <2> QED BY <1>2, <2>1, <2>2
<1>3. \A k, m \in 1 .. n - 1 : k < m => Skip(p, k) < Skip(p, m)
  BY DEF Skip
<1>4. \A k, m \in 1 .. n : k # p /\ m # p /\ k < m => Fall(p, k) < Fall(p, m)
  BY DEF Fall
<1> QED BY <1>1, <1>2, <1>3, <1>4

(***************************************************************************)
(* CloseWindow's z-order after its loops (framework.cpp:527-534): the      *)
(* entries but one, each for the slot its window has now.                  *)
(***************************************************************************)
LEMMA ClosedZ ==
  ASSUME NEW n \in Nat, NEW z, Perm(z, n), NEW idx \in 1 .. n, NEW zpos \in 1 .. n, z[zpos] = idx,
         NEW rest, rest = RemoveAt(z, zpos),
         NEW y, y = [k \in DOMAIN rest |-> IF rest[k] > idx THEN rest[k] - 1 ELSE rest[k]]
  PROVE  /\ Perm(y, n - 1)
         /\ \A k \in 1 .. n - 1 : y[k] = Fall(idx, z[Skip(zpos, k)]) /\ z[Skip(zpos, k)] # idx
<1>1. z \in Seq(Nat) /\ Len(z) = n /\ z \in [1 .. n -> 1 .. n]
  BY PermIsSequence DEF Perm
<1>2. /\ rest \in Seq(Nat) /\ Len(rest) = n - 1
      /\ \A k \in 1 .. n - 1 : rest[k] = IF k < zpos THEN z[k] ELSE z[k + 1]
  BY <1>1, RemoveAtShifts
<1>3. DOMAIN rest = 1 .. n - 1
  BY <1>2
<1>4. \A k \in 1 .. n - 1 : Skip(zpos, k) \in 1 .. n /\ Skip(zpos, k) # zpos /\ Fall(zpos, Skip(zpos, k)) = k
  BY SkipFall
<1>5. \A k \in 1 .. n - 1 : rest[k] = z[Skip(zpos, k)]
  BY <1>2 DEF Skip
<1>6. ASSUME NEW k \in 1 .. n - 1 PROVE z[Skip(zpos, k)] \in 1 .. n /\ z[Skip(zpos, k)] # idx
  BY <1>1, <1>4 DEF Perm
<1>7. ASSUME NEW k \in 1 .. n - 1 PROVE y[k] = Fall(idx, z[Skip(zpos, k)])
  BY <1>3, <1>5 DEF Fall
<1>8. \A i \in 1 .. n : i # idx => Fall(idx, i) \in 1 .. n - 1 /\ Skip(idx, Fall(idx, i)) = i
  BY SkipFall
<1>9. \A k \in 1 .. n - 1 : y[k] \in 1 .. n - 1
  BY <1>6, <1>7, <1>8, ZenonT(40)
<1>10. y \in [1 .. n - 1 -> 1 .. n - 1]
  BY <1>3, <1>9
<1>11. ASSUME NEW k \in 1 .. n - 1, NEW m \in 1 .. n - 1, y[k] = y[m] PROVE k = m
  <2>1. z[Skip(zpos, k)] = z[Skip(zpos, m)]
    <3>1. PICK a \in 1 .. n, b \in 1 .. n :
            a = z[Skip(zpos, k)] /\ b = z[Skip(zpos, m)] /\ a # idx /\ b # idx
      BY <1>6
    <3>2. Fall(idx, a) = Fall(idx, b)
      BY <1>7, <1>11, <3>1
    <3>3. Skip(idx, Fall(idx, a)) = a /\ Skip(idx, Fall(idx, b)) = b
      BY <1>8, <3>1
    <3> QED BY <3>1, <3>2, <3>3
  <2>2. Skip(zpos, k) = Skip(zpos, m)
    BY <1>4, <2>1 DEF Perm
  <2> QED BY <1>4, <2>2
<1>12. ASSUME NEW i \in 1 .. n - 1 PROVE \E k \in 1 .. n - 1 : y[k] = i
  <2>1. Skip(idx, i) \in 1 .. n /\ Skip(idx, i) # idx /\ Fall(idx, Skip(idx, i)) = i
    BY SkipFall
  <2>2. PICK p \in 1 .. n : z[p] = Skip(idx, i)
    BY <2>1 DEF Perm
  <2>3. p # zpos
    BY <2>1, <2>2
  <2>4. Fall(zpos, p) \in 1 .. n - 1 /\ Skip(zpos, Fall(zpos, p)) = p
    BY <2>3, SkipFall
  <2>5. y[Fall(zpos, p)] = i
    BY <1>7, <2>1, <2>2, <2>4
  <2> QED BY <2>4, <2>5
<1> QED BY <1>6, <1>7, <1>10, <1>11, <1>12 DEF Perm

(***************************************************************************)
(* CloseWindow (framework.cpp:507-538): the window is gone, the others     *)
(* keep their order, and the focus does not stay behind.                   *)
(***************************************************************************)
LEMMA CloseKeeps ==
  ASSUME NEW u, Sound(u), NEW x
  PROVE  /\ Keeps(u, CloseWindow(u, x), 1)
         /\ ~HasId(CloseWindow(u, x), x)
         /\ Len(CloseWindow(u, x).windows) <= Len(u.windows)
<1>1. CASE ~HasId(u, x)
  <2>1. CloseWindow(u, x) = u
    BY <1>1, FindIndex DEF CloseWindow
  <2>2. Keeps(u, u, 1) /\ Len(u.windows) <= Len(u.windows)
    BY SelfKeeps, SoundFields
  <2> QED BY <1>1, <2>1, <2>2
<1>2. CASE HasId(u, x)
  <2>1. u \in Table /\ Ordered(u.windows, u.nextId) /\ Perm(u.zorder, Len(u.windows))
    BY DEF Sound
  <2>2. PICK n \in Nat : n = Len(u.windows)
    BY SoundFields
  <2>3. PICK idx \in 1 .. n : idx = findIndexById(u, x) /\ u.windows[idx].id = x
    BY <1>2, <2>2, FindIndex
  <2>4. PICK z : z = u.zorder
    OBVIOUS
  <2>5. Perm(z, n) /\ DOMAIN z = 1 .. n
    BY <2>1, <2>2, <2>4, PermIsSequence
  <2>6. PICK zpos : zpos = CHOOSE k \in DOMAIN z : z[k] = idx
    OBVIOUS
  <2>7. zpos \in 1 .. n /\ z[zpos] = idx
    <3>1. \E k \in DOMAIN z : z[k] = idx
      BY <2>5 DEF Perm
    <3> QED BY <2>5, <2>6, <3>1
  <2>8. PICK rest : rest = RemoveAt(z, zpos)
    OBVIOUS
  <2>9. PICK y : y = [k \in DOMAIN rest |-> IF rest[k] > idx THEN rest[k] - 1 ELSE rest[k]]
    OBVIOUS
  <2>10. PICK s : s = RemoveAt(u.windows, idx)
    OBVIOUS
  <2>11. PICK f : f = IF u.focus = x THEN 0 ELSE u.focus
    OBVIOUS
  <2>12. PICK v : v = [u EXCEPT !.zorder = y, !.windows = s, !.focus = f]
    OBVIOUS
  <2>13. CloseWindow(u, x) = pushEvent(v)
    <3>1. Live(u, x)
      BY <1>2, FindIndex
    <3> QED BY <2>3, <2>4, <2>6, <2>8, <2>9, <2>10, <2>11, <2>12, <3>1 DEF CloseWindow
  <2>14. /\ Perm(y, n - 1)
         /\ \A k \in 1 .. n - 1 : y[k] = Fall(idx, z[Skip(zpos, k)]) /\ z[Skip(zpos, k)] # idx
    BY <2>5, <2>7, <2>8, <2>9, ClosedZ
  <2>15. /\ s \in Seq(WindowRecord) /\ Len(s) = n - 1
         /\ \A k \in 1 .. n - 1 : s[k] = u.windows[Skip(idx, k)]
    <3>1. u.windows \in Seq(WindowRecord)
      BY SoundFields
    <3> QED BY <2>2, <2>10, <3>1, RemoveAtShifts DEF Skip
  <2>16. f \in Nat
    BY <2>11, SoundFields
  <2>17. /\ v.zorder = y /\ v.windows = s /\ v.focus = f /\ v.nextId = u.nextId
         /\ v.events = u.events /\ v.dropped = u.dropped
    BY <2>1, <2>12 DEF Table
  <2>18. n - 1 \in Nat
    BY <2>3
  <2>19. v \in Table
    <3>1. y \in Seq(Nat)
      BY <2>14, <2>18, PermIsSequence
    <3> QED BY <2>1, <2>12, <2>15, <2>16, <3>1 DEF Table
  <2>20. \A k \in 1 .. n - 1 : Skip(idx, k) \in 1 .. n /\ Skip(idx, k) # idx
    BY SkipFall
  <2>21. ASSUME NEW i \in 1 .. n, i # idx PROVE HasId(v, u.windows[i].id)
    <3>1. Fall(idx, i) \in 1 .. n - 1 /\ Skip(idx, Fall(idx, i)) = i
      BY <2>21, SkipFall
    <3> QED BY <2>15, <2>17, <3>1 DEF HasId
  <2>22. ~HasId(v, x)
    <3> SUFFICES ASSUME NEW k \in 1 .. n - 1, s[k].id = x PROVE FALSE
      BY <2>15, <2>17 DEF HasId
    <3>1. u.windows[Skip(idx, k)].id = u.windows[idx].id
      BY <2>3, <2>15
    <3> QED BY <2>2, <2>20, <3>1, SoundIds
  <2>23. Ordered(s, u.nextId)
    <3>1. ASSUME NEW i \in 1 .. n - 1, NEW j \in 1 .. n - 1, i < j PROVE s[i].id < s[j].id
      <4>1. Skip(idx, i) < Skip(idx, j)
        BY <3>1, SkipFall
      <4> QED BY <2>1, <2>2, <2>15, <2>20, <4>1 DEF Ordered
    <3>2. \A i \in 1 .. n - 1 : s[i].id < u.nextId
      BY <2>1, <2>2, <2>15, <2>20 DEF Ordered
    <3> QED BY <2>15, <3>1, <3>2 DEF Ordered
  <2>24. Sound(v)
    <3>1. n - 1 <= MaxWindows
      BY <2>2, TableConstants DEF Sound
    <3>2. f # 0 => HasId(v, f)
      <4> SUFFICES ASSUME f # 0 PROVE HasId(v, f)
        OBVIOUS
      <4>1. f = u.focus /\ f # x
        BY <2>11
      <4>2. PICK i \in 1 .. n : u.windows[i].id = f
        BY <2>2, <4>1 DEF Sound, HasId
      <4> QED BY <2>3, <2>21, <4>1, <4>2
    <3> QED BY <2>14, <2>15, <2>17, <2>19, <2>23, <3>1, <3>2 DEF Sound
  <2>25. Inherits(u, v)
    BY <2>2, <2>15, <2>17, <2>20 DEF Inherits, SameWindow
  <2>26. Layered(u, v)
    <3> SUFFICES ASSUME NEW a, NEW b, Drawn(u, a, b), HasId(v, a), HasId(v, b)
                 PROVE  Drawn(v, a, b)
      BY DEF Layered
    <3>1. PICK k \in 1 .. n, m \in 1 .. n :
            k < m /\ u.windows[z[k]].id = a /\ u.windows[z[m]].id = b
      BY <2>2, <2>4 DEF Drawn
    <3>2. a # x /\ b # x
      BY <2>22
    <3>3. k # zpos /\ m # zpos
      BY <2>3, <2>7, <3>1, <3>2
    <3>4. PICK p \in 1 .. n - 1, q \in 1 .. n - 1 : p = Fall(zpos, k) /\ q = Fall(zpos, m)
      BY <2>7, <3>3, SkipFall
    <3>5. p < q /\ Skip(zpos, p) = k /\ Skip(zpos, q) = m
      BY <2>7, <3>1, <3>3, <3>4, SkipFall, ZenonT(40)
    <3>6. z[k] \in 1 .. n /\ z[m] \in 1 .. n
      BY <2>5 DEF Perm
    <3>7. y[p] = Fall(idx, z[k]) /\ y[q] = Fall(idx, z[m]) /\ z[k] # idx /\ z[m] # idx
      BY <2>14, <3>5
    <3>8. /\ y[p] \in 1 .. n - 1 /\ Skip(idx, y[p]) = z[k]
          /\ y[q] \in 1 .. n - 1 /\ Skip(idx, y[q]) = z[m]
      <4>1. \A i \in 1 .. n : i # idx => Fall(idx, i) \in 1 .. n - 1 /\ Skip(idx, Fall(idx, i)) = i
        BY SkipFall
      <4> QED BY <3>6, <3>7, <4>1
    <3>9. s[y[p]].id = a /\ s[y[q]].id = b
      BY <2>15, <3>1, <3>8
    <3> QED BY <2>15, <2>17, <3>5, <3>9 DEF Drawn
  <2>27. Pushes(u, v, 0)
    BY <2>17, NothingPushed
  <2>28. u.nextId <= v.nextId
    BY <2>17, SoundFields
  <2>29. Keeps(u, v, 0)
    BY <2>17, <2>24, <2>25, <2>26, <2>27, <2>28 DEF Keeps, Follows
  <2>30. Keeps(v, pushEvent(v), 1) /\ pushEvent(v).windows = v.windows
    BY <2>24, PushKeeps
  <2>31. Keeps(u, pushEvent(v), 0 + 1)
    BY <2>29, <2>30, KeepsTransitive
  <2>32. ~HasId(pushEvent(v), x)
    BY <2>22, <2>30 DEF HasId
  <2>33. Len(pushEvent(v).windows) <= Len(u.windows)
    BY <2>2, <2>15, <2>17, <2>30
  <2> QED BY <2>13, <2>31, <2>32, <2>33
<1> QED BY <1>1, <1>2

(***************************************************************************)
(* More room for events is no restriction for these calls either.          *)
(***************************************************************************)
LEMMA KeepsWeaken ==
  ASSUME NEW u, NEW v, NEW k \in Nat, NEW m \in Nat, k <= m, Sound(u), Keeps(u, v, k)
  PROVE  Keeps(u, v, m)
  BY FollowsWeaken DEF Keeps

(***************************************************************************)
(* What is kept is sound.                                                  *)
(***************************************************************************)
LEMMA KeepsSound ==
  ASSUME NEW u, NEW v, NEW k, Keeps(u, v, k)
  PROVE  Sound(v)
  BY DEF Keeps, Follows

(***************************************************************************)
(* BringToFront (framework.cpp:429-442) raises within the layer.           *)
(***************************************************************************)
LEMMA BringKeeps ==
  ASSUME NEW u, Sound(u), NEW x \in Nat, NEW user \in BOOLEAN
  PROVE  /\ Keeps(u, BringToFront(u, x, user), 1)
         /\ BringToFront(u, x, user).windows = u.windows
<1>1. CASE ~HasId(u, x)
  <2>1. BringToFront(u, x, user) = u
    BY <1>1, FindIndex DEF BringToFront
  <2> QED BY <2>1, SelfKeeps
<1>2. CASE HasId(u, x)
  <2>1. Live(u, x) /\ findIndexById(u, x) \in 1 .. Len(u.windows)
    BY <1>2, FindIndex
  <2>2. PICK top : top = moveWindowToLayerTop(u, findIndexById(u, x))
    OBVIOUS
  <2>3. Keeps(u, top, 0) /\ top.windows = u.windows
    BY <2>1, <2>2, MoveKeeps
  <2>4. Sound(top) /\ HasId(top, x)
    BY <1>2, <2>3, KeepsSound DEF HasId
  <2>5. PICK v : v = [top EXCEPT !.focus = x]
    OBVIOUS
  <2>6. Keeps(top, v, 0) /\ v.windows = top.windows
    BY <2>4, <2>5, FocusKeeps
  <2>7. Sound(v)
    BY <2>6, KeepsSound
  <2>8. Keeps(v, pushEvent(v), 1) /\ pushEvent(v).windows = v.windows
    BY <2>7, PushKeeps
  <2>9. Keeps(u, v, 0 + 0)
    BY <2>3, <2>6, KeepsTransitive
  <2>10. Keeps(u, pushEvent(v), 0 + 1)
    BY <2>8, <2>9, KeepsTransitive
  <2>11. Keeps(u, top, 1)
    BY <2>3, KeepsWeaken
  <2>12. BringToFront(u, x, user) \in {top, pushEvent(v)}
    BY <2>1, <2>2, <2>5 DEF BringToFront
  <2> QED BY <2>3, <2>6, <2>8, <2>10, <2>11, <2>12
<1> QED BY <1>1, <1>2

(***************************************************************************)
(* Raising and focusing a window gives it the focus, if it exists.         *)
(***************************************************************************)
LEMMA RaiseKeeps ==
  ASSUME NEW u, Sound(u), NEW x \in Nat
  PROVE  /\ Keeps(u, RaiseAndFocus(u, x), 1)
         /\ RaiseAndFocus(u, x).windows = u.windows
         /\ HasId(u, x) => RaiseAndFocus(u, x).focus = x
<1>1. PICK v : v = BringToFront(u, x, FALSE)
  OBVIOUS
<1>2. Keeps(u, v, 1) /\ v.windows = u.windows
  BY <1>1, BringKeeps
<1>3. Sound(v)
  BY <1>2, KeepsSound
<1>4. PICK w : w = SetFocusedWindow(v, x)
  OBVIOUS
<1>5. Keeps(v, w, 0) /\ w.windows = v.windows /\ (HasId(v, x) => w.focus = x)
  BY <1>3, <1>4, SetFocusedKeeps
<1>6. Keeps(u, w, 1 + 0)
  BY <1>2, <1>5, KeepsTransitive
<1>7. HasId(u, x) => HasId(v, x)
  BY <1>2 DEF HasId
<1>8. RaiseAndFocus(u, x) = w
  BY <1>1, <1>4 DEF RaiseAndFocus
<1>9. Keeps(u, w, 1)
  BY <1>6
<1>10. w.windows = u.windows /\ (HasId(u, x) => w.focus = x)
  BY <1>2, <1>5, <1>7
<1> QED BY <1>8, <1>9, <1>10

(***************************************************************************)
(* MinimizeWindow (framework.cpp:540-549).                                 *)
(***************************************************************************)
LEMMA MinimizeKeeps ==
  ASSUME NEW u, Sound(u), NEW x
  PROVE  Keeps(u, MinimizeWindow(u, x), 1)
<1>1. CASE ~HasFlag(u, x, "Minimizable")
  <2>1. MinimizeWindow(u, x) = u
    BY <1>1 DEF MinimizeWindow
  <2> QED BY <2>1, SelfKeeps
<1>2. CASE HasFlag(u, x, "Minimizable")
  <2>1. HasId(u, x)
    BY <1>2, FindIndex DEF HasFlag
  <2>2. PICK a : a = SetState(u, x, "Minimized")
    OBVIOUS
  <2>3. Keeps(u, a, 0)
    BY <2>1, <2>2, SetStateKeeps DEF WindowState
  <2>4. Sound(a)
    BY <2>3, KeepsSound
  <2>5. PICK f : f = IF a.focus = x THEN 0 ELSE a.focus
    OBVIOUS
  <2>6. f \in Nat /\ (f # 0 => HasId(a, f))
    BY <2>4, <2>5, SoundFields DEF Sound
  <2>7. PICK v : v = [a EXCEPT !.focus = f]
    OBVIOUS
  <2>8. Keeps(a, v, 0)
    BY <2>4, <2>6, <2>7, FocusKeeps
  <2>9. Keeps(v, pushEvent(v), 1)
    BY <2>8, KeepsSound, PushKeeps
  <2>10. Keeps(u, v, 0 + 0)
    BY <2>3, <2>8, KeepsTransitive
  <2>11. Keeps(u, pushEvent(v), 0 + 1)
    BY <2>9, <2>10, KeepsTransitive
  <2>12. v = [a EXCEPT !.focus = IF @ = x THEN 0 ELSE @]
    BY <2>5, <2>7
  <2>13. MinimizeWindow(u, x) = pushEvent(v)
    BY <1>2, <2>2, <2>12 DEF MinimizeWindow
  <2> QED BY <2>11, <2>13
<1> QED BY <1>1, <1>2

(***************************************************************************)
(* Giving a window another state and reporting it.                         *)
(***************************************************************************)
LEMMA StatePushKeeps ==
  ASSUME NEW u, Sound(u), NEW x, HasId(u, x), NEW st \in WindowState
  PROVE  Keeps(u, pushEvent(SetState(u, x, st)), 1)
<1>1. PICK a : a = SetState(u, x, st)
  OBVIOUS
<1>2. Keeps(u, a, 0)
  BY <1>1, SetStateKeeps
<1>3. Keeps(a, pushEvent(a), 1)
  BY <1>2, KeepsSound, PushKeeps
<1>4. Keeps(u, pushEvent(a), 0 + 1)
  BY <1>2, <1>3, KeepsTransitive
<1> QED BY <1>1, <1>4

(***************************************************************************)
(* ToggleMaximize and RestoreWindow (framework.cpp:551-598).               *)
(***************************************************************************)
LEMMA ToggleKeeps ==
  ASSUME NEW u, Sound(u), NEW x
  PROVE  Keeps(u, ToggleMaximize(u, x), 1) /\ Keeps(u, RestoreWindow(u, x), 1)
<1>1. Keeps(u, u, 1)
  BY SelfKeeps
<1>2. Keeps(u, ToggleMaximize(u, x), 1)
  <2>1. CASE ~HasFlag(u, x, "Maximizable")
    BY <1>1, <2>1 DEF ToggleMaximize
  <2>2. CASE HasFlag(u, x, "Maximizable")
    <3>1. HasId(u, x)
      BY <2>2, FindIndex DEF HasFlag
    <3>2. PICK st \in WindowState :
            st = IF GetWindowState(u, x) = "Maximized" THEN "Normal" ELSE "Maximized"
      BY DEF WindowState
    <3>3. ToggleMaximize(u, x) = pushEvent(SetState(u, x, st))
      BY <2>2, <3>2 DEF ToggleMaximize
    <3> QED BY <3>1, <3>3, StatePushKeeps
  <2> QED BY <2>1, <2>2
<1>3. Keeps(u, RestoreWindow(u, x), 1)
  <2>1. CASE GetWindowState(u, x) # "Minimized"
    BY <1>1, <2>1 DEF RestoreWindow
  <2>2. CASE GetWindowState(u, x) = "Minimized"
    <3>1. HasId(u, x)
      BY <2>2, FindIndex DEF GetWindowState
    <3>2. RestoreWindow(u, x) = pushEvent(SetState(u, x, "Normal"))
      BY <2>2 DEF RestoreWindow
    <3>3. "Normal" \in WindowState
      BY DEF WindowState
    <3> QED BY <3>1, <3>2, <3>3, StatePushKeeps
  <2> QED BY <2>1, <2>2
<1> QED BY <1>2, <1>3

(***************************************************************************)
(* A press on a window or its frame pushes at most two events: the raised  *)
(* window's and the button's (framework.cpp:613-652).                      *)
(***************************************************************************)
LEMMA PressKeeps ==
  ASSUME NEW u, Sound(u), NEW hit, hit.win \in Nat
  PROVE  Keeps(u, Press(u, hit), 2)
<1>1. CASE hit = NoHit
  BY <1>1, SelfKeeps DEF Press
<1>2. CASE hit # NoHit
  <2>1. PICK x \in Nat : x = hit.win
    OBVIOUS
  <2>2. PICK top : top = BringToFront(u, x, TRUE)
    OBVIOUS
  <2>3. Keeps(u, top, 1)
    BY <2>2, BringKeeps
  <2>4. Sound(top)
    BY <2>3, KeepsSound
  <2>5. Keeps(top, Press(u, hit), 1)
    <3>1. Keeps(top, CloseWindow(top, x), 1) /\ Keeps(top, MinimizeWindow(top, x), 1)
      BY <2>4, CloseKeeps, MinimizeKeeps
    <3>2. Keeps(top, ToggleMaximize(top, x), 1) /\ Keeps(top, top, 1)
      BY <2>4, ToggleKeeps, SelfKeeps
    <3>3. Keeps(top, [top EXCEPT !.gesture = "drag", !.held = x], 1)
      <4>1. Keeps(top, [top EXCEPT !.gesture = "drag", !.held = x], 0)
        BY <2>4, GestureKeeps DEF Gesture
      <4> QED BY <2>4, <4>1, KeepsWeaken
    <3>4. Keeps(top, [top EXCEPT !.gesture = "resize", !.held = x], 1)
      <4>1. Keeps(top, [top EXCEPT !.gesture = "resize", !.held = x], 0)
        BY <2>4, GestureKeeps DEF Gesture
      <4> QED BY <2>4, <4>1, KeepsWeaken
    <3>5. Press(u, hit) \in {CloseWindow(top, x), MinimizeWindow(top, x), ToggleMaximize(top, x), top,
                             [top EXCEPT !.gesture = "drag", !.held = x],
                             [top EXCEPT !.gesture = "resize", !.held = x]}
      BY <1>2, <2>1, <2>2 DEF Press
    <3> QED BY <3>1, <3>2, <3>3, <3>4, <3>5
  <2>6. Keeps(u, Press(u, hit), 1 + 1)
    BY <2>3, <2>5, KeepsTransitive
  <2> QED BY <2>6
<1> QED BY <1>1, <1>2

(***************************************************************************)
(* UpdateInteractions, in whatever state the gesture is.                   *)
(***************************************************************************)
LEMMA InteractKeeps ==
  ASSUME NEW u, Sound(u), NEW left, NEW hit, hit.win \in Nat, NEW moves
  PROVE  Keeps(u, UpdateInteractions(u, left, hit, moves), 2)
<1>1. Keeps(u, Press(u, hit), 2)
  BY PressKeeps
<1>2. Keeps(u, pushEvent(u), 2)
  BY PushKeeps, KeepsWeaken
<1>3. Keeps(u, u, 2)
  BY SelfKeeps
<1>4. Keeps(u, [u EXCEPT !.gesture = "none", !.held = 0], 2)
  <2>1. Keeps(u, [u EXCEPT !.gesture = "none", !.held = 0], 0)
    BY GestureKeeps DEF Gesture
  <2> QED BY <2>1, KeepsWeaken
<1>5. UpdateInteractions(u, left, hit, moves)
        \in {Press(u, hit), pushEvent(u), u, [u EXCEPT !.gesture = "none", !.held = 0]}
  BY DEF UpdateInteractions
<1> QED BY <1>1, <1>2, <1>3, <1>4, <1>5

(***************************************************************************)
(* A click on a taskbar button restores, minimizes or raises.              *)
(***************************************************************************)
LEMMA ClickKeeps ==
  ASSUME NEW u, Sound(u), NEW x \in Nat
  PROVE  Keeps(u, TaskbarClick(u, x), 2) /\ Keeps(u, RaiseAndFocus(RestoreWindow(u, x), x), 2)
<1>1. PICK v : v = RestoreWindow(u, x)
  OBVIOUS
<1>2. Keeps(u, v, 1)
  BY <1>1, ToggleKeeps
<1>3. Keeps(v, RaiseAndFocus(v, x), 1)
  BY <1>2, KeepsSound, RaiseKeeps
<1>4. Keeps(u, RaiseAndFocus(v, x), 1 + 1)
  BY <1>2, <1>3, KeepsTransitive
<1>5. Keeps(u, RaiseAndFocus(v, x), 2)
  BY <1>4
<1>6. Keeps(u, MinimizeWindow(u, x), 2) /\ Keeps(u, RaiseAndFocus(u, x), 2)
  BY MinimizeKeeps, RaiseKeeps, KeepsWeaken
<1>7. TaskbarClick(u, x) \in {RaiseAndFocus(v, x), MinimizeWindow(u, x), RaiseAndFocus(u, x)}
  BY <1>1 DEF TaskbarClick
<1> QED BY <1>1, <1>5, <1>6, <1>7

------------------------------------------------------------------------------
(***************************************************************************)
(* The phases of Tick.                                                     *)
(***************************************************************************)
\* OneTerminalWindow, of a table and the terminal's window.
Terminal(u, t) == \A i \in 1 .. Len(u.windows) : u.windows[i].title = "Shell" => u.windows[i].id = t

\* The same while the terminal changes its window.
Shells(u, S) == \A i \in 1 .. Len(u.windows) : u.windows[i].title = "Shell" => u.windows[i].id \in S

\* The registry holds at most its entries, each an id with its component.
Registry(reg) ==
  /\ reg \subseteq (Nat \X Title) /\ IsFiniteSet(reg) /\ Cardinality(reg) <= MaxComponents

\* What a phase of Tick works on.
Work ==
  [ui : Table, login : BOOLEAN, win : Nat, term : Nat, menu : Nat,
   reg : SUBSET (Nat \X Title), apps : BOOLEAN]

WorkOK(w) == w \in Work /\ Sound(w.ui) /\ Registry(w.reg) /\ Terminal(w.ui, w.term)

\* What a phase makes of it, with at most k events.
Advances(w, v, k) == WorkOK(v) /\ v.login = w.login /\ Follows(w.ui, v.ui, k)

(***************************************************************************)
(* The fields of what a phase works on.                                    *)
(***************************************************************************)
LEMMA WorkFields ==
  ASSUME NEW w, WorkOK(w)
  PROVE  /\ w.login \in BOOLEAN /\ w.win \in Nat /\ w.term \in Nat /\ w.menu \in Nat /\ w.apps \in BOOLEAN
         /\ Sound(w.ui) /\ Registry(w.reg) /\ Terminal(w.ui, w.term)
<1>1. w \in Work
  BY DEF WorkOK
<1> QED BY <1>1 DEF WorkOK, Work

(***************************************************************************)
(* Phases compose.                                                         *)
(***************************************************************************)
LEMMA AdvancesTransitive ==
  ASSUME NEW a, NEW b, NEW c, NEW k \in Nat, NEW m \in Nat,
         WorkOK(a), Advances(a, b, k), Advances(b, c, m)
  PROVE  Advances(a, c, k + m)
<1>1. Follows(a.ui, c.ui, k + m)
  BY WorkFields, FollowsTransitive DEF Advances
<1> QED BY <1>1 DEF Advances

(***************************************************************************)
(* A phase with room for more events.                                      *)
(***************************************************************************)
LEMMA AdvancesWeaken ==
  ASSUME NEW a, NEW b, NEW k \in Nat, NEW m \in Nat, k <= m, WorkOK(a), Advances(a, b, k)
  PROVE  Advances(a, b, m)
  BY WorkFields, FollowsWeaken DEF Advances

(***************************************************************************)
(* No window is retitled.                                                  *)
(***************************************************************************)
LEMMA ShellsKept ==
  ASSUME NEW u, NEW v, NEW k, Keeps(u, v, k), NEW S, Shells(u, S)
  PROVE  Shells(v, S)
<1> SUFFICES ASSUME NEW j \in 1 .. Len(v.windows), v.windows[j].title = "Shell"
             PROVE  v.windows[j].id \in S
  BY DEF Shells
<1>1. Sound(v) /\ Inherits(u, v) /\ v.nextId = u.nextId
  BY DEF Keeps, Follows
<1>2. v.windows[j].id < u.nextId
  BY <1>1, SoundIds
<1>3. PICK i \in 1 .. Len(u.windows) : SameWindow(u.windows[i], v.windows[j])
  BY <1>1, <1>2 DEF Inherits
<1> QED BY <1>3 DEF Shells, SameWindow

(***************************************************************************)
(* In particular the terminal's window stays the only one.                 *)
(***************************************************************************)
LEMMA TerminalKept ==
  ASSUME NEW u, NEW v, NEW k, Keeps(u, v, k), NEW t, Terminal(u, t)
  PROVE  Terminal(v, t)
<1>1. Shells(u, {t})
  BY DEF Terminal, Shells
<1>2. Shells(v, {t})
  BY <1>1, ShellsKept
<1> QED BY <1>2 DEF Terminal, Shells

(***************************************************************************)
(* A phase that only calls the framework, and creates no window.           *)
(***************************************************************************)
LEMMA UiAdvances ==
  ASSUME NEW w, WorkOK(w), NEW v, NEW k \in Nat, Keeps(w.ui, v, k)
  PROVE  /\ Advances(w, [w EXCEPT !.ui = v], k)
         /\ [w EXCEPT !.ui = v].ui = v /\ [w EXCEPT !.ui = v].win = w.win
         /\ [w EXCEPT !.ui = v].term = w.term /\ [w EXCEPT !.ui = v].reg = w.reg
         /\ [w EXCEPT !.ui = v].apps = w.apps
<1>1. w \in Work
  BY DEF WorkOK
<1>2. PICK x : x = [w EXCEPT !.ui = v]
  OBVIOUS
<1>3. /\ x.ui = v /\ x.login = w.login /\ x.win = w.win /\ x.term = w.term /\ x.reg = w.reg
      /\ x.apps = w.apps
  BY <1>1, <1>2 DEF Work
<1>4. Sound(v) /\ Follows(w.ui, v, k)
  BY DEF Keeps, Follows
<1>5. x \in Work
  <2>1. v \in Table
    BY <1>4 DEF Sound
  <2> QED BY <1>1, <1>2, <2>1 DEF Work
<1>6. Terminal(v, w.term)
  BY WorkFields, TerminalKept
<1>7. WorkOK(x)
  BY <1>3, <1>4, <1>5, <1>6 DEF WorkOK
<1>8. Advances(w, x, k)
  BY <1>3, <1>4, <1>7 DEF Advances
<1> QED BY <1>2, <1>3, <1>8

(***************************************************************************)
(* A phase that does nothing.                                              *)
(***************************************************************************)
LEMMA SelfAdvances ==
  ASSUME NEW w, WorkOK(w), NEW k \in Nat
  PROVE  Advances(w, w, k)
<1>1. Keeps(w.ui, w.ui, k)
  BY WorkFields, SelfKeeps
<1> QED BY <1>1 DEF Advances, Keeps

(***************************************************************************)
(* A new window has a new id, and the windows before keep theirs, so no    *)
(* other window becomes a terminal's (CreateWindowEx, framework.cpp:276).  *)
(***************************************************************************)
LEMMA CreateTerminal ==
  ASSUME NEW u, Sound(u), NEW title \in Title, NEW role \in Role, NEW flags \in SUBSET Flag, NEW t
  PROVE  /\ Follows(u, CreateWindowEx(u, title, role, flags), 0)
         /\ NewId(u) \in Nat
         /\ title # "Shell" /\ Terminal(u, t) => Terminal(CreateWindowEx(u, title, role, flags), t)
         /\ NewId(u) # 0 => HasId(CreateWindowEx(u, title, role, flags), NewId(u))
         /\ Terminal(u, t) => Shells(CreateWindowEx(u, title, role, flags), {t, NewId(u)})
<1>1. PICK v : v = CreateWindowEx(u, title, role, flags)
  OBVIOUS
<1>2. CASE NewId(u) = 0
  <2>1. v = u
    BY <1>1, <1>2 DEF CreateWindowEx
  <2>2. Follows(u, u, 0)
    BY SelfKeeps DEF Keeps
  <2>3. Terminal(u, t) => Shells(u, {t, NewId(u)})
    BY DEF Terminal, Shells
  <2> QED BY <1>1, <1>2, <2>1, <2>2, <2>3
<1>3. CASE NewId(u) # 0
  <2>1. PICK win : win = [id |-> u.nextId, title |-> title, role |-> role,
                          flags |-> flags, state |-> "Normal"]
    OBVIOUS
  <2>2. /\ Follows(u, v, 0) /\ v.windows = Append(u.windows, win)
        /\ NewId(u) = u.nextId /\ HasId(v, NewId(u))
    BY <1>1, <1>3, <2>1, CreateFollows
  <2>3. NewId(u) \in Nat
    BY <2>2, SoundFields
  <2>4. PICK n \in Nat : n = Len(u.windows)
    BY SoundFields
  <2>5. /\ Len(v.windows) = n + 1 /\ v.windows[n + 1] = win
        /\ \A i \in 1 .. n : v.windows[i] = u.windows[i]
    <3>1. u.windows \in Seq(WindowRecord)
      BY SoundFields
    <3>2. win \in WindowRecord
      BY <2>1, SoundFields DEF WindowRecord, WindowState
    <3> QED BY <2>2, <2>4, <3>1, <3>2
  <2>6. ASSUME NEW i \in 1 .. n + 1, Terminal(u, t), v.windows[i].title = "Shell"
        PROVE  v.windows[i].id \in {t, NewId(u)} /\ (title # "Shell" => v.windows[i].id = t)
    <3>1. CASE i = n + 1
      BY <2>1, <2>2, <2>5, <2>6, <3>1
    <3>2. CASE i \in 1 .. n
      BY <2>4, <2>5, <2>6, <3>2 DEF Terminal
    <3> QED BY <3>1, <3>2
  <2>7. title # "Shell" /\ Terminal(u, t) => Terminal(v, t)
    BY <2>5, <2>6 DEF Terminal
  <2>8. Terminal(u, t) => Shells(v, {t, NewId(u)})
    BY <2>5, <2>6 DEF Shells
  <2> QED BY <1>1, <1>3, <2>2, <2>3, <2>5, <2>7, <2>8
<1> QED BY <1>2, <1>3

(***************************************************************************)
(* SpawnTerminal (window_manager.cpp:818-876) leaves one terminal window,  *)
(* whether or not the new one could be created, and pushes one event less  *)
(* when the terminal had none.                                             *)
(***************************************************************************)
LEMMA SpawnAdvances ==
  ASSUME NEW w, WorkOK(w), NEW memory \in BOOLEAN
  PROVE  /\ Advances(w, SpawnTerminal(w, memory), 2)
         /\ w.term = 0 => Advances(w, SpawnTerminal(w, memory), 1)
<1>1. w \in Work /\ Sound(w.ui) /\ Terminal(w.ui, w.term) /\ w.term \in Nat /\ Registry(w.reg)
  BY WorkFields DEF WorkOK
<1>2. PICK id : id = NewId(w.ui)
  OBVIOUS
<1>3. PICK made : made = CreateWindowEx(w.ui, "Shell", "Normal", Framed)
  OBVIOUS
<1>4. "Shell" \in Title /\ "Normal" \in Role /\ Framed \in SUBSET Flag
  BY DesktopConstants DEF Role, Framed, Flag
<1>5. /\ Follows(w.ui, made, 0) /\ id \in Nat
      /\ Shells(made, {w.term, id})
  BY <1>1, <1>2, <1>3, <1>4, CreateTerminal
<1>6. Sound(made)
  BY <1>5 DEF Follows
<1>7. ASSUME NEW c, NEW t \in Nat, NEW x, NEW k \in Nat, Follows(w.ui, c, k),
             x = [w EXCEPT !.term = t, !.ui = c], Terminal(c, t)
      PROVE  Advances(w, x, k)
  <2>1. x.ui = c /\ x.term = t /\ x.reg = w.reg /\ x.login = w.login
    BY <1>1, <1>7 DEF Work
  <2>2. c \in Table /\ Sound(c)
    BY <1>7 DEF Follows, Sound
  <2>3. x \in Work
    BY <1>1, <1>7, <2>2 DEF Work
  <2>4. WorkOK(x)
    BY <1>1, <1>7, <2>1, <2>2, <2>3 DEF WorkOK
  <2> QED BY <1>7, <2>1, <2>4 DEF Advances
<1>8. CASE id = 0
  <2>1. SpawnTerminal(w, memory) = w
    BY <1>2, <1>8 DEF SpawnTerminal
  <2> QED BY <2>1, SelfAdvances
<1>9. CASE id # 0 /\ w.term = 0 /\ ~memory
  <2>1. PICK c : c = CloseWindow(made, id)
    OBVIOUS
  <2>2. SpawnTerminal(w, memory) = [w EXCEPT !.ui = c]
    BY <1>2, <1>3, <1>9, <2>1 DEF SpawnTerminal
  <2>3. Keeps(made, c, 1) /\ ~HasId(c, id)
    BY <1>6, <2>1, CloseKeeps
  <2>4. Follows(w.ui, c, 0 + 1)
    BY <1>1, <1>5, <2>3, FollowsTransitive DEF Keeps
  <2>5. Shells(c, {w.term, id})
    BY <1>5, <2>3, ShellsKept
  <2>6. Terminal(c, w.term)
    BY <2>3, <2>5 DEF Terminal, Shells, HasId
  <2>7. SpawnTerminal(w, memory) = [w EXCEPT !.term = w.term, !.ui = c]
    BY <1>1, <2>2 DEF Work
  <2>8. Follows(w.ui, c, 1)
    BY <2>4
  <2>9. Advances(w, SpawnTerminal(w, memory), 1)
    BY <1>1, <1>7, <2>6, <2>7, <2>8
  <2> QED BY <2>9, AdvancesWeaken
<1>10. CASE id # 0 /\ ~(w.term = 0 /\ ~memory)
  <2>1. PICK r : r = RaiseAndFocus(made, id)
    OBVIOUS
  <2>2. PICK c : c = CloseWindow(r, w.term)
    OBVIOUS
  <2>3. SpawnTerminal(w, memory) = [w EXCEPT !.term = id, !.ui = c]
    BY <1>2, <1>3, <1>10, <2>1, <2>2 DEF SpawnTerminal
  <2>4. Keeps(made, r, 1)
    BY <1>5, <1>6, <2>1, RaiseKeeps
  <2>5. Sound(r)
    BY <2>4, KeepsSound
  <2>6. Keeps(r, c, 1) /\ ~HasId(c, w.term)
    BY <2>2, <2>5, CloseKeeps
  <2>7. Follows(w.ui, r, 0 + 1)
    BY <1>1, <1>5, <2>4, FollowsTransitive DEF Keeps
  <2>8. Follows(w.ui, r, 1)
    BY <2>7
  <2>9. Follows(w.ui, c, 1 + 1)
    BY <1>1, <2>6, <2>8, FollowsTransitive DEF Keeps
  <2>10. Shells(c, {w.term, id})
    BY <1>5, <2>4, <2>6, ShellsKept
  <2>11. Terminal(c, id)
    BY <2>6, <2>10 DEF Terminal, Shells, HasId
  <2>12. Follows(w.ui, c, 2)
    BY <2>9
  <2>13. Advances(w, SpawnTerminal(w, memory), 2)
    BY <1>5, <1>7, <2>3, <2>11, <2>12
  <2>14. ASSUME w.term = 0 PROVE Advances(w, SpawnTerminal(w, memory), 1)
    <3>1. ~HasId(r, 0)
      BY <2>5, SoundIds DEF HasId
    <3>2. c = r
      BY <2>2, <2>5, <2>14, <3>1, FindIndex DEF CloseWindow
    <3>3. Follows(w.ui, c, 1)
      BY <2>8, <3>2
    <3> QED BY <1>5, <1>7, <2>3, <2>11, <3>3
  <2> QED BY <2>13, <2>14
<1> QED BY <1>8, <1>9, <1>10

(***************************************************************************)
(* RegisterComponent stops at a full registry (window_registry.cpp:11-32). *)
(***************************************************************************)
LEMMA RegisterOK ==
  ASSUME NEW reg, Registry(reg), NEW c \in Title, NEW id \in Nat
  PROVE  Registry(RegisterComponent(reg, c, id))
<1>1. CASE RegisterComponent(reg, c, id) = reg
  BY <1>1
<1>2. CASE RegisterComponent(reg, c, id) # reg
  <2>1. RegisterComponent(reg, c, id) = reg \cup {<<id, c>>} /\ ~(Cardinality(reg) >= MaxComponents)
    BY <1>2 DEF RegisterComponent
  <2>2. IsFiniteSet(reg) /\ Cardinality(reg) \in Nat
    BY FS_CardinalityType DEF Registry
  <2>3. IsFiniteSet(reg \cup {<<id, c>>})
    BY <2>2, FS_AddElement
  <2>4. Cardinality(reg \cup {<<id, c>>}) = Cardinality(reg) \/ Cardinality(reg \cup {<<id, c>>}) = Cardinality(reg) + 1
    BY <2>2, FS_AddElement
  <2>5. Cardinality(reg \cup {<<id, c>>}) <= MaxComponents
    BY <2>1, <2>2, <2>4, DesktopConstants
  <2>6. reg \cup {<<id, c>>} \subseteq Nat \X Title
    BY DEF Registry
  <2> QED BY <2>1, <2>3, <2>5, <2>6 DEF Registry
<1> QED BY <1>1, <1>2

(***************************************************************************)
(* The application menu is shown again or created.                         *)
(***************************************************************************)
LEMMA MenuAdvances ==
  ASSUME NEW w, WorkOK(w)
  PROVE  Advances(w, ShowAppMenuWindow(w), 2)
<1>1. /\ w \in Work /\ Sound(w.ui) /\ Terminal(w.ui, w.term) /\ w.term \in Nat /\ w.menu \in Nat
      /\ Registry(w.reg)
  BY WorkFields DEF WorkOK
<1>2. CASE ShowAppMenuWindow(w) = w
  BY <1>2, SelfAdvances
<1>3. CASE w.apps /\ Live(w.ui, w.menu)
  <2>1. PICK v : v = RaiseAndFocus(RestoreWindow(w.ui, w.menu), w.menu)
    OBVIOUS
  <2>2. Keeps(w.ui, v, 2)
    BY <1>1, <2>1, ClickKeeps
  <2>3. ShowAppMenuWindow(w) = [w EXCEPT !.ui = v]
    BY <1>3, <2>1 DEF ShowAppMenuWindow
  <2> QED BY <2>2, <2>3, UiAdvances
<1>4. CASE w.apps /\ ~Live(w.ui, w.menu) /\ NewId(w.ui) # 0
  <2>1. PICK id : id = NewId(w.ui)
    OBVIOUS
  <2>2. PICK v : v = CreateWindowEx(w.ui, "Applications", "Dialog", {"Minimizable", "Closable"})
    OBVIOUS
  <2>3. "Applications" \in Title /\ "Dialog" \in Role /\ {"Minimizable", "Closable"} \in SUBSET Flag
    BY DesktopConstants DEF Role, Flag
  <2>4. Follows(w.ui, v, 0) /\ id \in Nat /\ Terminal(v, w.term)
    BY <1>1, <2>1, <2>2, <2>3, CreateTerminal
  <2>5. PICK reg : reg = RegisterComponent(w.reg, "Applications", id)
    OBVIOUS
  <2>6. Registry(reg)
    BY <1>1, <2>3, <2>4, <2>5, RegisterOK
  <2>7. PICK x : x = [w EXCEPT !.ui = v, !.menu = id, !.reg = reg]
    OBVIOUS
  <2>8. ShowAppMenuWindow(w) = x
    BY <1>4, <2>1, <2>2, <2>5, <2>7 DEF ShowAppMenuWindow
  <2>9. x.ui = v /\ x.reg = reg /\ x.term = w.term /\ x.login = w.login
    BY <1>1, <2>7 DEF Work
  <2>10. Sound(v) /\ v \in Table
    BY <2>4 DEF Follows, Sound
  <2>11. x \in Work
    BY <1>1, <2>4, <2>6, <2>7, <2>10 DEF Work, Registry
  <2>12. Advances(w, x, 0)
    BY <2>4, <2>6, <2>9, <2>10, <2>11 DEF Advances, WorkOK
  <2> QED BY <2>8, <2>12, AdvancesWeaken
<1> QED BY <1>2, <1>3, <1>4 DEF ShowAppMenuWindow

(***************************************************************************)
(* One window of the desktop (CreatePostLoginWindows): at most one event,  *)
(* and not a terminal's.                                                   *)
(***************************************************************************)
LEMMA CreateOneAdvances ==
  ASSUME NEW w, WorkOK(w), NEW k \in 1 .. Len(PostLogin)
  PROVE  Advances(w, CreateOne(w, PostLogin[k]), 1) /\ CreateOne(w, PostLogin[k]).term = w.term
<1>1. /\ w \in Work /\ Sound(w.ui) /\ Terminal(w.ui, w.term) /\ w.term \in Nat /\ Registry(w.reg)
  BY WorkFields DEF WorkOK
<1>2. PICK spec : spec = PostLogin[k]
  OBVIOUS
<1>3. /\ spec.title \in Title \ {"Shell"} /\ spec.role \in Role /\ spec.flags \in SUBSET Flag
      /\ spec.then \in {"plain", "raised", "focused", "hidden"}
  <2>1. PICK S : S = [title : Title \ {"Shell"}, role : Role, flags : SUBSET Flag,
                      then : {"plain", "raised", "focused", "hidden"}]
    OBVIOUS
  <2>2. PostLogin \in Seq(S)
    BY <2>1, DesktopConstants
  <2>3. spec \in S
    BY <1>2, <2>2
  <2> QED BY <2>1, <2>3
<1>4. PICK id : id = NewId(w.ui)
  OBVIOUS
<1>5. PICK made : made = CreateWindowEx(w.ui, spec.title, spec.role, spec.flags)
  OBVIOUS
<1>6. Follows(w.ui, made, 0) /\ id \in Nat /\ Terminal(made, w.term)
  BY <1>1, <1>3, <1>4, <1>5, CreateTerminal
<1>7. Sound(made)
  BY <1>6 DEF Follows
<1>8. PICK v : v = CASE spec.then = "hidden"  -> MinimizeWindow(made, id)
                     [] spec.then = "raised"  -> BringToFront(made, id, FALSE)
                     [] spec.then = "focused" -> RaiseAndFocus(made, id)
                     [] spec.then = "plain"   -> made
  OBVIOUS
<1>9. Keeps(made, v, 1)
  <2>1. Keeps(made, MinimizeWindow(made, id), 1) /\ Keeps(made, BringToFront(made, id, FALSE), 1)
    BY <1>6, <1>7, MinimizeKeeps, BringKeeps
  <2>2. Keeps(made, RaiseAndFocus(made, id), 1) /\ Keeps(made, made, 1)
    BY <1>6, <1>7, RaiseKeeps, SelfKeeps
  <2>3. v \in {MinimizeWindow(made, id), BringToFront(made, id, FALSE), RaiseAndFocus(made, id), made}
    BY <1>3, <1>8
  <2> QED BY <2>1, <2>2, <2>3
<1>10. Follows(w.ui, v, 0 + 1)
  BY <1>1, <1>6, <1>9, FollowsTransitive DEF Keeps
<1>11. Follows(w.ui, v, 1) /\ Sound(v) /\ v \in Table
  BY <1>10 DEF Follows, Sound
<1>12. Terminal(v, w.term)
  BY <1>6, <1>9, TerminalKept
<1>13. PICK reg : reg = RegisterComponent(w.reg, spec.title, id)
  OBVIOUS
<1>14. Registry(reg)
  BY <1>1, <1>3, <1>6, <1>13, RegisterOK
<1>15. PICK x : x = [w EXCEPT !.ui = v, !.reg = reg]
  OBVIOUS
<1>16. CreateOne(w, spec) = x
  BY <1>4, <1>5, <1>8, <1>13, <1>15 DEF CreateOne
<1>17. x.ui = v /\ x.reg = reg /\ x.term = w.term /\ x.login = w.login
  BY <1>1, <1>15 DEF Work
<1>18. x \in Work
  BY <1>1, <1>11, <1>14, <1>15 DEF Work, Registry
<1>19. Advances(w, x, 1)
  BY <1>11, <1>12, <1>14, <1>17, <1>18 DEF Advances, WorkOK
<1> QED BY <1>2, <1>16, <1>17, <1>19

\* f holds what there is after each window of the desktop, up to the m-th.
Creates(w, m, f) ==
  f = [k \in 0 .. m |-> IF k = 0 THEN w ELSE CreateOne(f[k - 1], PostLogin[k])]

(***************************************************************************)
(* The windows of the desktop can be created one after the other.          *)
(***************************************************************************)
LEMMA CreatesExists ==
  ASSUME NEW w, NEW m \in Nat
  PROVE  \E f : Creates(w, m, f)
<1> DEFINE T == {j \in Nat : ~ \E f : Creates(w, j, f)}
<1> SUFFICES ASSUME T # {} PROVE FALSE
  OBVIOUS
<1>1. T \subseteq Nat
  OBVIOUS
<1>2. PICK j \in T : \A i \in T : j <= i
  <2> HIDE DEF T
  <2> QED BY <1>1, MinimumExists
<1>3. j \in Nat /\ ~ \E f : Creates(w, j, f)
  OBVIOUS
<1>4. j # 0
  <2>1. PICK f : f = [k \in 0 .. 0 |-> w]
    OBVIOUS
  <2>2. f = [k \in 0 .. 0 |-> IF k = 0 THEN w ELSE CreateOne(f[k - 1], PostLogin[k])]
    BY <2>1
  <2>3. Creates(w, 0, f)
    BY <2>2 DEF Creates
  <2> QED BY <1>3, <2>3
<1>5. j - 1 \in Nat /\ ~(j <= j - 1)
  BY <1>3, <1>4
<1>6. j - 1 \notin T
  BY <1>2, <1>5
<1>7. PICK f : Creates(w, j - 1, f)
  BY <1>5, <1>6
<1>8. f = [k \in 0 .. j - 1 |-> IF k = 0 THEN w ELSE CreateOne(f[k - 1], PostLogin[k])]
  BY <1>7 DEF Creates
<1>9. PICK g : g = [k \in 0 .. j |-> IF k = j THEN CreateOne(f[j - 1], PostLogin[j]) ELSE f[k]]
  OBVIOUS
<1>10. ASSUME NEW k \in 0 .. j
       PROVE  g[k] = IF k = 0 THEN w ELSE CreateOne(g[k - 1], PostLogin[k])
  <2>1. CASE k = 0
    <3>1. g[0] = f[0] /\ 0 \in 0 .. j - 1
      BY <1>3, <1>4, <1>5, <1>9
    <3>2. f[0] = w
      BY <1>8, <3>1
    <3> QED BY <2>1, <3>1, <3>2
  <2>2. CASE k # 0 /\ k # j
    <3>1. k \in 0 .. j - 1 /\ k - 1 \in 0 .. j - 1 /\ k - 1 \in 0 .. j /\ k - 1 # j
      BY <1>3, <2>2
    <3>2. g[k] = f[k] /\ g[k - 1] = f[k - 1]
      BY <1>9, <2>2, <3>1
    <3>3. f[k] = CreateOne(f[k - 1], PostLogin[k])
      BY <1>8, <2>2, <3>1
    <3> QED BY <2>2, <3>2, <3>3
  <2>3. CASE k = j
    <3>1. j \in 0 .. j /\ j - 1 \in 0 .. j /\ j - 1 # j
      BY <1>3, <1>5
    <3>2. g[j] = CreateOne(f[j - 1], PostLogin[j]) /\ g[j - 1] = f[j - 1]
      BY <1>9, <3>1
    <3> QED BY <1>4, <2>3, <3>2
  <2> QED BY <2>1, <2>2, <2>3
<1>11. g = [k \in 0 .. j |-> IF k = 0 THEN w ELSE CreateOne(g[k - 1], PostLogin[k])]
  <2>1. g = [k \in 0 .. j |-> g[k]]
    BY <1>9
  <2> QED BY <1>10, <2>1
<1> QED BY <1>3, <1>11 DEF Creates

(***************************************************************************)
(* All of them push at most as many events as there are windows.           *)
(***************************************************************************)
LEMMA PostLoginAdvances ==
  ASSUME NEW w, WorkOK(w)
  PROVE  /\ Advances(w, CreatePostLoginWindows(w), Len(PostLogin))
         /\ CreatePostLoginWindows(w).term = w.term
<1>1. PICK n \in Nat : n = Len(PostLogin)
  BY DesktopConstants
<1>2. PICK f : f = CHOOSE g : Creates(w, n, g)
  OBVIOUS
<1>3. Creates(w, n, f)
  BY <1>2, CreatesExists
<1>4. CreatePostLoginWindows(w) = f[n]
  BY <1>1, <1>2 DEF CreatePostLoginWindows, Creates
<1>5. \A k \in 0 .. n : f[k] = IF k = 0 THEN w ELSE CreateOne(f[k - 1], PostLogin[k])
  BY <1>3 DEF Creates
<1> DEFINE Good(k) == Advances(w, f[k], k) /\ f[k].term = w.term
           T == {k \in 0 .. n : ~Good(k)}
<1>6. T = {}
  <2> SUFFICES ASSUME T # {} PROVE FALSE
    OBVIOUS
  <2>1. T \subseteq Nat
    OBVIOUS
  <2>2. PICK k \in T : \A i \in T : k <= i
    <3> HIDE DEF T
    <3> QED BY <2>1, MinimumExists
  <2>3. k \in 0 .. n /\ ~Good(k)
    OBVIOUS
  <2>4. k # 0
    <3>1. f[0] = w
      BY <1>1, <1>5
    <3>2. Good(0)
      BY <3>1, SelfAdvances
    <3> HIDE DEF Good
    <3> QED BY <2>3, <3>2
  <2>5. k - 1 \in 0 .. n /\ k \in 1 .. n /\ ~(k <= k - 1) /\ k - 1 \in Nat /\ (k - 1) + 1 = k
    BY <2>3, <2>4
  <2>6. Good(k - 1)
    <3>1. k - 1 \notin T
      <4> HIDE DEF T
      <4> QED BY <2>2, <2>5
    <3> HIDE DEF Good
    <3> QED BY <2>5, <3>1
  <2>7. f[k] = CreateOne(f[k - 1], PostLogin[k])
    BY <1>5, <2>4, <2>5
  <2>8. WorkOK(f[k - 1])
    BY <2>6 DEF Advances
  <2>9. Advances(f[k - 1], f[k], 1) /\ f[k].term = f[k - 1].term
    BY <1>1, <2>5, <2>7, <2>8, CreateOneAdvances
  <2>10. Advances(w, f[k], (k - 1) + 1)
    BY <2>5, <2>6, <2>9, AdvancesTransitive
  <2>11. Good(k)
    BY <2>5, <2>6, <2>9, <2>10
  <2> QED BY <2>3, <2>11
<1>7. Good(n)
  <2>1. n \in 0 .. n
    OBVIOUS
  <2> HIDE DEF Good
  <2> QED BY <1>6, <2>1
<1> QED BY <1>1, <1>4, <1>7

(***************************************************************************)
(* The end of the login: its window closes, the desktop's windows and a    *)
(* terminal follow (window_manager.cpp:1258-1287).                         *)
(***************************************************************************)
LEMMA TransitionFollows ==
  ASSUME NEW w, WorkOK(w), NEW found \in BOOLEAN, NEW memory \in BOOLEAN,
         w.login, s_authenticated, w.term = 0
  PROVE  /\ WorkOK(LoginTransition(w, found, memory))
         /\ Follows(w.ui, LoginTransition(w, found, memory).ui, Len(PostLogin) + 2)
         /\ LoginTransition(w, found, memory).login = FALSE
<1>1. /\ w \in Work /\ Sound(w.ui) /\ Terminal(w.ui, w.term) /\ Registry(w.reg)
  BY WorkFields DEF WorkOK
<1>2. PICK v : v = CloseWindow(w.ui, w.win)
  OBVIOUS
<1>3. Keeps(w.ui, v, 1)
  BY <1>1, <1>2, CloseKeeps
<1>4. Sound(v) /\ v \in Table /\ Follows(w.ui, v, 1)
  BY <1>3 DEF Keeps, Follows, Sound
<1>5. Terminal(v, w.term)
  BY <1>1, <1>3, TerminalKept
<1>6. PICK out : out = [w EXCEPT !.ui = v, !.win = 0, !.login = FALSE, !.apps = found]
  OBVIOUS
<1>7. out.ui = v /\ out.login = FALSE /\ out.term = w.term /\ out.reg = w.reg
  BY <1>1, <1>6 DEF Work
<1>8. out \in Work
  BY <1>1, <1>4, <1>6 DEF Work
<1>9. WorkOK(out)
  BY <1>1, <1>4, <1>5, <1>7, <1>8 DEF WorkOK
<1>10. PICK made : made = CreatePostLoginWindows(out)
  OBVIOUS
<1>11. Advances(out, made, Len(PostLogin)) /\ made.term = 0
  BY <1>7, <1>9, <1>10, PostLoginAdvances
<1>12. WorkOK(made)
  BY <1>11 DEF Advances
<1>13. PICK x : x = SpawnTerminal(made, memory)
  OBVIOUS
<1>14. Advances(made, x, 1)
  BY <1>11, <1>12, <1>13, SpawnAdvances
<1>15. LoginTransition(w, found, memory) = x
  BY <1>2, <1>6, <1>10, <1>13 DEF LoginTransition
<1>16. PICK n \in Nat : n = Len(PostLogin)
  BY DesktopConstants
<1>17. Advances(out, x, n + 1)
  BY <1>9, <1>11, <1>14, <1>16, AdvancesTransitive
<1>18. Follows(v, x.ui, n + 1) /\ WorkOK(x) /\ x.login = FALSE
  BY <1>7, <1>17 DEF Advances
<1>19. n + 1 \in Nat /\ 1 + (n + 1) = n + 2
  OBVIOUS
<1>20. Follows(w.ui, x.ui, 1 + (n + 1))
  BY <1>1, <1>4, <1>18, <1>19, FollowsTransitive
<1> QED BY <1>15, <1>16, <1>18, <1>19, <1>20

(***************************************************************************)
(* The focus is given to a window or stays.                                *)
(***************************************************************************)
LEMMA EnsureFocusAdvances ==
  ASSUME NEW w, WorkOK(w)
  PROVE  Advances(w, EnsureFocus(w), 0) /\ (w.ui.focus # 0 => EnsureFocus(w) = w)
<1>1. CASE w.ui.focus # 0
  BY <1>1, SelfAdvances DEF EnsureFocus
<1>2. CASE w.ui.focus = 0
  <2>1. PICK x \in Nat : x = IF w.login THEN w.win ELSE w.term
    BY WorkFields
  <2>2. Keeps(w.ui, SetFocusedWindow(w.ui, x), 0)
    BY WorkFields, SetFocusedKeeps
  <2>3. EnsureFocus(w) = [w EXCEPT !.ui = SetFocusedWindow(w.ui, x)]
    BY <1>2, <2>1 DEF EnsureFocus
  <2> QED BY <1>2, <2>2, <2>3, UiAdvances
<1> QED BY <1>1, <1>2

(***************************************************************************)
(* What the pointer does pushes at most two events, after the login.       *)
(***************************************************************************)
LEMMA PointerAdvances ==
  ASSUME NEW w, WorkOK(w), ~w.login, NEW left \in BOOLEAN, NEW spot, spot.win \in Nat, NEW moves,
         NEW memory \in BOOLEAN
  PROVE  Advances(w, Pointer(w, left, spot, moves, memory), 2)
<1>1. CASE left /\ spot.region \in Taskbar
  <2>1. Pointer(w, left, spot, moves, memory) = TaskbarHit(w, spot, memory)
    BY <1>1 DEF Pointer
  <2>2. Advances(w, SpawnTerminal(w, memory), 2) /\ Advances(w, ShowAppMenuWindow(w), 2)
    BY SpawnAdvances, MenuAdvances
  <2>3. Advances(w, [w EXCEPT !.ui = TaskbarClick(w.ui, spot.win)], 2)
    <3>1. Keeps(w.ui, TaskbarClick(w.ui, spot.win), 2)
      BY WorkFields, ClickKeeps
    <3> QED BY <3>1, UiAdvances
  <2>4. TaskbarHit(w, spot, memory) \in {SpawnTerminal(w, memory), ShowAppMenuWindow(w),
                                         [w EXCEPT !.ui = TaskbarClick(w.ui, spot.win)]}
    BY <1>1 DEF TaskbarHit, Taskbar
  <2> QED BY <2>1, <2>2, <2>3, <2>4
<1>2. CASE ~(left /\ spot.region \in Taskbar)
  <2>1. PICK v : v = UpdateInteractions(w.ui, left, spot, moves)
    OBVIOUS
  <2>2. Keeps(w.ui, v, 2)
    BY <2>1, WorkFields, InteractKeeps
  <2>3. Pointer(w, left, spot, moves, memory) = [w EXCEPT !.ui = v]
    BY <1>2, <2>1 DEF Pointer
  <2> QED BY <2>2, <2>3, UiAdvances
<1> QED BY <1>1, <1>2

(***************************************************************************)
(* Before it, the pointer only raises the login window.                    *)
(***************************************************************************)
LEMMA PointerAtLogin ==
  ASSUME NEW w, WorkOK(w), w.login, NEW left, NEW spot, NEW moves, NEW memory
  PROVE  /\ Advances(w, Pointer(w, left, spot, moves, memory), 1)
         /\ Pointer(w, left, spot, moves, memory).ui.windows = w.ui.windows
         /\ HasId(w.ui, w.win) => Pointer(w, left, spot, moves, memory).ui.focus = w.win
         /\ Pointer(w, left, spot, moves, memory).win = w.win
         /\ Pointer(w, left, spot, moves, memory).term = w.term
         /\ Pointer(w, left, spot, moves, memory).reg = w.reg
<1>1. PICK v : v = RaiseAndFocus(w.ui, w.win)
  OBVIOUS
<1>2. Keeps(w.ui, v, 1) /\ v.windows = w.ui.windows /\ (HasId(w.ui, w.win) => v.focus = w.win)
  BY <1>1, WorkFields, RaiseKeeps
<1>3. Pointer(w, left, spot, moves, memory) = [w EXCEPT !.ui = v]
  BY <1>1 DEF Pointer
<1>4. PICK x : x = [w EXCEPT !.ui = v]
  OBVIOUS
<1>5. Advances(w, x, 1)
  BY <1>2, <1>4, UiAdvances
<1>6. x.ui = v /\ x.win = w.win /\ x.term = w.term /\ x.reg = w.reg
  BY <1>4 DEF WorkOK, Work
<1>7. Pointer(w, left, spot, moves, memory) = x
  BY <1>3, <1>4
<1> QED BY <1>2, <1>5, <1>6, <1>7

(***************************************************************************)
(* A choice in the menu pushes at most one event; without a registered     *)
(* component there is none.                                                *)
(***************************************************************************)
LEMMA ChooseAdvances ==
  ASSUME NEW w, WorkOK(w), NEW picks
  PROVE  Advances(w, ChooseApp(w, picks), 1) /\ (w.reg = {} => ChooseApp(w, picks) = w)
<1>1. CASE ChooseApp(w, picks) = w
  BY <1>1, SelfAdvances
<1>2. CASE picks /\ MenuReached(w) /\ Live(w.ui, w.menu)
  <2>1. w.reg # {}
    BY <1>2 DEF MenuReached
  <2>2. PICK v : v = MinimizeWindow(w.ui, w.menu)
    OBVIOUS
  <2>3. Keeps(w.ui, v, 1)
    BY <2>2, WorkFields, MinimizeKeeps
  <2>4. PICK y : y = [w EXCEPT !.ui = v]
    OBVIOUS
  <2>5. Advances(w, y, 1)
    BY <2>3, <2>4, UiAdvances
  <2>6. y \in Work /\ WorkOK(y)
    BY <2>5 DEF Advances, WorkOK
  <2>7. PICK x : x = [w EXCEPT !.ui = v, !.menu = 0]
    OBVIOUS
  <2>8. x = [y EXCEPT !.menu = 0]
    BY <2>4, <2>7 DEF WorkOK, Work
  <2>9. x \in Work /\ x.ui = y.ui /\ x.reg = y.reg /\ x.term = y.term /\ x.login = y.login
    BY <2>6, <2>8 DEF Work
  <2>10. Advances(w, x, 1)
    BY <2>5, <2>6, <2>9 DEF Advances, WorkOK
  <2>11. ChooseApp(w, picks) = x
    BY <1>2, <2>2, <2>7 DEF ChooseApp
  <2> QED BY <2>1, <2>10, <2>11
<1> QED BY <1>1, <1>2 DEF ChooseApp

(***************************************************************************)
(* Four events are consumed (window_manager.cpp:1101-1127).                *)
(***************************************************************************)
LEMMA DrainAdvances ==
  ASSUME NEW w, WorkOK(w)
  PROVE  /\ Advances(w, ConsumeEvents(w), 0)
         /\ ConsumeEvents(w).ui.windows = w.ui.windows /\ ConsumeEvents(w).ui.focus = w.ui.focus
         /\ ConsumeEvents(w).ui.events = (IF w.ui.events > 4 THEN w.ui.events - 4 ELSE 0)
         /\ ConsumeEvents(w).ui.dropped = w.ui.dropped
         /\ ConsumeEvents(w).win = w.win /\ ConsumeEvents(w).term = w.term /\ ConsumeEvents(w).reg = w.reg
<1>1. PICK v : v = PollEvents(w.ui, 4)
  OBVIOUS
<1>2. /\ Keeps(w.ui, v, 0) /\ v.windows = w.ui.windows /\ v.focus = w.ui.focus
      /\ v.events = (IF w.ui.events > 4 THEN w.ui.events - 4 ELSE 0) /\ v.dropped = w.ui.dropped
  BY <1>1, WorkFields, PollKeeps
<1>3. ConsumeEvents(w) = [w EXCEPT !.ui = v]
  BY <1>1 DEF ConsumeEvents
<1>4. PICK x : x = [w EXCEPT !.ui = v]
  OBVIOUS
<1>5. Keeps(w.ui, v, 0)
  BY <1>2
<1>6. Advances(w, x, 0)
  BY <1>4, <1>5, UiAdvances
<1>7. x.ui = v /\ x.win = w.win /\ x.term = w.term /\ x.reg = w.reg
  BY <1>4 DEF WorkOK, Work
<1>8. ConsumeEvents(w) = x
  BY <1>3, <1>4
<1> QED BY <1>2, <1>6, <1>7, <1>8

------------------------------------------------------------------------------
(***************************************************************************)
(* The inductive invariant of Desktop.  During the login there is nothing  *)
(* registered, so no menu answers, and the ring is all but empty, so that  *)
(* the end of the login finds room for all its events.                     *)
(***************************************************************************)
AtLogin(u, win, term, reg) ==
  /\ Len(u.windows) = 1 /\ u.windows[1].id = win /\ u.focus = win
  /\ term = 0 /\ reg = {} /\ u.events <= 1

Room(u) == u.events <= Len(PostLogin) + 2 /\ ~u.dropped

DesktopInv ==
  /\ Sound(ui) /\ Room(ui) /\ Terminal(ui, s_windowId) /\ Registry(registered)
  /\ s_login_win_id \in Nat /\ s_windowId \in Nat /\ s_app_menu_win_id \in Nat
  /\ s_login_active \in BOOLEAN /\ s_authenticated \in BOOLEAN /\ apps \in BOOLEAN
  /\ buttons \subseteq Nat
  /\ s_login_active => AtLogin(ui, s_login_win_id, s_windowId, registered)

(***************************************************************************)
(* Start (window_manager.cpp:883-949): the login window alone.             *)
(***************************************************************************)
LEMMA DesktopStarts == DesktopInit => DesktopInv
<1> SUFFICES ASSUME DesktopInit PROVE DesktopInv
  OBVIOUS
<1>1. PICK e : e = EmptyTable
  OBVIOUS
<1>2. /\ e.windows = <<>> /\ e.zorder = <<>> /\ e.nextId = 1 /\ e.focus = 0 /\ e.events = 0
      /\ e.dropped = FALSE
  BY <1>1 DEF EmptyTable
<1>3. Sound(e)
  <2>1. e \in Table
    <3>1. EventSlots \in Nat
      BY TableConstants
    <3> QED BY <1>1, <3>1 DEF EmptyTable, Table, Gesture
  <2>2. Len(e.windows) = 0 /\ Len(e.windows) <= MaxWindows
    BY <1>2, TableConstants
  <2>3. Ordered(e.windows, e.nextId)
    BY <2>2 DEF Ordered
  <2>4. Perm(<<>>, 0)
    BY DEF Perm
  <2> QED BY <1>2, <2>1, <2>2, <2>3, <2>4 DEF Sound
<1>4. NewId(e) # 0
  BY <1>2, TableConstants DEF NewId
<1>5. "Login" \in Title /\ "Dialog" \in Role /\ {"Frameless"} \in SUBSET Flag
  BY DesktopConstants DEF Role, Flag
<1>6. PICK made : made = CreateWindowEx(e, "Login", "Dialog", {"Frameless"})
  OBVIOUS
<1>7. PICK win : win = [id |-> 1, title |-> "Login", role |-> "Dialog",
                        flags |-> {"Frameless"}, state |-> "Normal"]
  OBVIOUS
<1>8. /\ Follows(e, made, 0) /\ made.windows = Append(<<>>, win)
      /\ HasId(made, 1)
  <2>1. Follows(e, made, 0) /\ HasId(made, NewId(e)) /\ NewId(e) = e.nextId
    BY <1>3, <1>4, <1>5, <1>6, CreateFollows
  <2>2. made.windows = Append(e.windows, [id |-> e.nextId, title |-> "Login", role |-> "Dialog",
                                          flags |-> {"Frameless"}, state |-> "Normal"])
    BY <1>3, <1>4, <1>5, <1>6, CreateFollows
  <2> QED BY <1>2, <1>7, <2>1, <2>2
<1>9. Sound(made)
  BY <1>8 DEF Follows
<1>10. PICK u : u = RaiseAndFocus(made, 1)
  OBVIOUS
<1>11. ui = u
  BY <1>1, <1>6, <1>10 DEF DesktopInit, RaiseAndFocus
<1>12. Keeps(made, u, 1) /\ u.windows = made.windows /\ u.focus = 1
  BY <1>8, <1>9, <1>10, RaiseKeeps
<1>13. Follows(e, u, 0 + 1)
  BY <1>3, <1>8, <1>12, FollowsTransitive DEF Keeps
<1>14. Follows(e, u, 1) /\ Sound(u) /\ Pushes(e, u, 1)
  BY <1>13 DEF Follows
<1>15. u.windows = <<win>>
  BY <1>8, <1>12
<1>16. Len(u.windows) = 1 /\ u.windows[1] = win
  BY <1>15
<1>17. u.events \in Nat /\ u.events <= 1 /\ ~u.dropped
  <2>1. EventSlots \in Nat /\ 1 <= EventSlots
    BY TableConstants
  <2> QED BY <1>2, <1>14, <2>1, SoundFields DEF Pushes
<1>18. Room(u)
  <2>1. Len(PostLogin) \in Nat
    BY DesktopConstants
  <2> QED BY <1>17, <2>1 DEF Room
<1>19. Terminal(u, 0)
  BY <1>7, <1>16 DEF Terminal
<1>20. Registry({})
  BY FS_EmptySet, DesktopConstants DEF Registry
<1>21. AtLogin(u, 1, 0, {})
  BY <1>7, <1>12, <1>16, <1>17 DEF AtLogin
<1> QED BY <1>11, <1>14, <1>18, <1>19, <1>20, <1>21 DEF DesktopInv, DesktopInit

(***************************************************************************)
(* What the pointer is on has the id of a window, or none.                 *)
(***************************************************************************)
LEMMA SpotNat ==
  ASSUME DesktopInv, NEW spot \in Spots \cup {NoHit}
  PROVE  spot.win \in Nat
<1>1. Sound(ui) /\ buttons \subseteq Nat
  BY DEF DesktopInv
<1>2. ASSUME NEW h \in Hits(ui) PROVE h.win \in Nat
  <2>1. CASE h = NoHit
    BY <2>1 DEF NoHit
  <2>2. CASE h # NoHit
    <3>1. PICK win \in Range(ui.windows) : \E r \in Regions(win) : h = [win |-> win.id, region |-> r]
      BY <2>2 DEF Hits
    <3>2. PICK i \in 1 .. Len(ui.windows) : win = ui.windows[i]
      BY <1>1, SoundFields DEF Range
    <3>3. win.id \in Nat
      BY <1>1, <3>2, SoundIds
    <3> QED BY <3>1, <3>3
  <2> QED BY <2>1, <2>2
<1>3. CASE spot \in {[win |-> 0, region |-> r] : r \in {"spawn", "menu"}}
  BY <1>3
<1>4. CASE spot \in {[win |-> id, region |-> "button"] : id \in buttons}
  BY <1>1, <1>4
<1>5. CASE spot \in Hits(ui) \cup {NoHit}
  BY <1>2, <1>5 DEF NoHit
<1> QED BY <1>3, <1>4, <1>5 DEF Spots

\* What the phases of a tick, from h to w, keep.
TickDone(h, w) ==
  /\ WorkOK(w) /\ Room(w.ui) /\ Layered(h.ui, w.ui)
  /\ w.login => AtLogin(w.ui, w.win, w.term, w.reg)

(***************************************************************************)
(* A tick after the login: at most three events are added to what the last *)
(* tick left, and four are taken off.                                      *)
(***************************************************************************)
LEMMA TickOfDesktop ==
  ASSUME NEW h, WorkOK(h), Room(h.ui), ~h.login,
         NEW left \in BOOLEAN, NEW spot, spot.win \in Nat, NEW moves, NEW picks,
         NEW found, NEW memory \in BOOLEAN,
         NEW w, w = LoginTransition(ConsumeEvents(ChooseApp(
                      Pointer(EnsureFocus(h), left, spot, moves, memory), picks)), found, memory)
  PROVE  TickDone(h, w)
<1>1. PICK focused : focused = EnsureFocus(h)
  OBVIOUS
<1>2. Advances(h, focused, 0)
  BY <1>1, EnsureFocusAdvances
<1>3. PICK pointed : pointed = Pointer(focused, left, spot, moves, memory)
  OBVIOUS
<1>4. Advances(focused, pointed, 2)
  <2>1. WorkOK(focused) /\ ~focused.login
    BY <1>2 DEF Advances
  <2> QED BY <1>3, <2>1, PointerAdvances
<1>5. PICK chosen : chosen = ChooseApp(pointed, picks)
  OBVIOUS
<1>6. Advances(pointed, chosen, 1)
  <2>1. WorkOK(pointed)
    BY <1>4 DEF Advances
  <2> QED BY <1>5, <2>1, ChooseAdvances
<1>7. Advances(h, pointed, 0 + 2)
  BY <1>2, <1>4, AdvancesTransitive
<1>8. Advances(h, pointed, 2)
  BY <1>7
<1>9. Advances(h, chosen, 2 + 1)
  BY <1>6, <1>8, AdvancesTransitive
<1>10. Advances(h, chosen, 3)
  BY <1>9
<1>11. WorkOK(chosen) /\ Pushes(h.ui, chosen.ui, 3)
  BY <1>10 DEF Advances, Follows
<1>12. PICK n \in Nat : n = Len(PostLogin) /\ n + 5 <= EventSlots /\ EventSlots \in Nat
  BY DesktopConstants, TableConstants
<1>13. PICK a \in Nat, b \in Nat : a = h.ui.events /\ b = chosen.ui.events
  BY <1>11, WorkFields, SoundFields
<1>14. a <= n + 2 /\ a + 3 <= EventSlots /\ ~h.ui.dropped
  BY <1>12, <1>13 DEF Room
<1>15. b <= n + 5 /\ ~chosen.ui.dropped
  <2>1. b <= a + 3
    BY <1>11, <1>13 DEF Pushes
  <2>2. ~chosen.ui.dropped
    BY <1>11, <1>13, <1>14 DEF Pushes
  <2> QED BY <1>12, <1>13, <1>14, <2>1, <2>2
<1>16. PICK drained : drained = ConsumeEvents(chosen)
  OBVIOUS
<1>17. /\ Advances(chosen, drained, 0) /\ drained.ui.dropped = chosen.ui.dropped
       /\ drained.ui.events = (IF b > 4 THEN b - 4 ELSE 0)
  BY <1>11, <1>13, <1>16, DrainAdvances
<1>18. Room(drained.ui)
  <2>1. drained.ui.events <= n + 2
    BY <1>12, <1>13, <1>15, <1>17
  <2> QED BY <1>12, <1>15, <1>17, <2>1 DEF Room
<1>19. Advances(h, drained, 3 + 0)
  BY <1>10, <1>17, AdvancesTransitive
<1>20. WorkOK(drained) /\ ~drained.login /\ Layered(h.ui, drained.ui)
  BY <1>19 DEF Advances, Follows
<1>21. w = drained
  BY <1>1, <1>3, <1>5, <1>16, <1>20 DEF LoginTransition
<1> QED BY <1>18, <1>20, <1>21 DEF TickDone

(***************************************************************************)
(* A tick during the login: nothing happens but that its window is raised, *)
(* until the password was right.                                           *)
(***************************************************************************)
LEMMA TickOfLogin ==
  ASSUME NEW h, WorkOK(h), Room(h.ui), h.login, AtLogin(h.ui, h.win, h.term, h.reg),
         NEW left, NEW spot, NEW moves, NEW picks, NEW found \in BOOLEAN, NEW memory \in BOOLEAN,
         NEW w, w = LoginTransition(ConsumeEvents(ChooseApp(
                      Pointer(EnsureFocus(h), left, spot, moves, memory), picks)), found, memory)
  PROVE  TickDone(h, w)
<1>1. 1 \in 1 .. Len(h.ui.windows) /\ h.ui.windows[1].id = h.win /\ h.ui.focus = h.win
  BY DEF AtLogin
<1>2. HasId(h.ui, h.win)
  BY <1>1 DEF HasId
<1>3. h.ui.focus # 0
  BY <1>1, WorkFields, SoundIds
<1>4. EnsureFocus(h) = h
  BY <1>3, EnsureFocusAdvances
<1>5. PICK pointed : pointed = Pointer(h, left, spot, moves, memory)
  OBVIOUS
<1>6. /\ Advances(h, pointed, 1) /\ pointed.ui.windows = h.ui.windows /\ pointed.ui.focus = h.win
      /\ pointed.win = h.win /\ pointed.term = h.term /\ pointed.reg = h.reg
  BY <1>2, <1>5, PointerAtLogin
<1>7. WorkOK(pointed) /\ pointed.login /\ Pushes(h.ui, pointed.ui, 1)
  BY <1>6 DEF Advances, Follows
<1>8. ChooseApp(pointed, picks) = pointed
  BY <1>6, <1>7, ChooseAdvances DEF AtLogin
<1>9. PICK drained : drained = ConsumeEvents(pointed)
  OBVIOUS
<1>10. PICK n \in Nat : n = Len(PostLogin) /\ n + 5 <= EventSlots /\ EventSlots \in Nat
  BY DesktopConstants, TableConstants
<1>11. PICK a \in Nat, b \in Nat : a = h.ui.events /\ b = pointed.ui.events
  BY <1>7, WorkFields, SoundFields
<1>12. a <= 1 /\ ~h.ui.dropped
  BY <1>11 DEF Room, AtLogin
<1>13. b <= 2 /\ ~pointed.ui.dropped
  <2>1. a + 1 <= EventSlots
    BY <1>10, <1>11, <1>12
  <2>2. b <= a + 1 /\ ~pointed.ui.dropped
    BY <1>7, <1>11, <1>12, <2>1 DEF Pushes
  <2> QED BY <1>11, <1>12, <2>2
<1>14. /\ Advances(pointed, drained, 0) /\ drained.ui.dropped = pointed.ui.dropped
       /\ drained.ui.events = (IF b > 4 THEN b - 4 ELSE 0)
       /\ drained.ui.windows = h.ui.windows /\ drained.ui.focus = h.win
       /\ drained.win = h.win /\ drained.term = h.term /\ drained.reg = h.reg
  BY <1>6, <1>7, <1>9, <1>11, DrainAdvances
<1>15. drained.ui.events = 0 /\ ~drained.ui.dropped
  BY <1>11, <1>13, <1>14
<1>16. Advances(h, drained, 1 + 0)
  BY <1>6, <1>14, AdvancesTransitive
<1>17. WorkOK(drained) /\ drained.login /\ Follows(h.ui, drained.ui, 1)
  BY <1>16 DEF Advances
<1>18. Layered(h.ui, drained.ui)
  BY <1>17 DEF Follows
<1>19. w = LoginTransition(drained, found, memory)
  BY <1>4, <1>5, <1>8, <1>9
<1>20. CASE ~s_authenticated
  <2>1. w = drained
    BY <1>19, <1>20 DEF LoginTransition
  <2>2. AtLogin(drained.ui, drained.win, drained.term, drained.reg)
    BY <1>14, <1>15 DEF AtLogin
  <2>3. Room(drained.ui)
    BY <1>10, <1>15 DEF Room
  <2> QED BY <1>17, <1>18, <2>1, <2>2, <2>3 DEF TickDone
<1>21. CASE s_authenticated
  <2>1. drained.term = 0
    BY <1>14 DEF AtLogin
  <2>2. WorkOK(w) /\ Follows(drained.ui, w.ui, n + 2) /\ w.login = FALSE
    BY <1>10, <1>17, <1>19, <1>21, <2>1, TransitionFollows
  <2>3. PICK c \in Nat : c = w.ui.events
    BY <2>2, WorkFields, SoundFields
  <2>4. Pushes(drained.ui, w.ui, n + 2)
    BY <2>2 DEF Follows
  <2>5. c <= n + 2
    BY <1>10, <1>15, <2>3, <2>4 DEF Pushes
  <2>6. 0 + (n + 2) <= EventSlots
    BY <1>10
  <2>7. ~w.ui.dropped
    BY <1>15, <2>4, <2>6 DEF Pushes
  <2>8. Room(w.ui)
    BY <1>10, <2>3, <2>5, <2>7 DEF Room
  <2>9. n + 2 \in Nat
    BY <1>10
  <2>10. Follows(h.ui, w.ui, 1 + (n + 2))
    BY <1>17, <2>2, <2>9, WorkFields, FollowsTransitive
  <2>11. Layered(h.ui, w.ui)
    BY <2>10 DEF Follows
  <2> QED BY <2>2, <2>8, <2>11 DEF TickDone
<1> QED BY <1>20, <1>21

(***************************************************************************)
(* A tick (window_manager.cpp:1004-1130, 1258-1287).                       *)
(***************************************************************************)
LEMMA TickPreserves ==
  ASSUME DesktopInv, NEW left \in BOOLEAN, NEW spot, spot.win \in Nat, NEW moves, NEW picks,
         NEW found \in BOOLEAN, NEW memory \in BOOLEAN, Tick(left, spot, moves, picks, found, memory)
  PROVE  DesktopInv' /\ Layered(ui, ui')
<1>1. PICK h : h = Here
  OBVIOUS
<1>2. /\ h.ui = ui /\ h.login = s_login_active /\ h.win = s_login_win_id /\ h.term = s_windowId
      /\ h.menu = s_app_menu_win_id /\ h.reg = registered /\ h.apps = apps
  BY <1>1 DEF Here
<1>3. WorkOK(h) /\ Room(h.ui)
  <2>1. h \in Work
    BY <1>1 DEF Here, Work, DesktopInv, Sound, Registry
  <2> QED BY <1>2, <2>1 DEF DesktopInv, WorkOK
<1>4. PICK w : w = LoginTransition(ConsumeEvents(ChooseApp(
                     Pointer(EnsureFocus(h), left, spot, moves, memory), picks)), found, memory)
  OBVIOUS
<1>5. /\ ui' = w.ui /\ s_login_win_id' = w.win /\ s_login_active' = w.login
      /\ s_windowId' = w.term /\ s_app_menu_win_id' = w.menu
      /\ registered' = w.reg /\ apps' = w.apps
      /\ buttons' = BuildTaskbarButtons(w) /\ s_authenticated' = s_authenticated
  BY <1>1, <1>4 DEF Tick
<1>6. TickDone(h, w)
  <2>1. CASE ~h.login
    BY <1>3, <1>4, <2>1, TickOfDesktop
  <2>2. CASE h.login
    <3>1. AtLogin(h.ui, h.win, h.term, h.reg)
      BY <1>2, <2>2 DEF DesktopInv
    <3> QED BY <1>3, <1>4, <2>2, <3>1, TickOfLogin
  <2> QED BY <2>1, <2>2
<1>7. /\ WorkOK(w) /\ Room(w.ui) /\ Layered(ui, w.ui)
      /\ w.login => AtLogin(w.ui, w.win, w.term, w.reg)
  BY <1>2, <1>6 DEF TickDone
<1>8. BuildTaskbarButtons(w) \subseteq Nat
  <2>1. \A v \in Range(w.ui.windows) : v.id \in Nat
    BY <1>7, WorkFields, SoundFields, SoundIds DEF Range
  <2> QED BY <2>1 DEF BuildTaskbarButtons
<1>9. /\ w.login \in BOOLEAN /\ w.win \in Nat /\ w.term \in Nat /\ w.menu \in Nat /\ w.apps \in BOOLEAN
      /\ Sound(w.ui) /\ Registry(w.reg) /\ Terminal(w.ui, w.term)
  BY <1>7, WorkFields
<1>10. s_authenticated \in BOOLEAN
  BY DEF DesktopInv
<1> QED BY <1>5, <1>7, <1>8, <1>9, <1>10 DEF DesktopInv

(***************************************************************************)
(* Every step keeps the invariant and the layers.                          *)
(***************************************************************************)
LEMMA DesktopStep ==
  ASSUME DesktopInv, [DesktopNext]_desktopVars
  PROVE  DesktopInv' /\ (ui' = ui \/ Layered(ui, ui'))
<1>1. CASE OnKeyDown
  BY <1>1 DEF OnKeyDown, DesktopInv
<1>2. CASE AnyTick
  <2>1. PICK left \in BOOLEAN : \E spot \in IF left THEN Spots ELSE {NoHit},
           moves \in InputIf(left /\ ui.gesture = "drag"), picks \in InputIf(apps),
           found \in InputIf(s_authenticated /\ s_login_active), memory \in InputIf(s_windowId = 0) :
             Tick(left, spot, moves, picks, found, memory)
    BY <1>2 DEF AnyTick
  <2>2. PICK spot \in IF left THEN Spots ELSE {NoHit},
             moves \in InputIf(left /\ ui.gesture = "drag"), picks \in InputIf(apps),
             found \in InputIf(s_authenticated /\ s_login_active), memory \in InputIf(s_windowId = 0) :
               Tick(left, spot, moves, picks, found, memory)
    BY <2>1
  <2>3. found \in BOOLEAN /\ memory \in BOOLEAN
    BY DEF InputIf
  <2>4. spot \in Spots \cup {NoHit}
    OBVIOUS
  <2>5. spot.win \in Nat
    BY <2>4, SpotNat
  <2> QED BY <2>2, <2>3, <2>5, TickPreserves
<1>3. CASE UNCHANGED desktopVars
  BY <1>3 DEF desktopVars, wm, DesktopInv
<1> QED BY <1>1, <1>2, <1>3 DEF DesktopNext

(***************************************************************************)
(* The inductive invariant holds throughout.                               *)
(***************************************************************************)
THEOREM DesktopInvariant == DesktopSpec => []DesktopInv
<1>1. DesktopInit => DesktopInv
  BY DesktopStarts
<1>2. DesktopInv /\ [DesktopNext]_desktopVars => DesktopInv'
  BY DesktopStep
<1> QED BY <1>1, <1>2, PTL DEF DesktopSpec

(***************************************************************************)
(* However often windows are created, raised and closed, by clicks, by a   *)
(* new terminal or by the end of the login, the table is well-formed, the  *)
(* z-order names each window once and the focus is with a window or with   *)
(* none (ui/framework.cpp:276-598), whatever the lengths of the tables.    *)
(***************************************************************************)
THEOREM TableSoundAlways == DesktopSpec => []WindowTableSound
<1>1. DesktopInv => WindowTableSound
  <2> SUFFICES ASSUME DesktopInv PROVE WindowTableSound
    OBVIOUS
  <2>1. Sound(ui)
    BY DEF DesktopInv
  <2>2. DesktopTypeOK
    <3>1. TableOK(ui)
      BY <2>1, SoundFields DEF TableOK, Sound, Ordered
    <3> QED BY <3>1 DEF DesktopTypeOK, DesktopInv, Registry
  <2>3. ZOrderComplete
    <3>1. Len(ui.zorder) = Len(ui.windows) /\ DOMAIN ui.zorder = 1 .. Len(ui.windows)
      BY <2>1, SoundFields, SoundZ, PermIsSequence
    <3>2. Range(ui.zorder) = 1 .. Len(ui.windows)
      BY <2>1, <3>1, SoundZ DEF Range
    <3> QED BY <2>1, <3>1, <3>2, SoundFields DEF ZOrderComplete
  <2>4. FocusLive
    BY <2>1, FindIndex DEF FocusLive, Sound
  <2> QED BY <2>2, <2>3, <2>4 DEF WindowTableSound
<1> QED BY <1>1, DesktopInvariant, PTL

(***************************************************************************)
(* Until the password was accepted nothing of the desktop exists or is     *)
(* reached (window_manager.cpp:1033-1080, 1258-1287).                      *)
(***************************************************************************)
THEOREM LoginAlwaysBlocks == DesktopSpec => []LoginBlocksDesktop
<1>1. DesktopInv => LoginBlocksDesktop
  BY DEF DesktopInv, AtLogin, LoginBlocksDesktop
<1> QED BY <1>1, DesktopInvariant, PTL

(***************************************************************************)
(* The terminal has at most one window (SpawnTerminal,                     *)
(* window_manager.cpp:818-876), also when the table is full or the heap is *)
(* exhausted.                                                              *)
(***************************************************************************)
THEOREM TerminalAlwaysOne == DesktopSpec => []OneTerminalWindow
<1>1. DesktopInv => OneTerminalWindow
  <2> SUFFICES ASSUME DesktopInv, NEW w \in Range(ui.windows), w.title = "Shell"
               PROVE  w.id = s_windowId
    BY DEF OneTerminalWindow
  <2>1. PICK i \in 1 .. Len(ui.windows) : w = ui.windows[i]
    BY SoundFields DEF Range, DesktopInv
  <2> QED BY <2>1 DEF DesktopInv, Terminal
<1> QED BY <1>1, DesktopInvariant, PTL

(***************************************************************************)
(* No UI event is lost (framework.cpp:235-244) when the ring holds five    *)
(* events more than the desktop has windows: the code's 64 do.             *)
(***************************************************************************)
THEOREM EventsNeverDropped == DesktopSpec => []NoEventDropped
<1>1. DesktopInv => NoEventDropped
  BY DEF DesktopInv, Room, NoEventDropped
<1> QED BY <1>1, DesktopInvariant, PTL

(***************************************************************************)
(* In a sound table Behind is the order of drawing.                        *)
(***************************************************************************)
LEMMA BehindIsDrawn ==
  ASSUME NEW u, Sound(u), NEW x, NEW y, HasId(u, x), HasId(u, y)
  PROVE  Behind(u, x, y) <=> Drawn(u, x, y)
<1>1. PICK n \in Nat : n = Len(u.windows)
  BY SoundFields
<1>2. DOMAIN u.zorder = 1 .. n /\ \A k \in 1 .. n : u.zorder[k] \in 1 .. n
  BY <1>1, SoundZ, PermIsSequence
<1>3. PICK i \in 1 .. n, j \in 1 .. n : /\ i = findIndexById(u, x) /\ u.windows[i].id = x
                                        /\ j = findIndexById(u, y) /\ u.windows[j].id = y
  BY <1>1, FindIndex
<1>4. \A k \in 1 .. n : /\ u.windows[u.zorder[k]].id = x <=> u.zorder[k] = i
                        /\ u.windows[u.zorder[k]].id = y <=> u.zorder[k] = j
  <2>1. \A p, q \in 1 .. n : u.windows[p].id = u.windows[q].id => p = q
    BY <1>1, SoundIds
  <2>2. ASSUME NEW k \in 1 .. n
        PROVE  /\ u.windows[u.zorder[k]].id = x <=> u.zorder[k] = i
               /\ u.windows[u.zorder[k]].id = y <=> u.zorder[k] = j
    <3>1. PICK z \in 1 .. n : z = u.zorder[k]
      BY <1>2
    <3> QED BY <1>3, <2>1, <3>1
  <2> QED BY <2>2
<1> QED BY <1>1, <1>2, <1>3, <1>4 DEF Behind, Drawn

(***************************************************************************)
(* No window is ever raised over one of a higher role that was in front of *)
(* it (moveWindowToLayerTop, framework.cpp:47-69), by no tick, however     *)
(* many calls of the framework it makes.                                   *)
(***************************************************************************)
THEOREM LayersHold == DesktopSpec => LayersNeverCrossed
<1>1. ASSUME DesktopInv, DesktopInv', [DesktopNext]_desktopVars, ui' # ui,
             NEW a \in Range(ui.windows), NEW b \in Range(ui.windows),
             zRoleRank[a.role] < zRoleRank[b.role], Behind(ui, a.id, b.id),
             Live(ui', a.id), Live(ui', b.id)
      PROVE  Behind(ui', a.id, b.id)
  <2>1. Sound(ui) /\ Sound(ui')
    BY <1>1 DEF DesktopInv
  <2>2. PICK i \in 1 .. Len(ui.windows), j \in 1 .. Len(ui.windows) : a = ui.windows[i] /\ b = ui.windows[j]
    BY <2>1, SoundFields DEF Range
  <2>3. HasId(ui, a.id) /\ HasId(ui, b.id) /\ HasId(ui', a.id) /\ HasId(ui', b.id)
    BY <1>1, <2>1, <2>2, FindIndex DEF HasId
  <2>4. Drawn(ui, a.id, b.id)
    BY <1>1, <2>1, <2>3, BehindIsDrawn
  <2>5. Layered(ui, ui')
    BY <1>1, DesktopStep
  <2>6. Rank(ui, i) < Rank(ui, j)
    BY <1>1, <2>2 DEF Rank
  <2>7. Drawn(ui', a.id, b.id)
    BY <2>2, <2>3, <2>4, <2>5, <2>6 DEF Layered
  <2> QED BY <2>1, <2>3, <2>7, BehindIsDrawn
<1>2. DesktopInv /\ DesktopInv' /\ [DesktopNext]_desktopVars =>
        [\A a, b \in Range(ui.windows) :
           /\ zRoleRank[a.role] < zRoleRank[b.role]
           /\ Behind(ui, a.id, b.id)
           /\ Live(ui', a.id) /\ Live(ui', b.id)
           => Behind(ui', a.id, b.id)]_desktopVars
  <2> SUFFICES ASSUME DesktopInv, DesktopInv', [DesktopNext]_desktopVars,
                      NEW a \in Range(ui.windows), NEW b \in Range(ui.windows),
                      zRoleRank[a.role] < zRoleRank[b.role], Behind(ui, a.id, b.id),
                      Live(ui', a.id), Live(ui', b.id)
               PROVE  Behind(ui', a.id, b.id)
    OBVIOUS
  <2>1. CASE ui' = ui
    BY <2>1
  <2>2. CASE ui' # ui
    BY <1>1, <2>2
  <2> QED BY <2>1, <2>2
<1> QED BY <1>2, DesktopInvariant, PTL DEF DesktopSpec, LayersNeverCrossed
=============================================================================

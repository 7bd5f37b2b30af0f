--------------------------- MODULE SchedulerProofs ---------------------------
(***************************************************************************)
(* Proofs about Scheduler, for any number of tasks, any priorities, sleep  *)
(* times and width of the tick counter.  The lists that the `next' fields  *)
(* form are sequences of tasks, one per ready queue and one of sleepers;   *)
(* what an operation does to the fields is what it does to the sequences.  *)
(***************************************************************************)
EXTENDS Scheduler, FiniteSetTheorems, WellFoundedInduction, TLAPS

(***************************************************************************)
(* A non-empty set of natural numbers has a smallest element: what         *)
(* induction by smallest counterexample rests on.                          *)
(***************************************************************************)
LEMMA MinimumExists ==
  ASSUME NEW T, T \subseteq Nat, T # {}
  PROVE  \E m \in T : \A n \in T : m <= n
<1> DEFINE Less == OpToRel(<, Nat)
<1>1. IsWellFoundedOn(Less, Nat)
  BY NatLessThanWellFounded
<1>2. \E x \in T : \A y \in T : ~ (<<y, x>> \in Less)
  <2> HIDE DEF Less
  <2> QED BY <1>1, WFMin
<1>3. PICK x \in T : \A y \in T : ~ (<<y, x>> \in Less)
  BY <1>2
<1>4. Less = {p \in Nat \X Nat : p[1] < p[2]}
  BY DEF OpToRel
<1>5. \A y \in T : x <= y
  <2> HIDE DEF Less
  <2>1. \A y \in T : ~ (y < x)
    BY <1>3, <1>4
  <2> QED BY <2>1
<1>6. QED
  BY <1>5

\* The five ready queues and, as the sixth list, the sleeping tasks.
Sleepers == 5
Lane == 0 .. 5

HeadOf(q, a) == IF a = Sleepers THEN q.sleeping_tasks ELSE q.ready_queues[a]

\* From the head h, the `next' fields run through l and end.
Chain(next, h, l) ==
  /\ l \in Seq(Task)
  /\ h = IF Len(l) = 0 THEN Null ELSE l[1]
  /\ \A i \in 1 .. Len(l) : next[l[i]] = IF i = Len(l) THEN Null ELSE l[i + 1]

\* No task is in two lists, or twice in one.
Apart(L) ==
  \A a, b \in Lane : \A i \in 1 .. Len(L[a]), j \in 1 .. Len(L[b]) :
    L[a][i] = L[b][j] => a = b /\ i = j

In(L, t) == \E a \in Lane : \E i \in 1 .. Len(L[a]) : L[a][i] = t

(***************************************************************************)
(* A list without repetitions has no more elements than there are tasks.   *)
(***************************************************************************)
LEMMA ListFits ==
  ASSUME NEW l \in Seq(Task), IsInjective(l)
  PROVE  Len(l) \in Nat /\ Len(l) <= MaxTasks
<1>1. PICK n \in Nat : n = Len(l) /\ DOMAIN l = 1 .. n
  OBVIOUS
<1>2. MaxTasks \in Nat
  BY SchedulerConstants
<1>3. /\ IsFiniteSet(Task) /\ Cardinality(Task) = MaxTasks
      /\ IsFiniteSet(1 .. n) /\ Cardinality(1 .. n) = n
  <2>1. \A k \in Nat : IsFiniteSet(1 .. k) /\ Cardinality(1 .. k) = k
    <3> SUFFICES ASSUME NEW k \in Nat PROVE IsFiniteSet(1 .. k) /\ Cardinality(1 .. k) = k
      OBVIOUS
    <3>1. 1 \in Int /\ k \in Int
      OBVIOUS
    <3>2. IsFiniteSet(1 .. k) /\ Cardinality(1 .. k) = IF 1 > k THEN 0 ELSE k - 1 + 1
      BY <3>1, FS_Interval
    <3> QED BY <3>2
  <2> QED BY <1>2, <2>1 DEF Task
<1>4. l \in Injection(1 .. n, Task)
  <2>1. l \in [1 .. n -> Task]
    BY <1>1
  <2> QED BY <2>1 DEF Injection
<1>5. Cardinality(1 .. n) <= Cardinality(Task)
  BY <1>3, <1>4, FS_Injection
<1> QED BY <1>1, <1>3, <1>5

(***************************************************************************)
(* Walking a chain reads its list.                                         *)
(***************************************************************************)
LEMMA ChainRead ==
  ASSUME NEW next, NEW h, NEW l, Chain(next, h, l), IsInjective(l)
  PROVE  ListOf(next, h) = l
<1>1. l \in Seq(Task)
  BY DEF Chain
<1>2. PICK n \in Nat : n = Len(l) /\ n <= MaxTasks
  BY <1>1, ListFits
<1>3. PICK M \in Nat : M = MaxTasks
  BY SchedulerConstants
<1>4. CASE n = 0
  <2>1. Len(l) = 0 /\ h = Null
    BY <1>2, <1>4 DEF Chain
  <2>2. ListOf(next, Null) = <<>>
    BY DEF ListOf
  <2>3. l = <<>>
    BY <1>1, <2>1
  <2> QED BY <2>1, <2>2, <2>3
<1>5. CASE n # 0
  <2>1. /\ h = l[1] /\ h # Null
        /\ \A i \in 1 .. n : next[l[i]] = IF i = n THEN Null ELSE l[i + 1]
        /\ \A i \in 1 .. n : l[i] # Null
    <3>1. \A i \in 1 .. n : l[i] # Null
      <4>1. \A i \in 1 .. n : l[i] \in Task
        BY <1>1, <1>2
      <4> QED BY <4>1 DEF Task, Null
    <3> QED BY <1>2, <1>5, <3>1 DEF Chain
  <2> DEFINE Rec(g) == g = [k \in 0 .. M |->
                              IF k = 0 THEN (IF h = Null THEN <<>> ELSE <<h>>)
                              ELSE LET u == g[k - 1]
                                   IN IF Len(u) < k \/ next[u[k]] = Null THEN u
                                      ELSE Append(u, next[u[k]])]
             walk == CHOOSE g : Rec(g)
             f == [k \in 0 .. M |-> SubSeq(l, 1, IF k < n THEN k + 1 ELSE n)]
  <2>2. ASSUME NEW k \in 1 .. n
        PROVE  /\ SubSeq(l, 1, k) \in Seq(Task) /\ Len(SubSeq(l, 1, k)) = k
               /\ SubSeq(l, 1, k)[k] = l[k]
               /\ k < n => SubSeq(l, 1, k + 1) = Append(SubSeq(l, 1, k), l[k + 1])
    BY <1>1, <1>2
  <2>3. SubSeq(l, 1, 1) = <<h>> /\ SubSeq(l, 1, n) = l
    <3>1. 1 \in 1 .. n
      BY <1>5
    <3>2. PICK u : u = SubSeq(l, 1, 1)
      OBVIOUS
    <3>3. u \in Seq(Task) /\ Len(u) = 1 /\ u[1] = h
      BY <2>1, <2>2, <3>1, <3>2
    <3>4. u = <<h>>
      BY <3>3
    <3>5. SubSeq(l, 1, n) = l
      BY <1>1, <1>2
    <3> QED BY <3>2, <3>4, <3>5
  <2>4. ASSUME NEW k \in 1 .. M, NEW u, u = SubSeq(l, 1, IF k - 1 < n THEN (k - 1) + 1 ELSE n)
        PROVE  SubSeq(l, 1, IF k < n THEN k + 1 ELSE n) =
                 IF Len(u) < k \/ next[u[k]] = Null THEN u ELSE Append(u, next[u[k]])
    <3>1. CASE k < n
      <4>1. u = SubSeq(l, 1, k) /\ k \in 1 .. n
        BY <2>4, <3>1
      <4>2. next[u[k]] = l[k + 1] /\ next[u[k]] # Null /\ ~(Len(u) < k)
        BY <2>1, <2>2, <3>1, <4>1
      <4>3. QED
        BY <2>2, <3>1, <4>1, <4>2
    <3>2. CASE k = n
      <4>1. u = SubSeq(l, 1, n) /\ k \in 1 .. n
        BY <2>4, <3>2
      <4>2. next[u[k]] = Null
        BY <2>1, <2>2, <3>2, <4>1
      <4>3. QED
        BY <3>2, <4>1, <4>2
    <3>3. CASE k > n
      <4>1. u = SubSeq(l, 1, n)
        BY <2>4, <3>3
      <4>2. Len(u) < k
        BY <1>2, <2>3, <3>3, <4>1
      <4>3. QED
        BY <3>3, <4>1, <4>2
    <3>4. QED
      BY <3>1, <3>2, <3>3
  <2>5. Rec(f)
    <3>1. \A k \in 0 .. M : k # 0 => k \in 1 .. M /\ k - 1 \in 0 .. M
      OBVIOUS
    <3>2. ASSUME NEW k \in 0 .. M
          PROVE  f[k] = IF k = 0 THEN (IF h = Null THEN <<>> ELSE <<h>>)
                        ELSE LET u == f[k - 1]
                             IN IF Len(u) < k \/ next[u[k]] = Null THEN u
                                ELSE Append(u, next[u[k]])
      <4>1. CASE k = 0
        <5>1. f[0] = SubSeq(l, 1, 1)
          BY <1>5, <1>2, <1>3
        <5> QED BY <2>1, <2>3, <4>1, <5>1
      <4>2. CASE k # 0
        <5>1. k \in 1 .. M /\ k - 1 \in 0 .. M
          BY <3>1, <4>2
        <5>2. f[k - 1] = SubSeq(l, 1, IF k - 1 < n THEN (k - 1) + 1 ELSE n)
          BY <5>1
        <5>3. f[k] = SubSeq(l, 1, IF k < n THEN k + 1 ELSE n)
          OBVIOUS
        <5> HIDE DEF f
        <5> QED BY <2>4, <4>2, <5>1, <5>2, <5>3
      <4> QED BY <4>1, <4>2
    <3>3. DOMAIN f = 0 .. M
      OBVIOUS
    <3>4. f = [k \in 0 .. M |-> f[k]]
      OBVIOUS
    <3> HIDE DEF f
    <3> QED BY <3>2, <3>4
  <2>6. Rec(walk)
    BY <2>5
  <2>7. ListOf(next, h) = walk[M]
    BY <1>3, <2>1 DEF ListOf
  <2>8. M \in 0 .. M /\ f[M] = l
    BY <1>2, <1>3, <2>3
  <2> HIDE DEF walk, f
  <2>9. \A k \in 0 .. M : walk[k] = f[k]
    <3> DEFINE T == {k \in 0 .. M : walk[k] # f[k]}
    <3> SUFFICES ASSUME T # {} PROVE FALSE
      OBVIOUS
    <3>1. T \subseteq Nat
      OBVIOUS
    <3>2. PICK m \in T : \A i \in T : m <= i
      BY <3>1, MinimumExists, Zenon
    <3>3. m # 0
      BY <2>5, <2>6
    <3>4. m - 1 \in 0 .. M /\ m - 1 \notin T /\ m \in 0 .. M
      BY <3>2, <3>3
    <3>5. walk[m - 1] = f[m - 1]
      BY <3>4
    <3> DEFINE Onward(u) == IF Len(u) < m \/ next[u[m]] = Null THEN u ELSE Append(u, next[u[m]])
    <3>6. walk[m] = Onward(walk[m - 1])
      BY <2>6, <3>3, <3>4
    <3>7. f[m] = Onward(f[m - 1])
      BY <2>5, <3>3, <3>4
    <3> HIDE DEF Onward
    <3>8. QED
      BY <3>2, <3>5, <3>6, <3>7
  <2>10. QED
    BY <2>7, <2>8, <2>9
<1>6. QED
  BY <1>4, <1>5

------------------------------------------------------------------------------
(***************************************************************************)
(* Lists and the fields that hold them together.                           *)
(***************************************************************************)
Once(l) == \A i, j \in 1 .. Len(l) : l[i] = l[j] => i = j

\* m is l without its element at place k.
Removed(l, k, m) ==
  /\ m \in Seq(Task) /\ Len(m) = Len(l) - 1
  /\ \A i \in 1 .. Len(m) : m[i] = l[IF i < k THEN i ELSE i + 1]

Links == [Task -> Task \cup {Null}]

(***************************************************************************)
(* Tasks are not the null pointer.                                         *)
(***************************************************************************)
LEMMA TaskNotNull == Null \notin Task
BY DEF Null, Task

(***************************************************************************)
(* The elements of a list are tasks.                                       *)
(***************************************************************************)
LEMMA ListTyped ==
  ASSUME NEW l \in Seq(Task)
  PROVE  /\ Len(l) \in Nat /\ DOMAIN l = 1 .. Len(l)
         /\ \A i \in 1 .. Len(l) : l[i] \in Task /\ l[i] # Null
<1>1. Len(l) \in Nat /\ DOMAIN l = 1 .. Len(l) /\ \A i \in 1 .. Len(l) : l[i] \in Task
  OBVIOUS
<1> QED BY <1>1, TaskNotNull, Zenon

Without(l, t) == \A i \in 1 .. Len(l) : l[i] # t

\* The fields once t is linked behind the list l with head h ...
Appending(next, h, l, t) ==
  IF h = Null THEN [next EXCEPT ![t] = Null]
  ELSE [[next EXCEPT ![t] = Null] EXCEPT ![l[Len(l)]] = t]

\* ... hold the longer list, and those of other tasks are as they were.
LinkedBehind(next, h, l, t, next2) ==
  /\ next2 \in Links
  /\ Chain(next2, IF h = Null THEN t ELSE h, Append(l, t))
  /\ \A u \in Task : u # t /\ Without(l, u) => next2[u] = next[u]

(***************************************************************************)
(* AddToReadyQueue (scheduler.cpp:80-99) links a task behind the last.     *)
(***************************************************************************)
LEMMA ChainAppend ==
  ASSUME NEW next \in Links, NEW h, NEW l, Chain(next, h, l), Once(l),
         NEW t \in Task, Without(l, t),
         NEW next2, next2 = Appending(next, h, l, t)
  PROVE  LinkedBehind(next, h, l, t, next2)
<1> USE DEF Without, Appending, LinkedBehind
<1>1. /\ l \in Seq(Task) /\ h = IF Len(l) = 0 THEN Null ELSE l[1]
      /\ \A i \in 1 .. Len(l) : next[l[i]] = IF i = Len(l) THEN Null ELSE l[i + 1]
  BY DEF Chain
<1>2. PICK n \in Nat : n = Len(l)
  BY <1>1
<1>3. \A i \in 1 .. n : l[i] \in Task /\ l[i] # Null
  BY <1>1, <1>2, ListTyped
<1>4. PICK m : m = Append(l, t)
  OBVIOUS
<1>5. m \in Seq(Task) /\ Len(m) = n + 1 /\ m[n + 1] = t /\ \A i \in 1 .. n : m[i] = l[i]
  BY <1>1, <1>2, <1>4
<1>6. CASE n = 0
  <2>1. h = Null /\ next2 = [next EXCEPT ![t] = Null]
    BY <1>1, <1>2, <1>6
  <2>2. next2 \in Links /\ next2[t] = Null /\ \A u \in Task : u # t => next2[u] = next[u]
    BY <2>1 DEF Links
  <2>3. Chain(next2, t, m)
    BY <1>5, <1>6, <2>2 DEF Chain
  <2> QED BY <1>4, <2>1, <2>2, <2>3
<1>7. CASE n # 0
  <2>1. n \in 1 .. n /\ 1 \in 1 .. n
    BY <1>7
  <2>2. h = l[1] /\ h # Null
    BY <1>1, <1>2, <1>3, <1>7, <2>1
  <2>3. PICK e \in Task : e = l[n] /\ e # t
    BY <1>2, <1>3, <2>1
  <2>4. next2 = [[next EXCEPT ![t] = Null] EXCEPT ![e] = t]
    BY <1>2, <2>2, <2>3
  <2>5. /\ next2 \in Links /\ next2[t] = Null /\ next2[e] = t
        /\ \A u \in Task : u # t /\ u # e => next2[u] = next[u]
    BY <2>3, <2>4 DEF Links
  <2>6. ASSUME NEW i \in 1 .. n + 1
        PROVE  next2[m[i]] = IF i = n + 1 THEN Null ELSE m[i + 1]
    <3>1. CASE i = n + 1
      BY <1>5, <2>5, <3>1
    <3>2. CASE i = n
      BY <1>5, <2>1, <2>3, <2>5, <3>2
    <3>3. CASE i < n
      <4>1. i \in 1 .. n /\ i + 1 \in 1 .. n /\ i # n /\ i # n + 1
        BY <3>3
      <4>2. l[i] # t /\ l[i] # e /\ l[i] \in Task
        BY <1>2, <1>3, <2>1, <2>3, <4>1 DEF Once
      <4>3. next2[l[i]] = next[l[i]] /\ next[l[i]] = l[i + 1]
        BY <1>1, <1>2, <2>5, <4>1, <4>2
      <4> QED BY <1>5, <4>1, <4>3
    <3> QED BY <3>1, <3>2, <3>3
  <2>7. m[1] = l[1]
    BY <1>5, <2>1
  <2>8. Chain(next2, h, m)
    <3>1. Len(m) # 0 /\ h = m[1]
      BY <1>5, <2>2, <2>7
    <3> QED BY <1>5, <2>6, <3>1, ZenonT(30) DEF Chain
  <2> QED BY <1>2, <1>4, <2>1, <2>2, <2>3, <2>5, <2>8
<1> QED BY <1>6, <1>7

(***************************************************************************)
(* Taking an element out (scheduler.cpp:101-131): the field before it, or  *)
(* the head of the list, is set to what follows.                           *)
(***************************************************************************)
LEMMA ChainRemove ==
  ASSUME NEW next, NEW h, NEW l, Chain(next, h, l), NEW k \in 1 .. Len(l),
         NEW m, Removed(l, k, m), NEW next2,
         k > 1 => next2[l[k - 1]] = next[l[k]],
         \A i \in 1 .. Len(l) : i # k - 1 /\ i # k => next2[l[i]] = next[l[i]]
  PROVE  Chain(next2, IF k = 1 THEN next[l[k]] ELSE h, m)
<1>1. /\ l \in Seq(Task) /\ h = IF Len(l) = 0 THEN Null ELSE l[1]
      /\ \A i \in 1 .. Len(l) : next[l[i]] = IF i = Len(l) THEN Null ELSE l[i + 1]
  BY DEF Chain
<1>2. PICK n \in Nat : n = Len(l) /\ n >= 1 /\ k \in 1 .. n
  BY <1>1
<1>3. /\ m \in Seq(Task) /\ Len(m) = n - 1
      /\ \A i \in 1 .. n - 1 : m[i] = l[IF i < k THEN i ELSE i + 1]
  BY <1>2 DEF Removed
<1>4. (IF k = 1 THEN next[l[k]] ELSE h) = IF Len(m) = 0 THEN Null ELSE m[1]
  <2>1. CASE n = 1
    BY <1>1, <1>2, <1>3, <2>1
  <2>2. CASE n # 1 /\ k = 1
    <3>1. 1 \in 1 .. n - 1 /\ m[1] = l[2] /\ next[l[1]] = l[2]
      BY <1>1, <1>2, <1>3, <2>2
    <3> QED BY <1>2, <1>3, <2>2, <3>1
  <2>3. CASE n # 1 /\ k # 1
    <3>1. 1 \in 1 .. n - 1 /\ m[1] = l[1]
      BY <1>2, <1>3, <2>3
    <3> QED BY <1>1, <1>2, <1>3, <2>3, <3>1
  <2> QED BY <2>1, <2>2, <2>3
<1>5. ASSUME NEW i \in 1 .. n - 1
      PROVE  next2[m[i]] = IF i = n - 1 THEN Null ELSE m[i + 1]
  <2>1. CASE i < k - 1
    <3>1. /\ m[i] = l[i] /\ i \in 1 .. n /\ i # k /\ i # k - 1 /\ i # n /\ i # n - 1
          /\ i + 1 \in 1 .. n - 1 /\ i + 1 < k
      BY <1>2, <1>3, <2>1
    <3>2. m[i + 1] = l[i + 1]
      BY <1>3, <3>1
    <3>3. next2[l[i]] = next[l[i]] /\ next[l[i]] = l[i + 1]
      BY <1>1, <1>2, <3>1
    <3> QED BY <3>1, <3>2, <3>3
  <2>2. CASE i = k - 1
    <3>1. m[i] = l[k - 1] /\ k > 1
      BY <1>2, <1>3, <2>2
    <3>2. next2[m[i]] = next[l[k]] /\ next[l[k]] = IF k = n THEN Null ELSE l[k + 1]
      BY <1>1, <1>2, <3>1
    <3>3. CASE k = n
      BY <1>2, <2>2, <3>2, <3>3
    <3>4. CASE k # n
      <4>1. k \in 1 .. n - 1 /\ i + 1 = k /\ i # n - 1
        BY <1>2, <2>2, <3>4
      <4>2. m[k] = l[k + 1]
        BY <1>3, <4>1
      <4> QED BY <3>2, <3>4, <4>1, <4>2
    <3> QED BY <3>3, <3>4
  <2>3. CASE i >= k
    <3>1. m[i] = l[i + 1] /\ i + 1 \in 1 .. n /\ i + 1 # k /\ i + 1 # k - 1
      BY <1>2, <1>3, <2>3
    <3>2. next2[m[i]] = next[l[i + 1]]
      BY <1>2, <3>1
    <3>3. next[l[i + 1]] = IF i + 1 = n THEN Null ELSE l[(i + 1) + 1]
      BY <1>1, <1>2, <3>1
    <3>4. CASE i = n - 1
      BY <1>2, <3>2, <3>3, <3>4
    <3>5. CASE i # n - 1
      <4>1. i + 1 \in 1 .. n - 1 /\ ~(i + 1 < k) /\ i + 1 # n
        BY <1>2, <2>3, <3>5
      <4>2. m[i + 1] = l[(i + 1) + 1]
        BY <1>3, <4>1
      <4> QED BY <3>2, <3>3, <3>5, <4>1, <4>2
    <3> QED BY <3>4, <3>5
  <2> QED BY <1>2, <2>1, <2>2, <2>3
<1> QED BY <1>3, <1>4, <1>5 DEF Chain

(***************************************************************************)
(* A list none of whose fields was written is as it was.                   *)
(***************************************************************************)
LEMMA ChainFrame ==
  ASSUME NEW next, NEW next2, NEW h, NEW l, Chain(next, h, l),
         \A i \in 1 .. Len(l) : next2[l[i]] = next[l[i]]
  PROVE  Chain(next2, h, l)
BY DEF Chain

\* The lists K hold what L does and t as well, and what L does without t.
Gains(L, t, K) ==
  /\ K \in [Lane -> Seq(Task)] /\ Apart(K)
  /\ \A u : In(K, u) <=> (In(L, u) \/ u = t)

Loses(L, t, K) ==
  /\ K \in [Lane -> Seq(Task)] /\ Apart(K)
  /\ \A u : In(K, u) <=> (In(L, u) /\ u # t)

With(L, p, l) == [L EXCEPT ![p] = l]

(***************************************************************************)
(* A new task at the end of one list is in no other place.                 *)
(***************************************************************************)
LEMMA ApartAppend ==
  ASSUME NEW L \in [Lane -> Seq(Task)], Apart(L), NEW p \in Lane, NEW t \in Task, ~In(L, t),
         NEW K, K = With(L, p, Append(L[p], t))
  PROVE  Gains(L, t, K)
<1> USE DEF Gains, With
<1>1. L[p] \in Seq(Task)
  OBVIOUS
<1>2. PICK n \in Nat : n = Len(L[p])
  BY <1>1
<1>3. PICK m \in Seq(Task) : m = Append(L[p], t)
  BY <1>1
<1>4. Len(m) = n + 1 /\ m[n + 1] = t /\ \A i \in 1 .. n : m[i] = L[p][i]
  BY <1>1, <1>2, <1>3
<1>5. /\ K \in [Lane -> Seq(Task)] /\ K[p] = m
      /\ \A a \in Lane : a # p => K[a] = L[a]
  BY <1>3
<1>6. ASSUME NEW a \in Lane, NEW i \in 1 .. Len(K[a])
      PROVE  \/ a = p /\ i = n + 1 /\ K[a][i] = t
             \/ i \in 1 .. Len(L[a]) /\ K[a][i] = L[a][i] /\ K[a][i] # t
  <2>1. CASE a # p
    BY <1>5, <2>1 DEF In
  <2>2. CASE a = p /\ i = n + 1
    BY <1>4, <1>5, <2>2
  <2>3. CASE a = p /\ i # n + 1
    <3>1. i \in 1 .. n
      BY <1>4, <1>5, <2>3
    <3> QED BY <1>2, <1>4, <1>5, <2>3, <3>1 DEF In
  <2> QED BY <2>1, <2>2, <2>3
<1>7. Apart(K)
  <2> SUFFICES ASSUME NEW a \in Lane, NEW b \in Lane, NEW i \in 1 .. Len(K[a]),
                      NEW j \in 1 .. Len(K[b]), K[a][i] = K[b][j]
               PROVE  a = b /\ i = j
    BY DEF Apart
  <2> QED BY <1>6 DEF Apart
<1>8. ASSUME NEW u PROVE In(K, u) <=> (In(L, u) \/ u = t)
  <2>1. In(K, u) => In(L, u) \/ u = t
    BY <1>6 DEF In
  <2>2. u = t => In(K, u)
    <3>1. n + 1 \in 1 .. Len(K[p]) /\ K[p][n + 1] = t
      BY <1>4, <1>5
    <3> QED BY <3>1 DEF In
  <2>3. ASSUME NEW a \in Lane, NEW i \in 1 .. Len(L[a]), L[a][i] = u
        PROVE  i \in 1 .. Len(K[a]) /\ K[a][i] = u
    <3>1. CASE a = p
      <4>1. i \in 1 .. n /\ i \in 1 .. n + 1
        BY <1>2, <3>1
      <4> QED BY <1>4, <1>5, <2>3, <3>1, <4>1
    <3>2. CASE a # p
      BY <1>5, <2>3, <3>2
    <3> QED BY <3>1, <3>2
  <2> QED BY <2>1, <2>2, <2>3 DEF In
<1> QED BY <1>5, <1>7, <1>8

(***************************************************************************)
(* A task taken out of its list is in no place any more.                   *)
(***************************************************************************)
LEMMA ApartRemove ==
  ASSUME NEW L \in [Lane -> Seq(Task)], Apart(L), NEW p \in Lane, NEW k \in 1 .. Len(L[p]),
         NEW m, Removed(L[p], k, m), NEW K, K = With(L, p, m)
  PROVE  Loses(L, L[p][k], K)
<1> USE DEF Loses, With
<1>1. L[p] \in Seq(Task)
  OBVIOUS
<1>2. PICK n \in Nat : n = Len(L[p]) /\ k \in 1 .. n
  BY <1>1
<1>3. /\ m \in Seq(Task) /\ Len(m) = n - 1
      /\ \A i \in 1 .. n - 1 : m[i] = L[p][IF i < k THEN i ELSE i + 1]
  BY <1>2 DEF Removed
<1>4. /\ K \in [Lane -> Seq(Task)] /\ K[p] = m
      /\ \A a \in Lane : a # p => K[a] = L[a]
  BY <1>3
<1> DEFINE from(a, i) == IF a = p /\ i >= k THEN i + 1 ELSE i
<1>5. ASSUME NEW a \in Lane, NEW i \in 1 .. Len(K[a])
      PROVE  /\ from(a, i) \in 1 .. Len(L[a]) /\ K[a][i] = L[a][from(a, i)]
             /\ a = p => from(a, i) # k
  <2>1. CASE a # p
    BY <1>4, <2>1
  <2>2. CASE a = p /\ i < k
    <3>1. i \in 1 .. n - 1 /\ i \in 1 .. n /\ i \in Int /\ k \in Int
      BY <1>2, <1>3, <1>4, <2>2
    <3>2. m[i] = L[p][i] /\ ~(i >= k) /\ i # k
      BY <1>3, <2>2, <3>1
    <3> QED BY <1>2, <1>4, <2>2, <3>1, <3>2
  <2>3. CASE a = p /\ ~(i < k)
    <3>1. i \in 1 .. n - 1 /\ i + 1 \in 1 .. n /\ i \in Int /\ k \in Int
      BY <1>2, <1>3, <1>4, <2>3
    <3>2. m[i] = L[p][i + 1] /\ i >= k /\ i + 1 # k
      BY <1>3, <2>3, <3>1
    <3> QED BY <1>2, <1>4, <2>3, <3>1, <3>2
  <2> QED BY <2>1, <2>2, <2>3
<1>6. ASSUME NEW a \in Lane, NEW i \in 1 .. Len(K[a]), NEW j \in 1 .. Len(K[a]),
             from(a, i) = from(a, j)
      PROVE  i = j
  BY <1>2, <1>6
<1> HIDE DEF from
<1>7. Apart(K)
  <2> SUFFICES ASSUME NEW a \in Lane, NEW b \in Lane, NEW i \in 1 .. Len(K[a]),
                      NEW j \in 1 .. Len(K[b]), K[a][i] = K[b][j]
               PROVE  a = b /\ i = j
    BY DEF Apart
  <2>1. /\ from(a, i) \in 1 .. Len(L[a]) /\ K[a][i] = L[a][from(a, i)]
        /\ from(b, j) \in 1 .. Len(L[b]) /\ K[b][j] = L[b][from(b, j)]
    BY <1>5
  <2>2. a = b /\ from(a, i) = from(b, j)
    BY <2>1 DEF Apart
  <2> QED BY <1>6, <2>2
<1>8. ASSUME NEW u, In(K, u) PROVE In(L, u) /\ u # L[p][k]
  <2>1. PICK a \in Lane : \E i \in 1 .. Len(K[a]) : K[a][i] = u
    BY <1>8 DEF In
  <2>2. PICK i \in 1 .. Len(K[a]) : K[a][i] = u
    BY <2>1
  <2>3. PICK j \in 1 .. Len(L[a]) : L[a][j] = u /\ (a = p => j # k)
    BY <1>5, <2>2
  <2>4. u # L[p][k]
    BY <2>3 DEF Apart
  <2> QED BY <2>3, <2>4 DEF In
<1>9. ASSUME NEW u, In(L, u), u # L[p][k] PROVE In(K, u)
  <2>1. PICK a \in Lane : \E i \in 1 .. Len(L[a]) : L[a][i] = u
    BY <1>9 DEF In
  <2>2. PICK i \in 1 .. Len(L[a]) : L[a][i] = u
    BY <2>1
  <2>3. CASE a # p
    BY <1>4, <2>2, <2>3 DEF In
  <2>4. CASE a = p
    <3>1. i \in 1 .. n /\ i # k /\ i \in Int /\ k \in Int
      BY <1>2, <1>9, <2>2, <2>4
    <3>2. CASE i < k
      <4>1. i \in 1 .. n - 1
        BY <1>2, <3>1, <3>2
      <4>2. m[i] = u
        BY <1>3, <2>2, <2>4, <3>2, <4>1
      <4> QED BY <1>3, <1>4, <4>1, <4>2 DEF In
    <3>3. CASE ~(i < k)
      <4>1. i - 1 \in 1 .. n - 1 /\ ~(i - 1 < k) /\ (i - 1) + 1 = i
        BY <1>2, <3>1, <3>3
      <4>2. m[i - 1] = u
        BY <1>3, <2>2, <2>4, <4>1
      <4> QED BY <1>3, <1>4, <4>1, <4>2 DEF In
    <3> QED BY <3>2, <3>3
  <2> QED BY <2>3, <2>4
<1> QED BY <1>4, <1>7, <1>8, <1>9

------------------------------------------------------------------------------
(***************************************************************************)
(* The scheduler's record, and the lists L that it holds.                  *)
(***************************************************************************)
Pointer == Task \cup {Null}

State ==
  [ready_queues : [Level -> Pointer], ready_queue_tails : [Level -> Pointer],
   sleeping_tasks : Pointer, current_task : Pointer, time_slice : 0 .. 20,
   state : [Task -> TaskState], next : Links, priority : [Task -> Level],
   stack_base : [Task -> BOOLEAN], sleep_until : [Task -> 0 .. TickModulus - 1]]

TailOf(l) == IF Len(l) = 0 THEN Null ELSE l[Len(l)]

Rep(q, L) ==
  /\ q \in State /\ L \in [Lane -> Seq(Task)] /\ Apart(L)
  /\ \A a \in Lane : Chain(q.next, HeadOf(q, a), L[a])
  /\ \A p \in Level : q.ready_queue_tails[p] = TailOf(L[p])

(***************************************************************************)
(* The types of the fields.                                                *)
(***************************************************************************)
LEMMA StateFields ==
  ASSUME NEW q \in State
  PROVE  /\ q.ready_queues \in [Level -> Pointer] /\ q.ready_queue_tails \in [Level -> Pointer]
         /\ q.sleeping_tasks \in Pointer /\ q.current_task \in Pointer
         /\ q.time_slice \in 0 .. 20 /\ q.state \in [Task -> TaskState]
         /\ q.next \in Links /\ q.priority \in [Task -> Level]
         /\ q.stack_base \in [Task -> BOOLEAN]
         /\ q.sleep_until \in [Task -> 0 .. TickModulus - 1]
BY DEF State

(***************************************************************************)
(* Levels are lanes, and none of them is the sleepers'.                    *)
(***************************************************************************)
LEMMA Lanes ==
  /\ Level \subseteq Lane /\ Sleepers \in Lane /\ Sleepers \notin Level
  /\ \A a \in Lane : a # Sleepers => a \in Level
BY DEF Level, Lane, Sleepers

\* What AddToReadyQueue leaves alone, and the state it gives the task.
Readied(q, r, t) ==
  /\ r.current_task = q.current_task /\ r.time_slice = q.time_slice
  /\ r.priority = q.priority /\ r.stack_base = q.stack_base /\ r.sleep_until = q.sleep_until
  /\ r.state = [q.state EXCEPT ![t] = "READY"]

(***************************************************************************)
(* AddToReadyQueue (scheduler.cpp:80-99) appends a task that is in no list *)
(* to the queue of its priority.                                           *)
(***************************************************************************)
LEMMA AddRep ==
  ASSUME NEW q, NEW L, Rep(q, L), NEW t \in Task, ~In(L, t),
         NEW p, p = q.priority[t], NEW r, r = AddToReadyQueue(q, t),
         NEW K, K = With(L, p, Append(L[p], t))
  PROVE  Rep(r, K) /\ Readied(q, r, t) /\ Gains(L, t, K)
<1>1. q \in State /\ L \in [Lane -> Seq(Task)] /\ Apart(L)
  BY DEF Rep
<1>2. /\ q.ready_queues \in [Level -> Pointer] /\ q.ready_queue_tails \in [Level -> Pointer]
      /\ q.state \in [Task -> TaskState] /\ q.next \in Links /\ q.priority \in [Task -> Level]
  BY <1>1, StateFields
<1>3. p \in Level /\ p \in Lane /\ p # Sleepers
  BY <1>2, Lanes
<1>4. PICK h : h = q.ready_queues[p]
  OBVIOUS
<1>5. PICK l \in Seq(Task) : l = L[p]
  BY <1>1, <1>3
<1>6. Chain(q.next, h, l) /\ q.ready_queue_tails[p] = TailOf(l)
  BY <1>3, <1>4, <1>5 DEF Rep, HeadOf
<1>7. Once(l)
  BY <1>1, <1>3, <1>5 DEF Apart, Once
<1>8. Without(l, t)
  BY <1>3, <1>5 DEF In, Without
<1>9. h = Null <=> Len(l) = 0
  <2>1. Len(l) # 0 => l[1] # Null
    BY <1>5, ListTyped
  <2> QED BY <1>6, <2>1 DEF Chain
<1>10. PICK next2 : next2 = Appending(q.next, h, l, t)
  OBVIOUS
<1>11. /\ next2 \in Links /\ Chain(next2, IF h = Null THEN t ELSE h, Append(l, t))
       /\ \A u \in Task : u # t /\ Without(l, u) => next2[u] = q.next[u]
  <2>1. LinkedBehind(q.next, h, l, t, next2)
    BY <1>2, <1>6, <1>7, <1>8, <1>10, ChainAppend, Zenon
  <2> QED BY <2>1 DEF LinkedBehind
<1>12. r = [q EXCEPT !.state = [q.state EXCEPT ![t] = "READY"], !.next = next2,
                     !.ready_queues = [q.ready_queues EXCEPT ![p] = IF h = Null THEN t ELSE h],
                     !.ready_queue_tails = [q.ready_queue_tails EXCEPT ![p] = t]]
  <2>1. h # Null => q.ready_queue_tails[p] = l[Len(l)]
    BY <1>6, <1>9 DEF TailOf
  <2> QED BY <1>4, <1>10, <2>1 DEF AddToReadyQueue, Appending
<1>13. PICK heads \in [Level -> Pointer] :
         heads = [q.ready_queues EXCEPT ![p] = IF h = Null THEN t ELSE h]
  BY <1>2, <1>3, <1>4 DEF Pointer
<1>14. PICK tails \in [Level -> Pointer] : tails = [q.ready_queue_tails EXCEPT ![p] = t]
  BY <1>2, <1>3 DEF Pointer
<1>15. PICK states \in [Task -> TaskState] : states = [q.state EXCEPT ![t] = "READY"]
  BY <1>2 DEF TaskState
<1>16. r = [q EXCEPT !.state = states, !.next = next2, !.ready_queues = heads,
                     !.ready_queue_tails = tails]
  BY <1>12, <1>13, <1>14, <1>15
<1>17. /\ r \in State /\ r.next = next2 /\ r.ready_queues = heads /\ r.ready_queue_tails = tails
       /\ r.sleeping_tasks = q.sleeping_tasks /\ r.state = states
       /\ r.current_task = q.current_task /\ r.time_slice = q.time_slice
       /\ r.priority = q.priority /\ r.stack_base = q.stack_base /\ r.sleep_until = q.sleep_until
  BY <1>1, <1>11, <1>16 DEF State
<1>18. Readied(q, r, t)
  BY <1>15, <1>17 DEF Readied
<1>19. Gains(L, t, K) /\ K \in [Lane -> Seq(Task)] /\ Apart(K)
  <2>1. Gains(L, t, K)
    BY <1>1, <1>3, ApartAppend, Zenon
  <2> QED BY <2>1 DEF Gains
<1>20. K[p] = Append(l, t) /\ \A a \in Lane : a # p => K[a] = L[a]
  BY <1>1, <1>3, <1>5 DEF With
<1>21. ASSUME NEW a \in Lane PROVE Chain(r.next, HeadOf(r, a), K[a])
  <2>1. CASE a = p
    <3>1. HeadOf(r, p) = IF h = Null THEN t ELSE h
      BY <1>2, <1>3, <1>13, <1>17 DEF HeadOf
    <3> QED BY <1>11, <1>17, <1>20, <2>1, <3>1
  <2>2. CASE a # p
    <3>1. HeadOf(r, a) = HeadOf(q, a)
      BY <1>2, <1>13, <1>17, <2>2, Lanes DEF HeadOf
    <3>2. L[a] \in Seq(Task) /\ Chain(q.next, HeadOf(q, a), L[a])
      BY <1>1 DEF Rep
    <3>3. ASSUME NEW i \in 1 .. Len(L[a]) PROVE next2[L[a][i]] = q.next[L[a][i]]
      <4>1. L[a][i] \in Task /\ L[a][i] # t
        BY <3>2, ListTyped DEF In
      <4>2. Without(l, L[a][i])
        BY <1>1, <1>3, <1>5, <2>2 DEF Apart, Without
      <4> QED BY <1>11, <4>1, <4>2
    <3>4. Chain(next2, HeadOf(q, a), L[a])
      BY <3>2, <3>3, ChainFrame
    <3> QED BY <1>17, <1>20, <2>2, <3>1, <3>4
  <2> QED BY <2>1, <2>2
<1>22. ASSUME NEW a \in Level PROVE r.ready_queue_tails[a] = TailOf(K[a])
  <2>1. CASE a = p
    <3>1. Len(Append(l, t)) # 0 /\ Append(l, t)[Len(Append(l, t))] = t
      BY <1>5
    <3> QED BY <1>2, <1>3, <1>14, <1>17, <1>20, <2>1, <3>1 DEF TailOf
  <2>2. CASE a # p
    BY <1>2, <1>14, <1>17, <1>20, <2>2, Lanes DEF Rep
  <2> QED BY <2>1, <2>2
<1> QED BY <1>17, <1>18, <1>19, <1>21, <1>22 DEF Rep

\* What taking a task off a list leaves alone.
SameTasks(q, r) ==
  /\ r.current_task = q.current_task /\ r.time_slice = q.time_slice /\ r.state = q.state
  /\ r.priority = q.priority /\ r.stack_base = q.stack_base /\ r.sleep_until = q.sleep_until

\* The first level with a task, and the levels above it, which have none.
IsTop(L, p) ==
  /\ p \in Level /\ Len(L[p]) # 0
  /\ \A a \in Level : Len(L[a]) # 0 => p <= a

(***************************************************************************)
(* A queue is empty when its head is null.                                 *)
(***************************************************************************)
LEMMA HeadNull ==
  ASSUME NEW q, NEW L, Rep(q, L), NEW a \in Lane
  PROVE  /\ L[a] \in Seq(Task) /\ Len(L[a]) \in Nat
         /\ HeadOf(q, a) = IF Len(L[a]) = 0 THEN Null ELSE L[a][1]
         /\ HeadOf(q, a) = Null <=> Len(L[a]) = 0
<1>1. L[a] \in Seq(Task)
  BY DEF Rep
<1>2. Len(L[a]) \in Nat /\ \A i \in 1 .. Len(L[a]) : L[a][i] # Null
  BY <1>1, ListTyped
<1>3. HeadOf(q, a) = IF Len(L[a]) = 0 THEN Null ELSE L[a][1]
  BY DEF Rep, Chain
<1>4. Len(L[a]) # 0 => 1 \in 1 .. Len(L[a])
  BY <1>2
<1> QED BY <1>1, <1>2, <1>3, <1>4

(***************************************************************************)
(* The level that GetHighestPriorityTask stops at (scheduler.cpp:101-106). *)
(***************************************************************************)
LEMMA TopFound ==
  ASSUME NEW q, NEW L, Rep(q, L)
  PROVE  /\ NonEmpty(q) = {p \in Level : Len(L[p]) # 0}
         /\ NonEmpty(q) # {} => IsTop(L, TopLevel(q))
<1>1. ASSUME NEW p \in Level PROVE q.ready_queues[p] = Null <=> Len(L[p]) = 0
  <2>1. p \in Lane /\ HeadOf(q, p) = q.ready_queues[p]
    BY Lanes DEF HeadOf
  <2> QED BY <2>1, HeadNull
<1>2. NonEmpty(q) = {p \in Level : Len(L[p]) # 0}
  BY <1>1 DEF NonEmpty
<1>3. ASSUME NonEmpty(q) # {} PROVE IsTop(L, TopLevel(q))
  <2>1. NonEmpty(q) \subseteq Nat
    BY DEF NonEmpty, Level
  <2>2. \E p \in NonEmpty(q) : \A r \in NonEmpty(q) : p <= r
    BY <1>3, <2>1, MinimumExists, Zenon
  <2>3. TopLevel(q) \in NonEmpty(q) /\ \A r \in NonEmpty(q) : TopLevel(q) <= r
    BY <2>2 DEF TopLevel
  <2> QED BY <1>2, <2>3 DEF IsTop
<1> QED BY <1>2, <1>3

(***************************************************************************)
(* GetHighestPriorityTask (scheduler.cpp:101-117) takes the head of the    *)
(* highest queue that has one.                                             *)
(***************************************************************************)
LEMMA PopRep ==
  ASSUME NEW q, NEW L, Rep(q, L), NonEmpty(q) # {},
         NEW p, p = TopLevel(q), NEW t, t = HighestPriorityTask(q),
         NEW r, r = GetHighestPriorityTask(q),
         NEW K, K = With(L, p, Tail(L[p]))
  PROVE  /\ IsTop(L, p) /\ t = L[p][1] /\ t \in Task
         /\ Rep(r, K) /\ SameTasks(q, r) /\ Loses(L, t, K)
<1>1. q \in State /\ L \in [Lane -> Seq(Task)] /\ Apart(L)
  BY DEF Rep
<1>2. /\ q.ready_queues \in [Level -> Pointer] /\ q.ready_queue_tails \in [Level -> Pointer]
      /\ q.next \in Links
  BY <1>1, StateFields
<1>3. IsTop(L, p)
  BY TopFound
<1>4. p \in Level /\ p \in Lane /\ p # Sleepers /\ Len(L[p]) # 0
  BY <1>3, Lanes DEF IsTop
<1>5. PICK l \in Seq(Task) : l = L[p]
  BY <1>1, <1>4
<1>6. PICK n \in Nat : n = Len(l) /\ n >= 1
  BY <1>4, <1>5
<1>7. t = l[1] /\ t \in Task /\ t = q.ready_queues[p]
  <2>1. t = q.ready_queues[p]
    BY DEF HighestPriorityTask
  <2>2. HeadOf(q, p) = q.ready_queues[p]
    BY <1>4 DEF HeadOf
  <2>3. t = l[1]
    BY <1>4, <1>5, <2>1, <2>2, HeadNull
  <2> QED BY <1>5, <1>6, <2>1, <2>3, ListTyped
<1>8. PICK m : m = Tail(l)
  OBVIOUS
<1>9. m \in Seq(Task) /\ Len(m) = n - 1 /\ \A i \in 1 .. n - 1 : m[i] = l[i + 1]
  BY <1>5, <1>6, <1>8
<1>10. Removed(l, 1, m)
  BY <1>6, <1>9 DEF Removed
<1>11. 1 \in 1 .. Len(l) /\ Chain(q.next, t, l)
  <2>1. HeadOf(q, p) = t
    BY <1>4, <1>7 DEF HeadOf
  <2> QED BY <1>4, <1>5, <1>6, <2>1 DEF Rep
<1>12. PICK next2 \in Links : next2 = [q.next EXCEPT ![t] = Null]
  BY <1>2, <1>7 DEF Links
<1>13. next2[t] = Null /\ \A u \in Task : u # t => next2[u] = q.next[u]
  BY <1>2, <1>7, <1>12 DEF Links
<1>14. PICK rest \in Pointer : rest = q.next[t]
  BY <1>2, <1>7 DEF Links, Pointer
<1>15. Chain(next2, rest, m)
  <2>1. \A i \in 1 .. n : l[i] \in Task /\ (i # 1 => l[i] # t)
    <3>1. \A i \in 1 .. n : l[i] \in Task
      BY <1>5, <1>6, ListTyped
    <3>2. \A i \in 1 .. n : i # 1 => l[i] # l[1]
      BY <1>1, <1>4, <1>5, <1>6, <1>11 DEF Apart
    <3> QED BY <1>7, <3>1, <3>2
  <2>2. \A i \in 1 .. Len(l) : i # 1 - 1 /\ i # 1 => next2[l[i]] = q.next[l[i]]
    BY <1>6, <1>13, <2>1
  <2>3. ~(1 > 1)
    OBVIOUS
  <2>4. Chain(next2, IF 1 = 1 THEN q.next[l[1]] ELSE t, m)
    BY <1>10, <1>11, <2>2, <2>3, ChainRemove
  <2> QED BY <1>7, <1>14, <2>4
<1>16. PICK heads \in [Level -> Pointer] : heads = [q.ready_queues EXCEPT ![p] = rest]
  BY <1>2, <1>4, <1>14
<1>17. q.ready_queue_tails[p] \in Pointer
  BY <1>2, <1>4
<1>18. PICK tail \in Pointer : tail = TailAfterPop(rest, q.ready_queue_tails[p])
  BY <1>17 DEF TailAfterPop, Pointer
<1>19. PICK tails \in [Level -> Pointer] : tails = [q.ready_queue_tails EXCEPT ![p] = tail]
  BY <1>2, <1>4, <1>18
<1>20. r = [q EXCEPT !.ready_queues = heads, !.ready_queue_tails = tails, !.next = next2]
  BY <1>7, <1>12, <1>14, <1>16, <1>18, <1>19 DEF GetHighestPriorityTask
<1>21. /\ r \in State /\ r.next = next2 /\ r.ready_queues = heads /\ r.ready_queue_tails = tails
       /\ r.sleeping_tasks = q.sleeping_tasks /\ r.state = q.state
       /\ r.current_task = q.current_task /\ r.time_slice = q.time_slice
       /\ r.priority = q.priority /\ r.stack_base = q.stack_base /\ r.sleep_until = q.sleep_until
  BY <1>1, <1>20 DEF State
<1>22. Loses(L, t, K) /\ K \in [Lane -> Seq(Task)] /\ Apart(K)
  <2>1. K = With(L, p, m) /\ Removed(L[p], 1, m) /\ 1 \in 1 .. Len(L[p]) /\ L[p][1] = t
    BY <1>5, <1>7, <1>8, <1>10, <1>11
  <2>2. Loses(L, L[p][1], K)
    BY <1>1, <1>4, <2>1, ApartRemove, Zenon
  <2> QED BY <2>1, <2>2 DEF Loses
<1>23. K[p] = m /\ \A a \in Lane : a # p => K[a] = L[a]
  BY <1>1, <1>4, <1>5, <1>8 DEF With
<1>24. ASSUME NEW a \in Lane PROVE Chain(r.next, HeadOf(r, a), K[a])
  <2>1. CASE a = p
    <3>1. HeadOf(r, p) = rest
      BY <1>2, <1>4, <1>16, <1>21 DEF HeadOf
    <3> QED BY <1>15, <1>21, <1>23, <2>1, <3>1
  <2>2. CASE a # p
    <3>1. HeadOf(r, a) = HeadOf(q, a)
      BY <1>2, <1>16, <1>21, <2>2, Lanes DEF HeadOf
    <3>2. L[a] \in Seq(Task) /\ Chain(q.next, HeadOf(q, a), L[a])
      BY <1>1 DEF Rep
    <3>3. ASSUME NEW i \in 1 .. Len(L[a]) PROVE next2[L[a][i]] = q.next[L[a][i]]
      <4>1. L[a][i] \in Task
        BY <3>2, ListTyped
      <4>2. L[a][i] # t
        <5>1. L[p][1] = t /\ 1 \in 1 .. Len(L[p])
          BY <1>5, <1>7, <1>11
        <5> QED BY <1>1, <1>4, <2>2, <5>1 DEF Apart
      <4> QED BY <1>13, <4>1, <4>2
    <3>4. Chain(next2, HeadOf(q, a), L[a])
      BY <3>2, <3>3, ChainFrame
    <3> QED BY <1>21, <1>23, <2>2, <3>1, <3>4
  <2> QED BY <2>1, <2>2
<1>25. ASSUME NEW a \in Level PROVE r.ready_queue_tails[a] = TailOf(K[a])
  <2>1. CASE a # p
    BY <1>2, <1>19, <1>21, <1>23, <2>1, Lanes DEF Rep
  <2>2. CASE a = p
    <3>1. q.ready_queue_tails[p] = l[n]
      BY <1>4, <1>5, <1>6 DEF Rep, TailOf
    <3>2. rest = IF n = 1 THEN Null ELSE l[2]
      BY <1>6, <1>7, <1>11, <1>14 DEF Chain
    <3>3. n # 1 => l[2] # Null
      <4>1. n # 1 => 2 \in 1 .. n
        BY <1>6
      <4> QED BY <1>5, <1>6, <4>1, ListTyped
    <3>4. tail = TailOf(m)
      <4>1. CASE n = 1
        BY <1>9, <1>18, <3>2, <4>1 DEF TailAfterPop, TailOf
      <4>2. CASE n # 1
        <5>1. Len(m) # 0 /\ Len(m) = n - 1 /\ n - 1 \in 1 .. n - 1 /\ (n - 1) + 1 = n
          BY <1>6, <1>9, <4>2
        <5>2. m[n - 1] = l[n]
          BY <1>9, <5>1
        <5>3. tail = l[n]
          BY <1>18, <3>1, <3>2, <3>3, <4>2 DEF TailAfterPop
        <5> QED BY <5>1, <5>2, <5>3 DEF TailOf
      <4> QED BY <4>1, <4>2
    <3> QED BY <1>2, <1>4, <1>19, <1>21, <1>23, <2>2, <3>4
  <2> QED BY <2>1, <2>2
<1> QED BY <1>3, <1>5, <1>7, <1>21, <1>22, <1>24, <1>25 DEF Rep, SameTasks

(***************************************************************************)
(* A record with other values in the fields that hold no list.             *)
(***************************************************************************)
LEMMA RepSame ==
  ASSUME NEW q, NEW L, Rep(q, L), NEW r \in State,
         r.next = q.next, r.ready_queues = q.ready_queues,
         r.ready_queue_tails = q.ready_queue_tails, r.sleeping_tasks = q.sleeping_tasks
  PROVE  Rep(r, L)
<1>1. \A a \in Lane : HeadOf(r, a) = HeadOf(q, a)
  BY DEF HeadOf
<1> QED BY <1>1 DEF Rep

\* The loop over the sleepers has taken t out of their list.
CutOut(q, prev, t) ==
  LET cut == IF prev = Null THEN [q EXCEPT !.sleeping_tasks = q.next[t]]
             ELSE [q EXCEPT !.next[prev] = q.next[t]]
  IN [cut EXCEPT !.sleep_until[t] = 0]

CutTasks(q, r, t) ==
  /\ r.current_task = q.current_task /\ r.time_slice = q.time_slice /\ r.state = q.state
  /\ r.priority = q.priority /\ r.stack_base = q.stack_base
  /\ r.sleep_until = [q.sleep_until EXCEPT ![t] = 0]

PrevOf(l, k) == IF k = 1 THEN Null ELSE l[k - 1]

(***************************************************************************)
(* Taking a due sleeper out of the list (scheduler.cpp:119-131).           *)
(***************************************************************************)
LEMMA CutRep ==
  ASSUME NEW q, NEW L, Rep(q, L), NEW k \in 1 .. Len(L[Sleepers]), NEW t, t = L[Sleepers][k],
         NEW r, r = CutOut(q, PrevOf(L[Sleepers], k), t),
         NEW m, Removed(L[Sleepers], k, m), NEW K, K = With(L, Sleepers, m)
  PROVE  t \in Task /\ Rep(r, K) /\ CutTasks(q, r, t) /\ Loses(L, t, K)
<1>1. q \in State /\ L \in [Lane -> Seq(Task)] /\ Apart(L)
  BY DEF Rep
<1>2. /\ q.next \in Links /\ q.sleep_until \in [Task -> 0 .. TickModulus - 1]
      /\ q.sleeping_tasks \in Pointer
  BY <1>1, StateFields
<1>3. PICK l \in Seq(Task) : l = L[Sleepers]
  BY <1>1, Lanes
<1>4. PICK n \in Nat : n = Len(l) /\ k \in 1 .. n
  BY <1>3
<1>5. \A i \in 1 .. n : l[i] \in Task /\ l[i] # Null
  BY <1>3, <1>4, ListTyped
<1>6. t = l[k] /\ t \in Task
  BY <1>3, <1>4, <1>5
<1>7. PICK rest \in Pointer : rest = q.next[t]
  BY <1>2, <1>6 DEF Links, Pointer
<1>8. PICK sleeps \in [Task -> 0 .. TickModulus - 1] : sleeps = [q.sleep_until EXCEPT ![t] = 0]
  <2>1. 0 \in 0 .. TickModulus - 1
    BY SchedulerConstants
  <2> QED BY <1>2, <1>6, <2>1
<1>9. Loses(L, t, K) /\ K \in [Lane -> Seq(Task)] /\ Apart(K)
  <2>1. Loses(L, L[Sleepers][k], K)
    BY <1>1, Lanes, ApartRemove, Zenon
  <2> QED BY <2>1 DEF Loses
<1>10. K[Sleepers] = m /\ \A a \in Lane : a # Sleepers => K[a] = L[a]
  BY <1>1, Lanes DEF With
<1>11. Chain(q.next, q.sleeping_tasks, l)
  BY <1>3, Lanes DEF Rep, HeadOf
<1>12. \A i, j \in 1 .. n : l[i] = l[j] => i = j
  BY <1>1, <1>3, <1>4, Lanes DEF Apart
<1>13. \E next2 \in Links, h \in Pointer :
         /\ r = [q EXCEPT !.next = next2, !.sleeping_tasks = h, !.sleep_until = sleeps]
         /\ Chain(next2, h, m)
         /\ \A u \in Task : (\A i \in 1 .. n : l[i] # u) => next2[u] = q.next[u]
  <2>1. CASE k = 1
    <3>1. r = [[q EXCEPT !.sleeping_tasks = rest] EXCEPT !.sleep_until[t] = 0]
      BY <1>7, <2>1 DEF CutOut, PrevOf
    <3>2. r = [q EXCEPT !.next = q.next, !.sleeping_tasks = rest, !.sleep_until = sleeps]
      BY <1>1, <1>8, <3>1 DEF State
    <3>3. Chain(q.next, IF k = 1 THEN q.next[l[k]] ELSE q.sleeping_tasks, m)
      <4>1. k \in 1 .. Len(l) /\ Removed(l, k, m) /\ ~(k > 1)
        BY <1>3, <1>4, <2>1
      <4> QED BY <1>11, <4>1, ChainRemove
    <3>4. Chain(q.next, rest, m)
      BY <1>6, <1>7, <2>1, <3>3
    <3> QED BY <1>2, <3>2, <3>4
  <2>2. CASE k # 1
    <3>1. k - 1 \in 1 .. n
      BY <1>4, <2>2
    <3>2. PICK e \in Task : e = l[k - 1] /\ e # Null
      BY <1>5, <3>1
    <3>3. PICK next2 \in Links : next2 = [q.next EXCEPT ![e] = rest]
      BY <1>2, <1>7, <3>2 DEF Links, Pointer
    <3>4. r = [[q EXCEPT !.next[e] = rest] EXCEPT !.sleep_until[t] = 0]
      BY <1>3, <1>7, <2>2, <3>2 DEF CutOut, PrevOf
    <3>5. r = [q EXCEPT !.next = next2, !.sleeping_tasks = q.sleeping_tasks, !.sleep_until = sleeps]
      BY <1>1, <1>8, <3>3, <3>4 DEF State
    <3>6. next2[e] = rest /\ \A u \in Task : u # e => next2[u] = q.next[u]
      BY <1>2, <3>2, <3>3 DEF Links
    <3>7. \A i \in 1 .. n : i # k - 1 => l[i] # e
      BY <1>12, <3>1, <3>2
    <3>8. Chain(next2, IF k = 1 THEN q.next[l[k]] ELSE q.sleeping_tasks, m)
      <4>1. k \in 1 .. Len(l) /\ Removed(l, k, m)
        BY <1>3, <1>4
      <4>2. next2[l[k - 1]] = q.next[l[k]]
        BY <1>6, <1>7, <3>2, <3>6
      <4>3. \A i \in 1 .. Len(l) : i # k - 1 /\ i # k => next2[l[i]] = q.next[l[i]]
        BY <1>4, <1>5, <3>6, <3>7
      <4> QED BY <1>11, <4>1, <4>2, <4>3, ChainRemove, SMTT(30)
    <3>9. Chain(next2, q.sleeping_tasks, m)
      BY <2>2, <3>8
    <3>10. \A u \in Task : (\A i \in 1 .. n : l[i] # u) => next2[u] = q.next[u]
      BY <3>1, <3>2, <3>6
    <3> QED BY <1>2, <3>5, <3>9, <3>10
  <2> QED BY <2>1, <2>2
<1>14. PICK next2 \in Links, h \in Pointer :
         /\ r = [q EXCEPT !.next = next2, !.sleeping_tasks = h, !.sleep_until = sleeps]
         /\ Chain(next2, h, m)
         /\ \A u \in Task : (\A i \in 1 .. n : l[i] # u) => next2[u] = q.next[u]
  BY <1>13
<1>15. /\ r \in State /\ r.next = next2 /\ r.sleeping_tasks = h /\ r.sleep_until = sleeps
       /\ r.ready_queues = q.ready_queues /\ r.ready_queue_tails = q.ready_queue_tails
       /\ r.state = q.state /\ r.current_task = q.current_task /\ r.time_slice = q.time_slice
       /\ r.priority = q.priority /\ r.stack_base = q.stack_base
  BY <1>1, <1>14 DEF State
<1>16. ASSUME NEW a \in Lane PROVE Chain(r.next, HeadOf(r, a), K[a])
  <2>1. CASE a = Sleepers
    BY <1>10, <1>14, <1>15, <2>1 DEF HeadOf
  <2>2. CASE a # Sleepers
    <3>1. HeadOf(r, a) = HeadOf(q, a) /\ K[a] = L[a]
      BY <1>10, <1>15, <2>2 DEF HeadOf
    <3>2. L[a] \in Seq(Task) /\ Chain(q.next, HeadOf(q, a), L[a])
      BY <1>1 DEF Rep
    <3>3. ASSUME NEW i \in 1 .. Len(L[a]) PROVE next2[L[a][i]] = q.next[L[a][i]]
      <4>1. L[a][i] \in Task
        BY <3>2, ListTyped
      <4>2. \A j \in 1 .. n : l[j] # L[a][i]
        BY <1>1, <1>3, <1>4, <2>2, Lanes DEF Apart
      <4> QED BY <1>14, <4>1, <4>2
    <3>4. Chain(next2, HeadOf(q, a), L[a])
      BY <3>2, <3>3, ChainFrame
    <3> QED BY <1>15, <3>1, <3>4
  <2> QED BY <2>1, <2>2
<1>17. \A a \in Level : r.ready_queue_tails[a] = TailOf(K[a])
  <2>1. \A a \in Level : K[a] = L[a]
    BY <1>10, Lanes
  <2> QED BY <1>15, <2>1 DEF Rep
<1> QED BY <1>6, <1>8, <1>9, <1>15, <1>16, <1>17 DEF Rep, CutTasks

(***************************************************************************)
(* A task in front of a list gives a list.                                 *)
(***************************************************************************)
LEMMA FrontType ==
  ASSUME NEW t \in Task, NEW l \in Seq(Task)
  PROVE  <<t>> \o l \in Seq(Task)
<1>1. PICK e : e = <<t>>
  OBVIOUS
<1>2. e \in Seq(Task)
  BY <1>1
<1>3. e \o l \in Seq(Task)
  BY <1>2
<1> QED BY <1>1, <1>3

(***************************************************************************)
(* A new task in front of one list is in no other place.                   *)
(***************************************************************************)
LEMMA ApartPrepend ==
  ASSUME NEW L \in [Lane -> Seq(Task)], Apart(L), NEW p \in Lane, NEW t \in Task, ~In(L, t),
         NEW K, K = With(L, p, <<t>> \o L[p])
  PROVE  Gains(L, t, K)
<1> USE DEF Gains, With
<1>1. L[p] \in Seq(Task)
  OBVIOUS
<1>2. PICK n \in Nat : n = Len(L[p])
  BY <1>1
<1>3. PICK m \in Seq(Task) : m = <<t>> \o L[p]
  BY <1>1, FrontType
<1>4. Len(m) = n + 1 /\ m[1] = t /\ \A i \in 1 .. n : m[i + 1] = L[p][i]
  BY <1>1, <1>2, <1>3
<1>5. /\ K \in [Lane -> Seq(Task)] /\ K[p] = m
      /\ \A a \in Lane : a # p => K[a] = L[a]
  BY <1>3
<1> DEFINE from(a, i) == IF a = p THEN i - 1 ELSE i
<1>6. ASSUME NEW a \in Lane, NEW i \in 1 .. Len(K[a])
      PROVE  \/ a = p /\ i = 1 /\ K[a][i] = t
             \/ from(a, i) \in 1 .. Len(L[a]) /\ K[a][i] = L[a][from(a, i)] /\ K[a][i] # t
  <2>1. CASE a # p
    BY <1>5, <2>1 DEF In
  <2>2. CASE a = p /\ i = 1
    BY <1>4, <1>5, <2>2
  <2>3. CASE a = p /\ i # 1
    <3>1. i - 1 \in 1 .. n /\ (i - 1) + 1 = i
      BY <1>4, <1>5, <2>3
    <3>2. m[i] = L[p][i - 1]
      BY <1>4, <3>1
    <3> QED BY <1>2, <1>5, <2>3, <3>1, <3>2 DEF In
  <2> QED BY <2>1, <2>2, <2>3
<1>7. ASSUME NEW a \in Lane, NEW i \in 1 .. Len(K[a]), NEW j \in 1 .. Len(K[a]),
             from(a, i) = from(a, j)
      PROVE  i = j
  BY <1>7
<1> HIDE DEF from
<1>8. Apart(K)
  <2> SUFFICES ASSUME NEW a \in Lane, NEW b \in Lane, NEW i \in 1 .. Len(K[a]),
                      NEW j \in 1 .. Len(K[b]), K[a][i] = K[b][j]
               PROVE  a = b /\ i = j
    BY DEF Apart
  <2>1. \/ a = p /\ i = 1 /\ K[a][i] = t
        \/ from(a, i) \in 1 .. Len(L[a]) /\ K[a][i] = L[a][from(a, i)] /\ K[a][i] # t
    BY <1>6
  <2>2. \/ b = p /\ j = 1 /\ K[b][j] = t
        \/ from(b, j) \in 1 .. Len(L[b]) /\ K[b][j] = L[b][from(b, j)] /\ K[b][j] # t
    BY <1>6
  <2>3. CASE K[a][i] = t
    BY <2>1, <2>2, <2>3
  <2>4. CASE K[a][i] # t
    <3>1. a = b /\ from(a, i) = from(b, j)
      BY <2>1, <2>2, <2>4 DEF Apart
    <3> QED BY <1>7, <3>1
  <2> QED BY <2>3, <2>4
<1>9. ASSUME NEW u PROVE In(K, u) <=> (In(L, u) \/ u = t)
  <2>1. In(K, u) => In(L, u) \/ u = t
    BY <1>6 DEF In
  <2>2. u = t => In(K, u)
    <3>1. 1 \in 1 .. Len(K[p]) /\ K[p][1] = t
      BY <1>4, <1>5
    <3> QED BY <3>1 DEF In
  <2>3. ASSUME NEW a \in Lane, NEW i \in 1 .. Len(L[a]), L[a][i] = u
        PROVE  \E j \in 1 .. Len(K[a]) : K[a][j] = u
    <3>1. CASE a = p
      <4>1. i \in 1 .. n /\ i + 1 \in 1 .. n + 1
        BY <1>2, <3>1
      <4> QED BY <1>4, <1>5, <2>3, <3>1, <4>1, ZenonT(30)
    <3>2. CASE a # p
      BY <1>5, <2>3, <3>2
    <3> QED BY <3>1, <3>2
  <2> QED BY <2>1, <2>2, <2>3 DEF In
<1> QED BY <1>5, <1>8, <1>9

\* The record once t was put in front of the sleepers, until tick w.
FallAsleep(q, t, w) ==
  [q EXCEPT !.state[t] = "SLEEPING", !.sleep_until[t] = w,
            !.next[t] = q.sleeping_tasks, !.sleeping_tasks = t]

SleepTasks(q, r, t) ==
  /\ r.current_task = q.current_task /\ r.time_slice = q.time_slice
  /\ r.priority = q.priority /\ r.stack_base = q.stack_base
  /\ r.state = [q.state EXCEPT ![t] = "SLEEPING"]

(***************************************************************************)
(* SleepTask (scheduler.cpp:370-391) puts a task that is in no list in     *)
(* front of the sleepers.                                                  *)
(***************************************************************************)
LEMMA PushRep ==
  ASSUME NEW q, NEW L, Rep(q, L), NEW t \in Task, ~In(L, t),
         NEW w \in 0 .. TickModulus - 1, NEW r, r = FallAsleep(q, t, w),
         NEW K, K = With(L, Sleepers, <<t>> \o L[Sleepers])
  PROVE  Rep(r, K) /\ SleepTasks(q, r, t) /\ Gains(L, t, K)
<1>1. q \in State /\ L \in [Lane -> Seq(Task)] /\ Apart(L)
  BY DEF Rep
<1>2. /\ q.next \in Links /\ q.sleep_until \in [Task -> 0 .. TickModulus - 1]
      /\ q.sleeping_tasks \in Pointer /\ q.state \in [Task -> TaskState]
  BY <1>1, StateFields
<1>3. PICK l \in Seq(Task) : l = L[Sleepers]
  BY <1>1, Lanes
<1>4. PICK n \in Nat : n = Len(l)
  BY <1>3
<1>5. PICK next2 \in Links : next2 = [q.next EXCEPT ![t] = q.sleeping_tasks]
  BY <1>2 DEF Links, Pointer
<1>6. next2[t] = q.sleeping_tasks /\ \A u \in Task : u # t => next2[u] = q.next[u]
  BY <1>2, <1>5 DEF Links
<1>7. PICK sleeps \in [Task -> 0 .. TickModulus - 1] : sleeps = [q.sleep_until EXCEPT ![t] = w]
  BY <1>2
<1>8. PICK states \in [Task -> TaskState] : states = [q.state EXCEPT ![t] = "SLEEPING"]
  BY <1>2 DEF TaskState
<1>9. r = [q EXCEPT !.state = states, !.sleep_until = sleeps, !.next = next2, !.sleeping_tasks = t]
  BY <1>5, <1>7, <1>8 DEF FallAsleep
<1>10. /\ r \in State /\ r.next = next2 /\ r.sleeping_tasks = t /\ r.sleep_until = sleeps
       /\ r.ready_queues = q.ready_queues /\ r.ready_queue_tails = q.ready_queue_tails
       /\ r.state = states /\ r.current_task = q.current_task /\ r.time_slice = q.time_slice
       /\ r.priority = q.priority /\ r.stack_base = q.stack_base
  BY <1>1, <1>9 DEF State, Pointer
<1>11. Gains(L, t, K) /\ K \in [Lane -> Seq(Task)] /\ Apart(K)
  <2>1. Gains(L, t, K)
    BY <1>1, Lanes, ApartPrepend, Zenon
  <2> QED BY <2>1 DEF Gains
<1>12. PICK m \in Seq(Task) : m = <<t>> \o l
  BY <1>3, FrontType
<1>13. K[Sleepers] = m /\ \A a \in Lane : a # Sleepers => K[a] = L[a]
  BY <1>1, <1>3, <1>12, Lanes DEF With
<1>14. Len(m) = n + 1 /\ m[1] = t /\ \A i \in 1 .. n : m[i + 1] = l[i]
  BY <1>3, <1>4, <1>12, SMTT(30)
<1>15. Chain(q.next, q.sleeping_tasks, l)
  BY <1>3, Lanes DEF Rep, HeadOf
<1>16. ASSUME NEW a \in Lane, NEW i \in 1 .. Len(L[a]) PROVE next2[L[a][i]] = q.next[L[a][i]]
  <2>1. L[a][i] \in Task /\ L[a][i] # t
    BY <1>1, ListTyped DEF In
  <2> QED BY <1>6, <2>1
<1>17. ASSUME NEW i \in 1 .. n + 1
       PROVE  next2[m[i]] = IF i = n + 1 THEN Null ELSE m[i + 1]
  <2>1. CASE i = 1
    <3>1. next2[m[1]] = IF n = 0 THEN Null ELSE l[1]
      BY <1>4, <1>6, <1>14, <1>15 DEF Chain
    <3>2. n # 0 => m[1 + 1] = l[1]
      <4>1. n # 0 => 1 \in 1 .. n
        BY <1>4
      <4> QED BY <1>14, <4>1
    <3> QED BY <1>4, <2>1, <3>1, <3>2
  <2>2. CASE i # 1
    <3>1. PICK j \in 1 .. n : i = j + 1
      <4>1. i - 1 \in 1 .. n /\ i = (i - 1) + 1
        BY <2>2
      <4> QED BY <4>1
    <3>2. m[i] = l[j]
      BY <1>14, <3>1
    <3>3. next2[l[j]] = q.next[l[j]]
      BY <1>3, <1>4, <1>16, Lanes
    <3>4. q.next[l[j]] = IF j = n THEN Null ELSE l[j + 1]
      BY <1>4, <1>15 DEF Chain
    <3>5. j # n => m[i + 1] = l[j + 1]
      <4>1. j # n => j + 1 \in 1 .. n
        OBVIOUS
      <4> QED BY <1>14, <3>1, <4>1
    <3>6. i = n + 1 <=> j = n
      BY <3>1
    <3> QED BY <3>2, <3>3, <3>4, <3>5, <3>6
  <2> QED BY <2>1, <2>2
<1>18. Chain(next2, t, m)
  <2>1. Len(m) # 0
    BY <1>14
  <2> QED BY <1>14, <1>17, <2>1 DEF Chain
<1>19. ASSUME NEW a \in Lane PROVE Chain(r.next, HeadOf(r, a), K[a])
  <2>1. CASE a = Sleepers
    BY <1>10, <1>13, <1>18, <2>1 DEF HeadOf
  <2>2. CASE a # Sleepers
    <3>1. HeadOf(r, a) = HeadOf(q, a) /\ K[a] = L[a]
      BY <1>10, <1>13, <2>2 DEF HeadOf
    <3>2. Chain(q.next, HeadOf(q, a), L[a])
      BY DEF Rep
    <3>3. Chain(next2, HeadOf(q, a), L[a])
      BY <1>16, <3>2, ChainFrame
    <3> QED BY <1>10, <3>1, <3>3
  <2> QED BY <2>1, <2>2
<1>20. \A a \in Level : r.ready_queue_tails[a] = TailOf(K[a])
  <2>1. \A a \in Level : K[a] = L[a]
    BY <1>13, Lanes
  <2> QED BY <1>10, <2>1 DEF Rep
<1> QED BY <1>8, <1>10, <1>11, <1>19, <1>20 DEF Rep, SleepTasks

------------------------------------------------------------------------------
(***************************************************************************)
(* Choosing from a list: f[k] are those of the first k tasks of z that are *)
(* in X.                                                                   *)
(***************************************************************************)
ChosenUpTo(f, z, X, k) ==
  /\ f \in [0 .. k -> Seq(Task)] /\ f[0] = <<>>
  /\ \A j \in 1 .. k : f[j] = IF z[j] \in X THEN Append(f[j - 1], z[j]) ELSE f[j - 1]

Chosen(z, X) == CHOOSE f : ChosenUpTo(f, z, X, Len(z))

Picked(z, X) == Chosen(z, X)[Len(z)]

(***************************************************************************)
(* There is such an f: it can be continued from each place to the next.    *)
(***************************************************************************)
LEMMA ChosenDefined ==
  ASSUME NEW z \in Seq(Task), NEW X
  PROVE  ChosenUpTo(Chosen(z, X), z, X, Len(z))
<1> DEFINE Can(k) == \E f : ChosenUpTo(f, z, X, k)
           T == {k \in 0 .. Len(z) : ~Can(k)}
<1>1. PICK n \in Nat : n = Len(z)
  OBVIOUS
<1>2. Can(0)
  <2>1. PICK f : f = [j \in 0 .. 0 |-> <<>>]
    OBVIOUS
  <2>2. f \in [0 .. 0 -> Seq(Task)] /\ f[0] = <<>>
    BY <2>1
  <2>3. ChosenUpTo(f, z, X, 0)
    BY <2>2 DEF ChosenUpTo
  <2> QED BY <2>3
<1>3. ASSUME NEW k \in 1 .. n, Can(k - 1) PROVE Can(k)
  <2>1. PICK f : ChosenUpTo(f, z, X, k - 1)
    BY <1>3
  <2>2. /\ f \in [0 .. k - 1 -> Seq(Task)] /\ f[0] = <<>>
        /\ \A j \in 1 .. k - 1 : f[j] = IF z[j] \in X THEN Append(f[j - 1], z[j]) ELSE f[j - 1]
    BY <2>1 DEF ChosenUpTo
  <2>3. k \in Nat /\ k # 0 /\ z[k] \in Task /\ k - 1 \in 0 .. k - 1
    BY <1>1
  <2>4. PICK v \in Seq(Task) : v = IF z[k] \in X THEN Append(f[k - 1], z[k]) ELSE f[k - 1]
    <3>1. PICK e \in Seq(Task) : e = f[k - 1]
      BY <2>2, <2>3
    <3>2. Append(e, z[k]) \in Seq(Task)
      BY <2>3
    <3> QED BY <3>1, <3>2
  <2>5. PICK g : g = [j \in 0 .. k |-> IF j = k THEN v ELSE f[j]]
    OBVIOUS
  <2>6. \A j \in 0 .. k : j # k => j \in 0 .. k - 1
    BY <2>3
  <2>7. g \in [0 .. k -> Seq(Task)] /\ g[k] = v /\ \A j \in 0 .. k - 1 : g[j] = f[j]
    BY <2>2, <2>3, <2>4, <2>5, <2>6, SMTT(30)
  <2>8. ASSUME NEW j \in 1 .. k
        PROVE  g[j] = IF z[j] \in X THEN Append(g[j - 1], z[j]) ELSE g[j - 1]
    <3>1. CASE j = k
      BY <2>3, <2>4, <2>7, <3>1
    <3>2. CASE j # k
      <4>1. j \in 1 .. k - 1 /\ j - 1 \in 0 .. k - 1 /\ j \in 0 .. k - 1
        BY <2>3, <3>2
      <4> QED BY <2>2, <2>7, <4>1
    <3> QED BY <3>1, <3>2
  <2>9. g[0] = <<>>
    BY <2>2, <2>3, <2>7
  <2>10. ChosenUpTo(g, z, X, k)
    BY <2>7, <2>8, <2>9 DEF ChosenUpTo
  <2> QED BY <2>10
<1> HIDE DEF Can
<1>4. T = {}
  <2> SUFFICES ASSUME T # {} PROVE FALSE
    OBVIOUS
  <2>1. T \subseteq Nat
    OBVIOUS
  <2>2. PICK m \in T : \A i \in T : m <= i
    BY <2>1, MinimumExists, Zenon
  <2>3. m # 0
    BY <1>2
  <2>4. m \in 1 .. n /\ m - 1 \in 0 .. Len(z) /\ m - 1 \notin T
    BY <1>1, <2>2, <2>3
  <2>5. Can(m - 1)
    BY <2>4
  <2>6. Can(m)
    BY <1>3, <2>4, <2>5
  <2> QED BY <2>6
<1>5. Can(Len(z))
  <2>1. Len(z) \in 0 .. Len(z)
    BY <1>1
  <2> QED BY <1>4, <2>1
<1> QED BY <1>5 DEF Can, Chosen

(***************************************************************************)
(* What is chosen is a list of tasks of X.                                 *)
(***************************************************************************)
LEMMA ChosenFrom ==
  ASSUME NEW z \in Seq(Task), NEW X
  PROVE  \A k \in 0 .. Len(z) :
           /\ Chosen(z, X)[k] \in Seq(Task)
           /\ \A i \in 1 .. Len(Chosen(z, X)[k]) : Chosen(z, X)[k][i] \in X
<1>1. PICK n \in Nat : n = Len(z)
  OBVIOUS
<1>2. PICK f : f = Chosen(z, X)
  OBVIOUS
<1>3. /\ f \in [0 .. n -> Seq(Task)] /\ f[0] = <<>>
      /\ \A j \in 1 .. n : f[j] = IF z[j] \in X THEN Append(f[j - 1], z[j]) ELSE f[j - 1]
  BY <1>1, <1>2, ChosenDefined, SMTT(30) DEF ChosenUpTo
<1> DEFINE Good(k) == \A i \in 1 .. Len(f[k]) : f[k][i] \in X
           T == {k \in 0 .. n : ~Good(k)}
<1>4. Good(0)
  BY <1>3
<1>5. ASSUME NEW k \in 1 .. n, Good(k - 1) PROVE Good(k)
  <2>1. PICK g \in Seq(Task) : g = f[k - 1]
    BY <1>3
  <2>2. \A i \in 1 .. Len(g) : g[i] \in X
    BY <1>5, <2>1
  <2>3. CASE z[k] \in X
    <3>1. PICK e : e = z[k]
      OBVIOUS
    <3>2. f[k] = Append(g, e) /\ e \in X
      BY <1>3, <2>1, <2>3, <3>1
    <3>3. PICK m \in Nat : m = Len(g)
      BY <2>1
    <3>4. /\ Len(Append(g, e)) = m + 1 /\ Append(g, e)[m + 1] = e
          /\ \A i \in 1 .. m : Append(g, e)[i] = g[i]
      BY <2>1, <3>3
    <3>5. \A i \in 1 .. m + 1 : i \in 1 .. m \/ i = m + 1
      OBVIOUS
    <3> QED BY <2>2, <3>2, <3>3, <3>4, <3>5
  <2>4. CASE z[k] \notin X
    BY <1>3, <1>5, <2>4
  <2> QED BY <2>3, <2>4
<1> HIDE DEF Good
<1>6. T = {}
  <2> SUFFICES ASSUME T # {} PROVE FALSE
    OBVIOUS
  <2>1. T \subseteq Nat
    OBVIOUS
  <2>2. PICK m \in T : \A i \in T : m <= i
    BY <2>1, MinimumExists, Zenon
  <2>3. m # 0
    BY <1>4
  <2>4. m \in 1 .. n /\ m - 1 \in 0 .. n /\ m - 1 \notin T
    BY <1>1, <2>2, <2>3
  <2>5. Good(m - 1)
    BY <2>4
  <2>6. Good(m)
    BY <1>5, <2>4, <2>5
  <2> QED BY <2>6
<1>7. \A k \in 0 .. n : Good(k)
  BY <1>6
<1> QED BY <1>1, <1>2, <1>3, <1>7 DEF Good

(***************************************************************************)
(* The turns of ProcessSleepingTasks' loop (scheduler.cpp:119-131).        *)
(***************************************************************************)
TurnsTo(g, q, tick, z, k) ==
  g = [j \in 0 .. k |-> IF j = 0 THEN [q |-> q, prev |-> Null]
                        ELSE WakeIfDue(tick, g[j - 1], z[j])]

(***************************************************************************)
(* The loop runs through all sleepers.                                     *)
(***************************************************************************)
LEMMA TurnsDefined ==
  ASSUME NEW q, NEW tick, NEW z \in Seq(Task), z = SleepList(q)
  PROVE  \E g : /\ TurnsTo(g, q, tick, z, Len(z))
                /\ ProcessSleepingTasks(q, tick) = g[Len(z)].q
<1> DEFINE Can(k) == \E g : TurnsTo(g, q, tick, z, k)
           T == {k \in 0 .. Len(z) : ~Can(k)}
<1>1. PICK n \in Nat : n = Len(z)
  OBVIOUS
<1>2. PICK start : start = [q |-> q, prev |-> Null]
  OBVIOUS
<1>3. Can(0)
  <2>1. PICK g : g = [j \in 0 .. 0 |-> start]
    OBVIOUS
  <2>2. TurnsTo(g, q, tick, z, 0)
    BY <1>2, <2>1 DEF TurnsTo
  <2> QED BY <2>2
<1>4. ASSUME NEW k \in 1 .. n, Can(k - 1) PROVE Can(k)
  <2>1. PICK g : TurnsTo(g, q, tick, z, k - 1)
    BY <1>4
  <2>2. /\ g = [j \in 0 .. k - 1 |-> g[j]]
        /\ \A j \in 0 .. k - 1 : g[j] = IF j = 0 THEN start ELSE WakeIfDue(tick, g[j - 1], z[j])
    BY <1>2, <2>1 DEF TurnsTo
  <2>3. k \in Nat /\ k # 0 /\ k - 1 \in 0 .. k - 1 /\ 0 \in 0 .. k - 1
    BY <1>1
  <2>4. PICK v : v = WakeIfDue(tick, g[k - 1], z[k])
    OBVIOUS
  <2>5. PICK r : r = [j \in 0 .. k |-> IF j = k THEN v ELSE g[j]]
    OBVIOUS
  <2>6. r[k] = v /\ r = [j \in 0 .. k |-> r[j]] /\ \A j \in 0 .. k - 1 : r[j] = g[j]
    BY <2>3, <2>5
  <2>7. ASSUME NEW j \in 0 .. k
        PROVE  r[j] = IF j = 0 THEN start ELSE WakeIfDue(tick, r[j - 1], z[j])
    <3>1. CASE j = k
      BY <2>3, <2>4, <2>6, <3>1
    <3>2. CASE j = 0
      BY <2>2, <2>3, <2>6, <3>2
    <3>3. CASE j # k /\ j # 0
      <4>1. j - 1 \in 0 .. k - 1 /\ j \in 0 .. k - 1
        BY <2>3, <3>3
      <4> QED BY <2>2, <2>6, <3>3, <4>1
    <3> QED BY <3>1, <3>2, <3>3
  <2>8. TurnsTo(r, q, tick, z, k)
    BY <1>2, <2>6, <2>7 DEF TurnsTo
  <2> QED BY <2>8
<1> HIDE DEF Can
<1>5. T = {}
  <2> SUFFICES ASSUME T # {} PROVE FALSE
    OBVIOUS
  <2>1. T \subseteq Nat
    OBVIOUS
  <2>2. PICK m \in T : \A i \in T : m <= i
    BY <2>1, MinimumExists, Zenon
  <2>3. m # 0
    BY <1>3
  <2>4. m \in 1 .. n /\ m - 1 \in 0 .. Len(z) /\ m - 1 \notin T
    BY <1>1, <2>2, <2>3
  <2>5. Can(m - 1)
    BY <2>4
  <2>6. Can(m)
    BY <1>4, <2>4, <2>5
  <2> QED BY <2>6
<1>6. Can(Len(z))
  <2>1. Len(z) \in 0 .. Len(z)
    BY <1>1
  <2> QED BY <1>5, <2>1
<1>7. PICK g : g = CHOOSE f : TurnsTo(f, q, tick, z, Len(z))
  OBVIOUS
<1>8. TurnsTo(g, q, tick, z, Len(z))
  BY <1>6, <1>7 DEF Can
<1>9. ProcessSleepingTasks(q, tick) = g[Len(z)].q
  BY <1>7 DEF ProcessSleepingTasks, TurnsTo
<1> QED BY <1>8, <1>9

\* The sleepers that are due, those that join the queue of a level, and the others.
Due(q, tick, z) == {t \in ToSet(z) : tick >= q.sleep_until[t]}

Joins(q, tick, z, p) == {t \in Due(q, tick, z) : q.priority[t] = p}

Stays(q, tick, z) == ToSet(z) \ Due(q, tick, z)

\* After k turns m holds the tasks f that stay and those not looked at yet.
LeftAsleep(m, f, z, k) ==
  /\ Len(m) = Len(f) + (Len(z) - k)
  /\ \A i \in 1 .. Len(f) : m[i] = f[i]
  /\ \A i \in 1 .. Len(z) - k : m[Len(f) + i] = z[k + i]

\* Waking only makes tasks of the lists ready.
WokenTasks(q, r, L) ==
  /\ r.current_task = q.current_task /\ r.time_slice = q.time_slice
  /\ r.priority = q.priority /\ r.stack_base = q.stack_base
  /\ \A u \in Task : r.state[u] = q.state[u] \/ (r.state[u] = "READY" /\ In(L, u))

SameMembers(L, K) == \A u : In(K, u) <=> In(L, u)

(***************************************************************************)
(* The invariant of the loop: where the record stands after k turns.       *)
(***************************************************************************)
Turned(q, L, tick, k, r, prev, K) ==
  LET z == L[Sleepers]
  IN /\ Rep(r, K) /\ SameMembers(L, K) /\ WokenTasks(q, r, L)
     /\ \A p \in Level : K[p] = L[p] \o Chosen(z, Joins(q, tick, z, p))[k]
     /\ LeftAsleep(K[Sleepers], Chosen(z, Stays(q, tick, z))[k], z, k)
     /\ prev = TailOf(Chosen(z, Stays(q, tick, z))[k])
     /\ \A i \in k + 1 .. Len(z) : r.sleep_until[z[i]] = q.sleep_until[z[i]]

(***************************************************************************)
(* A list without one of its elements.                                     *)
(***************************************************************************)
LEMMA RemovedExists ==
  ASSUME NEW l \in Seq(Task), NEW k \in 1 .. Len(l)
  PROVE  \E m : Removed(l, k, m)
<1>1. PICK n \in Nat : n = Len(l) /\ n >= 1 /\ k \in 1 .. n
  OBVIOUS
<1>2. PICK m : m = [i \in 1 .. n - 1 |-> l[IF i < k THEN i ELSE i + 1]]
  OBVIOUS
<1>3. n - 1 \in Nat
  BY <1>1
<1>4. \A i \in 1 .. n - 1 : (IF i < k THEN i ELSE i + 1) \in 1 .. n
  BY <1>1
<1>5. \A i \in 1 .. n : l[i] \in Task
  BY <1>1
<1>6. m \in [1 .. n - 1 -> Task]
  BY <1>2, <1>4, <1>5
<1>7. m \in Seq(Task) /\ Len(m) = n - 1
  BY <1>3, <1>6
<1>8. Removed(l, k, m)
  BY <1>1, <1>2, <1>7 DEF Removed
<1> QED BY <1>8

(***************************************************************************)
(* Appending behind the second of two joined lists.                        *)
(***************************************************************************)
LEMMA AppendBehind ==
  ASSUME NEW a \in Seq(Task), NEW b \in Seq(Task), NEW t \in Task
  PROVE  Append(a \o b, t) = a \o Append(b, t)
OBVIOUS

(***************************************************************************)
(* What two joined lists hold.                                             *)
(***************************************************************************)
LEMMA ConcatParts ==
  ASSUME NEW a \in Seq(Task), NEW b \in Seq(Task), NEW x \in Nat, NEW y \in Nat,
         x = Len(a), y = Len(b)
  PROVE  /\ a \o b \in Seq(Task) /\ Len(a \o b) = x + y
         /\ \A i \in 1 .. x : (a \o b)[i] = a[i]
         /\ \A i \in 1 .. y : (a \o b)[x + i] = b[i]
<1>1. a \o b \in Seq(Task)
  OBVIOUS
<1>2. Len(a \o b) = x + y
  OBVIOUS
<1>3. ASSUME NEW i \in 1 .. x PROVE (a \o b)[i] = a[i]
  OBVIOUS
<1>4. ASSUME NEW i \in 1 .. y PROVE (a \o b)[x + i] = b[i]
  OBVIOUS
<1> QED BY <1>1, <1>2, <1>3, <1>4

(***************************************************************************)
(* How a choice grows: at place k the k-th task is looked at.              *)
(***************************************************************************)
LEMMA ChosenStep ==
  ASSUME NEW z \in Seq(Task), NEW X, NEW k \in 1 .. Len(z)
  PROVE  /\ Chosen(z, X)[k - 1] \in Seq(Task)
         /\ z[k] \in X => Chosen(z, X)[k] = Append(Chosen(z, X)[k - 1], z[k])
         /\ z[k] \notin X => Chosen(z, X)[k] = Chosen(z, X)[k - 1]
<1>1. PICK n \in Nat : n = Len(z)
  OBVIOUS
<1>2. PICK f : f = Chosen(z, X)
  OBVIOUS
<1>3. /\ f \in [0 .. n -> Seq(Task)]
      /\ \A j \in 1 .. n : f[j] = IF z[j] \in X THEN Append(f[j - 1], z[j]) ELSE f[j - 1]
  BY <1>1, <1>2, ChosenDefined DEF ChosenUpTo
<1>4. k - 1 \in 0 .. n /\ k \in 1 .. n
  BY <1>1
<1> QED BY <1>2, <1>3, <1>4

(***************************************************************************)
(* Before the first place nothing is chosen.                               *)
(***************************************************************************)
LEMMA ChosenStart ==
  ASSUME NEW z \in Seq(Task), NEW X
  PROVE  Chosen(z, X)[0] = <<>>
BY ChosenDefined DEF ChosenUpTo

(***************************************************************************)
(* Before the first turn.                                                  *)
(***************************************************************************)
LEMMA TurnStart ==
  ASSUME NEW q, NEW L, Rep(q, L), NEW tick
  PROVE  Turned(q, L, tick, 0, q, Null, L)
<1>1. L \in [Lane -> Seq(Task)]
  BY DEF Rep
<1>2. PICK z \in Seq(Task) : z = L[Sleepers]
  BY <1>1, Lanes
<1>3. SameMembers(L, L) /\ WokenTasks(q, q, L)
  BY DEF SameMembers, WokenTasks
<1>4. ASSUME NEW p \in Level PROVE L[p] = L[p] \o Chosen(z, Joins(q, tick, z, p))[0]
  <2>1. PICK l \in Seq(Task) : l = L[p]
    BY <1>1, Lanes
  <2>2. l \o <<>> = l
    BY <2>1
  <2> QED BY <2>1, <2>2, ChosenStart
<1>5. Chosen(z, Stays(q, tick, z))[0] = <<>>
  BY ChosenStart
<1>6. LeftAsleep(z, <<>>, z, 0) /\ TailOf(<<>>) = Null
  <2>1. PICK n \in Nat : n = Len(z)
    BY <1>2
  <2>2. Len(<<>>) = 0 /\ n = 0 + (n - 0) /\ \A i \in 1 .. n - 0 : 0 + i = i
    OBVIOUS
  <2> QED BY <2>1, <2>2 DEF LeftAsleep, TailOf
<1> QED BY <1>2, <1>3, <1>4, <1>5, <1>6 DEF Turned

(***************************************************************************)
(* The place of the task a turn looks at: behind those that stay.          *)
(***************************************************************************)
LEMMA TurnPlace ==
  ASSUME NEW z \in Seq(Task), NEW k \in 1 .. Len(z), NEW f \in Seq(Task), NEW l \in Seq(Task),
         LeftAsleep(l, f, z, k - 1)
  PROVE  /\ Len(f) + 1 \in 1 .. Len(l) /\ l[Len(f) + 1] = z[k]
         /\ TailOf(f) = PrevOf(l, Len(f) + 1)
         /\ LeftAsleep(l, Append(f, z[k]), z, k)
         /\ \A m : Removed(l, Len(f) + 1, m) => LeftAsleep(m, f, z, k)
<1>1. PICK n \in Nat : n = Len(z) /\ k \in 1 .. n
  OBVIOUS
<1>2. PICK x \in Nat : x = Len(f)
  OBVIOUS
<1>3. /\ Len(l) = x + (n - (k - 1)) /\ \A i \in 1 .. x : l[i] = f[i]
      /\ \A i \in 1 .. n - (k - 1) : l[x + i] = z[(k - 1) + i]
  BY <1>1, <1>2 DEF LeftAsleep
<1>4. x + 1 \in 1 .. Len(l) /\ l[x + 1] = z[k]
  <2>1. x + 1 \in 1 .. x + (n - (k - 1)) /\ 1 \in 1 .. n - (k - 1) /\ (k - 1) + 1 = k
    BY <1>1, <1>2
  <2> QED BY <1>3, <2>1
<1>5. TailOf(f) = PrevOf(l, x + 1)
  <2>1. CASE x = 0
    BY <1>2, <2>1 DEF TailOf, PrevOf
  <2>2. CASE x # 0
    <3>1. x \in 1 .. x /\ (x + 1) - 1 = x /\ x + 1 # 1
      BY <1>2, <2>2
    <3> QED BY <1>2, <1>3, <2>2, <3>1 DEF TailOf, PrevOf
  <2> QED BY <2>1, <2>2
<1>6. LeftAsleep(l, Append(f, z[k]), z, k)
  <2>1. z[k] \in Task
    BY <1>1
  <2>2. PICK g : g = Append(f, z[k])
    OBVIOUS
  <2>3. Len(g) = x + 1 /\ g[x + 1] = z[k] /\ \A i \in 1 .. x : g[i] = f[i]
    BY <1>2, <2>1, <2>2
  <2>4. x + (n - (k - 1)) = (x + 1) + (n - k)
    BY <1>1, <1>2
  <2>5. ASSUME NEW i \in 1 .. x + 1 PROVE l[i] = g[i]
    <3>1. i \in 1 .. x \/ i = x + 1
      BY <1>2
    <3> QED BY <1>3, <1>4, <2>3, <3>1
  <2>6. ASSUME NEW i \in 1 .. n - k PROVE l[(x + 1) + i] = z[k + i]
    <3>1. 1 + i \in 1 .. n - (k - 1) /\ x + (1 + i) = (x + 1) + i /\ (k - 1) + (1 + i) = k + i
      BY <1>1, <1>2
    <3> QED BY <1>3, <3>1
  <2> QED BY <1>1, <1>3, <2>2, <2>3, <2>4, <2>5, <2>6 DEF LeftAsleep
<1>7. ASSUME NEW m, Removed(l, x + 1, m) PROVE LeftAsleep(m, f, z, k)
  <2>1. /\ Len(m) = Len(l) - 1
        /\ \A i \in 1 .. Len(m) : m[i] = l[IF i < x + 1 THEN i ELSE i + 1]
    BY <1>7 DEF Removed
  <2>2. (x + (n - (k - 1))) - 1 = x + (n - k)
    BY <1>1, <1>2
  <2>3. Len(m) = x + (n - k)
    BY <1>3, <2>1, <2>2
  <2>4. ASSUME NEW i \in 1 .. x PROVE m[i] = f[i]
    <3>1. i \in 1 .. x + (n - k) /\ i < x + 1
      BY <1>1, <1>2
    <3> QED BY <1>3, <2>1, <2>3, <3>1
  <2>5. ASSUME NEW i \in 1 .. n - k PROVE m[x + i] = z[k + i]
    <3>1. /\ x + i \in 1 .. x + (n - k) /\ ~(x + i < x + 1) /\ 1 + i \in 1 .. n - (k - 1)
          /\ x + (1 + i) = (x + i) + 1 /\ (k - 1) + (1 + i) = k + i
      BY <1>1, <1>2
    <3> QED BY <1>3, <2>1, <2>3, <3>1
  <2> QED BY <1>1, <1>2, <2>3, <2>4, <2>5 DEF LeftAsleep
<1> QED BY <1>2, <1>4, <1>5, <1>6, <1>7

(***************************************************************************)
(* A turn that wakes the task it looks at (scheduler.cpp:122-127).         *)
(***************************************************************************)
LEMMA TurnWakes ==
  ASSUME NEW q, NEW L, Rep(q, L), NEW tick, NEW k \in 1 .. Len(L[Sleepers]),
         NEW r, NEW prev, NEW K, Turned(q, L, tick, k - 1, r, prev, K),
         NEW t, t = L[Sleepers][k], tick >= q.sleep_until[t],
         NEW c, c = AddToReadyQueue(CutOut(r, prev, t), t)
  PROVE  \E N : Turned(q, L, tick, k, c, prev, N)
<1>1. q \in State /\ L \in [Lane -> Seq(Task)] /\ Apart(L)
  BY DEF Rep
<1>2. PICK z \in Seq(Task) : z = L[Sleepers]
  BY <1>1, Lanes
<1>3. PICK n \in Nat : n = Len(z) /\ k \in 1 .. n
  BY <1>2
<1>4. t \in Task /\ t \in ToSet(z) /\ t = z[k] /\ In(L, t)
  <2>1. t = z[k] /\ t \in Task
    BY <1>2, <1>3
  <2> QED BY <1>2, <1>3, <2>1, Lanes DEF ToSet, In
<1>5. t \in Due(q, tick, z) /\ t \notin Stays(q, tick, z)
  BY <1>4 DEF Due, Stays
<1>6. PICK f \in Seq(Task) : f = Chosen(z, Stays(q, tick, z))[k - 1]
  BY <1>2, <1>3, ChosenStep
<1>7. /\ Rep(r, K) /\ SameMembers(L, K) /\ WokenTasks(q, r, L)
      /\ \A p \in Level : K[p] = L[p] \o Chosen(z, Joins(q, tick, z, p))[k - 1]
      /\ LeftAsleep(K[Sleepers], f, z, k - 1) /\ prev = TailOf(f)
  BY <1>2, <1>6 DEF Turned
<1>8. \A i \in (k - 1) + 1 .. Len(z) : r.sleep_until[z[i]] = q.sleep_until[z[i]]
  BY <1>2 DEF Turned
<1>9. r \in State /\ K \in [Lane -> Seq(Task)] /\ Apart(K)
  BY <1>7 DEF Rep
<1>10. PICK l \in Seq(Task) : l = K[Sleepers]
  BY <1>9, Lanes
<1>11. PICK x \in Nat : x = Len(f)
  BY ListTyped
<1>12. /\ x + 1 \in 1 .. Len(l) /\ l[x + 1] = t /\ prev = PrevOf(l, x + 1)
       /\ \A m : Removed(l, x + 1, m) => LeftAsleep(m, f, z, k)
  BY <1>2, <1>3, <1>4, <1>6, <1>7, <1>10, <1>11, TurnPlace
<1>13. PICK m : Removed(l, x + 1, m)
  BY <1>10, <1>12, RemovedExists
<1>14. PICK cut : cut = CutOut(r, prev, t)
  OBVIOUS
<1>15. PICK A : A = With(K, Sleepers, m)
  OBVIOUS
<1>16. Rep(cut, A) /\ CutTasks(r, cut, t) /\ Loses(K, t, A)
  BY <1>7, <1>10, <1>12, <1>13, <1>14, <1>15, CutRep
<1>17. A[Sleepers] = m /\ \A a \in Level : A[a] = K[a]
  BY <1>9, <1>13, <1>15, Lanes DEF With, Removed
<1>18. ~In(A, t)
  BY <1>16 DEF Loses
<1>19. PICK p \in Level : p = q.priority[t] /\ p = cut.priority[t]
  <2>1. q.priority[t] \in Level
    BY <1>1, <1>4, StateFields
  <2>2. cut.priority = r.priority /\ r.priority = q.priority
    BY <1>7, <1>16 DEF CutTasks, WokenTasks
  <2> QED BY <2>1, <2>2
<1>20. PICK N : N = With(A, p, Append(A[p], t))
  OBVIOUS
<1>21. Rep(c, N) /\ Readied(cut, c, t) /\ Gains(A, t, N)
  BY <1>4, <1>14, <1>16, <1>18, <1>19, <1>20, AddRep
<1>22. /\ N[p] = Append(K[p], t) /\ N[Sleepers] = m
       /\ \A a \in Level : a # p => N[a] = K[a]
  <2>1. A \in [Lane -> Seq(Task)] /\ p \in Lane /\ p # Sleepers
    BY <1>16, Lanes DEF Loses
  <2>2. N[p] = Append(A[p], t) /\ \A a \in Lane : a # p => N[a] = A[a]
    BY <1>20, <2>1 DEF With
  <2> QED BY <1>17, <2>1, <2>2, Lanes
<1>23. SameMembers(L, N)
  <2>1. ASSUME NEW u PROVE In(N, u) <=> In(L, u)
    <3>1. In(N, u) <=> (In(A, u) \/ u = t)
      BY <1>21 DEF Gains
    <3>2. In(A, u) <=> (In(K, u) /\ u # t)
      BY <1>16 DEF Loses
    <3>3. In(K, u) <=> In(L, u)
      BY <1>7 DEF SameMembers
    <3> QED BY <1>4, <3>1, <3>2, <3>3
  <2> QED BY <2>1 DEF SameMembers
<1>24. WokenTasks(q, c, L)
  <2>1. /\ c.current_task = q.current_task /\ c.time_slice = q.time_slice
        /\ c.priority = q.priority /\ c.stack_base = q.stack_base
        /\ c.state = [r.state EXCEPT ![t] = "READY"]
    BY <1>7, <1>16, <1>21 DEF WokenTasks, CutTasks, Readied
  <2>2. r.state \in [Task -> TaskState]
    BY <1>9, StateFields
  <2>3. ASSUME NEW u \in Task
        PROVE  c.state[u] = q.state[u] \/ (c.state[u] = "READY" /\ In(L, u))
    <3>1. CASE u = t
      BY <1>4, <2>1, <2>2, <3>1
    <3>2. CASE u # t
      <4>1. c.state[u] = r.state[u]
        BY <2>1, <2>2, <3>2
      <4> QED BY <1>7, <4>1 DEF WokenTasks
    <3> QED BY <3>1, <3>2
  <2> QED BY <2>1, <2>3 DEF WokenTasks
<1>25. ASSUME NEW a \in Level PROVE N[a] = L[a] \o Chosen(z, Joins(q, tick, z, a))[k]
  <2>1. PICK X : X = Joins(q, tick, z, a)
    OBVIOUS
  <2>2. PICK g \in Seq(Task) : g = Chosen(z, X)[k - 1]
    BY <1>2, <1>3, ChosenStep
  <2>3. K[a] = L[a] \o g
    BY <1>7, <2>1, <2>2
  <2>4. CASE a = p
    <3>1. t \in X
      BY <1>5, <1>19, <2>1, <2>4 DEF Joins
    <3>2. Chosen(z, X)[k] = Append(g, t)
      <4>1. z[k] \in X /\ k \in 1 .. Len(z)
        BY <1>3, <1>4, <3>1
      <4>2. Chosen(z, X)[k] = Append(Chosen(z, X)[k - 1], z[k])
        BY <4>1, ChosenStep
      <4> QED BY <1>4, <2>2, <4>2
    <3>3. PICK h \in Seq(Task) : h = L[a]
      BY <1>1, Lanes
    <3>4. Append(h \o g, t) = h \o Append(g, t)
      BY <1>4, <2>2, <3>3, AppendBehind
    <3> QED BY <1>22, <2>1, <2>3, <2>4, <3>2, <3>3, <3>4
  <2>5. CASE a # p
    <3>1. t \notin X
      BY <1>19, <2>1, <2>5 DEF Joins
    <3>2. Chosen(z, X)[k] = g
      BY <1>2, <1>3, <1>4, <2>2, <3>1, ChosenStep
    <3> QED BY <1>22, <2>1, <2>3, <2>5, <3>2
  <2> QED BY <2>4, <2>5
<1>26. Chosen(z, Stays(q, tick, z))[k] = f
  BY <1>2, <1>3, <1>4, <1>5, <1>6, ChosenStep
<1>27. LeftAsleep(N[Sleepers], f, z, k)
  BY <1>12, <1>13, <1>22
<1>28. ASSUME NEW i \in k + 1 .. Len(z) PROVE c.sleep_until[z[i]] = q.sleep_until[z[i]]
  <2>1. i \in (k - 1) + 1 .. Len(z) /\ i \in 1 .. n /\ i # k
    BY <1>3
  <2>2. z[i] # t /\ z[i] \in Task
    <3>1. z[i] \in Task
      BY <1>2, <1>3, <2>1
    <3>2. z[i] # z[k]
      BY <1>1, <1>2, <1>3, <2>1, Lanes DEF Apart
    <3> QED BY <1>4, <3>1, <3>2
  <2>3. c.sleep_until = [r.sleep_until EXCEPT ![t] = 0]
    BY <1>16, <1>21 DEF CutTasks, Readied
  <2>4. r.sleep_until \in [Task -> 0 .. TickModulus - 1]
    BY <1>9, StateFields
  <2>5. c.sleep_until[z[i]] = r.sleep_until[z[i]]
    BY <2>2, <2>3, <2>4
  <2> QED BY <1>8, <2>1, <2>5
<1>29. Turned(q, L, tick, k, c, prev, N)
  BY <1>2, <1>7, <1>21, <1>23, <1>24, <1>25, <1>26, <1>27, <1>28 DEF Turned
<1> QED BY <1>29

(***************************************************************************)
(* A turn that leaves the task it looks at (scheduler.cpp:128-130).        *)
(***************************************************************************)
LEMMA TurnPasses ==
  ASSUME NEW q, NEW L, Rep(q, L), NEW tick, NEW k \in 1 .. Len(L[Sleepers]),
         NEW r, NEW prev, NEW K, Turned(q, L, tick, k - 1, r, prev, K),
         NEW t, t = L[Sleepers][k], ~(tick >= q.sleep_until[t])
  PROVE  Turned(q, L, tick, k, r, t, K)
<1>1. q \in State /\ L \in [Lane -> Seq(Task)] /\ Apart(L)
  BY DEF Rep
<1>2. PICK z \in Seq(Task) : z = L[Sleepers]
  BY <1>1, Lanes
<1>3. PICK n \in Nat : n = Len(z) /\ k \in 1 .. n
  BY <1>2
<1>4. t \in Task /\ t \in ToSet(z) /\ t = z[k]
  <2>1. t = z[k] /\ t \in Task
    BY <1>2, <1>3
  <2> QED BY <1>2, <1>3, <2>1 DEF ToSet
<1>5. t \notin Due(q, tick, z) /\ t \in Stays(q, tick, z)
  BY <1>4 DEF Due, Stays
<1>6. PICK f \in Seq(Task) : f = Chosen(z, Stays(q, tick, z))[k - 1]
  BY <1>2, <1>3, ChosenStep
<1>7. /\ Rep(r, K) /\ SameMembers(L, K) /\ WokenTasks(q, r, L)
      /\ \A p \in Level : K[p] = L[p] \o Chosen(z, Joins(q, tick, z, p))[k - 1]
      /\ LeftAsleep(K[Sleepers], f, z, k - 1) /\ prev = TailOf(f)
  BY <1>2, <1>6 DEF Turned
<1>8. \A i \in (k - 1) + 1 .. Len(z) : r.sleep_until[z[i]] = q.sleep_until[z[i]]
  BY <1>2 DEF Turned
<1>9. K \in [Lane -> Seq(Task)]
  BY <1>7 DEF Rep
<1>10. PICK l \in Seq(Task) : l = K[Sleepers]
  BY <1>9, Lanes
<1>11. LeftAsleep(l, Append(f, t), z, k)
  BY <1>2, <1>3, <1>4, <1>6, <1>7, <1>10, TurnPlace
<1>12. Chosen(z, Stays(q, tick, z))[k] = Append(f, t)
  BY <1>2, <1>3, <1>4, <1>5, <1>6, ChosenStep, SMTT(30)
<1>13. TailOf(Append(f, t)) = t
  <2>1. Len(Append(f, t)) # 0 /\ Append(f, t)[Len(Append(f, t))] = t
    BY <1>4, <1>6
  <2> QED BY <2>1 DEF TailOf
<1>14. ASSUME NEW a \in Level PROVE K[a] = L[a] \o Chosen(z, Joins(q, tick, z, a))[k]
  <2>1. PICK X : X = Joins(q, tick, z, a)
    OBVIOUS
  <2>2. t \notin X
    BY <1>5, <2>1 DEF Joins
  <2>3. Chosen(z, X)[k] = Chosen(z, X)[k - 1]
    BY <1>2, <1>3, <1>4, <2>2, ChosenStep
  <2> QED BY <1>7, <2>1, <2>3
<1>15. ASSUME NEW i \in k + 1 .. Len(z) PROVE r.sleep_until[z[i]] = q.sleep_until[z[i]]
  <2>1. i \in (k - 1) + 1 .. Len(z)
    BY <1>3
  <2> QED BY <1>8, <2>1
<1> QED BY <1>2, <1>7, <1>10, <1>11, <1>12, <1>13, <1>14, <1>15 DEF Turned

(***************************************************************************)
(* The lists are what a walk reads, they end, and the tails are right.     *)
(***************************************************************************)
LEMMA RepLists ==
  ASSUME NEW q, NEW L, Rep(q, L)
  PROVE  /\ SleepList(q) = L[Sleepers] /\ \A p \in Level : ReadyList(q, p) = L[p]
         /\ \A a \in Lane : L[a] \in Seq(Task) /\ IsInjective(L[a])
         /\ Linked(q) = {t \in Task : In(L, t)}
         /\ ListsEnd(q) /\ TailsCorrect(q)
         /\ q.current_task \notin Linked(q) => OnePlace(q)
<1>1. L \in [Lane -> Seq(Task)] /\ Apart(L)
  BY DEF Rep
<1>2. ASSUME NEW a \in Lane PROVE L[a] \in Seq(Task) /\ IsInjective(L[a])
  <2>1. PICK l \in Seq(Task) : l = L[a]
    BY <1>1
  <2>2. DOMAIN l = 1 .. Len(l)
    BY <2>1
  <2>3. \A i, j \in 1 .. Len(l) : l[i] = l[j] => i = j
    BY <1>1, <2>1 DEF Apart
  <2> QED BY <2>1, <2>2, <2>3 DEF IsInjective
<1>3. ASSUME NEW a \in Lane PROVE ListOf(q.next, HeadOf(q, a)) = L[a]
  <2>1. Chain(q.next, HeadOf(q, a), L[a])
    BY DEF Rep
  <2> QED BY <1>2, <2>1, ChainRead
<1>4. SleepList(q) = L[Sleepers]
  BY <1>3, Lanes DEF SleepList, HeadOf
<1>5. ASSUME NEW p \in Level PROVE ReadyList(q, p) = L[p]
  <2>1. HeadOf(q, p) = q.ready_queues[p] /\ p \in Lane
    BY Lanes DEF HeadOf
  <2> QED BY <1>3, <2>1 DEF ReadyList
<1>6. ASSUME NEW a \in Lane
      PROVE  ToSet(L[a]) = {t \in Task : \E i \in 1 .. Len(L[a]) : L[a][i] = t}
  <2>1. PICK l \in Seq(Task) : l = L[a]
    BY <1>1
  <2>2. DOMAIN l = 1 .. Len(l) /\ \A i \in 1 .. Len(l) : l[i] \in Task
    BY <2>1
  <2>3. ToSet(l) = {t \in Task : \E i \in 1 .. Len(l) : l[i] = t}
    BY <2>2 DEF ToSet
  <2> QED BY <2>1, <2>3
<1>7. \A t : t \in Linked(q) <=> t \in Task /\ In(L, t)
  <2>1. \A t : t \in Linked(q) <=> (\E p \in Level : t \in ToSet(L[p])) \/ t \in ToSet(L[Sleepers])
    <3>1. PICK U : U = UNION {ToSet(ReadyList(q, p)) : p \in Level}
      OBVIOUS
    <3>2. \A t : t \in U <=> \E p \in Level : t \in ToSet(ReadyList(q, p))
      BY <3>1, Zenon
    <3>3. \A t : t \in U <=> \E p \in Level : t \in ToSet(L[p])
      BY <1>5, <3>2
    <3>4. Linked(q) = U \cup ToSet(L[Sleepers])
      BY <1>4, <3>1, Zenon DEF Linked
    <3> QED BY <3>3, <3>4
  <2>2. \A t : t \in Linked(q) <=> \E a \in Lane : t \in ToSet(L[a])
    BY <2>1, Lanes
  <2> QED BY <1>6, <2>2 DEF In
<1>8. Linked(q) = {t \in Task : In(L, t)}
  BY <1>7
<1>9. ASSUME NEW a \in Lane PROVE Ends(q.next, HeadOf(q, a))
  BY <1>2, <1>3, ListFits DEF Ends
<1>10. ListsEnd(q)
  <2>1. Ends(q.next, q.sleeping_tasks)
    BY <1>9, Lanes DEF HeadOf
  <2>2. ASSUME NEW p \in Level PROVE Ends(q.next, q.ready_queues[p])
    <3>1. HeadOf(q, p) = q.ready_queues[p] /\ p \in Lane
      BY Lanes DEF HeadOf
    <3> QED BY <1>9, <3>1
  <2> QED BY <2>1, <2>2 DEF ListsEnd
<1>11. TailsCorrect(q)
  <2>1. ASSUME NEW p \in Level
        PROVE  q.ready_queue_tails[p] = IF L[p] = <<>> THEN Null ELSE Last(L[p])
    <3>1. PICK l \in Seq(Task) : l = L[p]
      BY <1>1, Lanes
    <3>2. l = <<>> <=> Len(l) = 0
      BY <3>1
    <3>3. q.ready_queue_tails[p] = TailOf(l)
      BY <3>1 DEF Rep
    <3> QED BY <3>1, <3>2, <3>3 DEF TailOf, Last
  <2> QED BY <1>5, <2>1 DEF TailsCorrect
<1>12. ASSUME NEW a \in Lane, NEW b \in Lane, a # b PROVE ToSet(L[a]) \cap ToSet(L[b]) = {}
  <2>1. ASSUME NEW t, t \in ToSet(L[a]), t \in ToSet(L[b]) PROVE FALSE
    <3>1. PICK i \in 1 .. Len(L[a]) : L[a][i] = t
      BY <1>6, <2>1
    <3>2. PICK j \in 1 .. Len(L[b]) : L[b][j] = t
      BY <1>6, <2>1
    <3> QED BY <1>1, <1>12, <3>1, <3>2 DEF Apart
  <2> QED BY <2>1
<1>13. q.current_task \notin Linked(q) => OnePlace(q)
  <2>1. IsInjective(SleepList(q)) /\ \A p \in Level : IsInjective(ReadyList(q, p))
    BY <1>2, <1>4, <1>5, Lanes
  <2>2. \A p \in Level : ToSet(ReadyList(q, p)) \cap ToSet(SleepList(q)) = {}
    BY <1>4, <1>5, <1>12, Lanes
  <2>3. \A p, r \in Level : p # r => ToSet(ReadyList(q, p)) \cap ToSet(ReadyList(q, r)) = {}
    BY <1>5, <1>12, Lanes
  <2> QED BY <2>1, <2>2, <2>3 DEF OnePlace
<1> QED BY <1>2, <1>4, <1>5, <1>8, <1>10, <1>11, <1>13

(***************************************************************************)
(* What ProcessSleepingTasks makes of the lists: the sleepers that are due *)
(* join the queues of their levels, in the order of the sleeping list.     *)
(***************************************************************************)
Woken(q, L, tick, r, K) ==
  /\ Rep(r, K) /\ SameMembers(L, K) /\ WokenTasks(q, r, L)
  /\ \A p \in Level : K[p] = L[p] \o Picked(L[Sleepers], Joins(q, tick, L[Sleepers], p))
  /\ K[Sleepers] = Picked(L[Sleepers], Stays(q, tick, L[Sleepers]))

(***************************************************************************)
(* ProcessSleepingTasks (scheduler.cpp:119-131), by induction over its     *)
(* turns.                                                                  *)
(***************************************************************************)
LEMMA WakeRep ==
  ASSUME NEW q, NEW L, Rep(q, L), NEW tick, NEW r, r = ProcessSleepingTasks(q, tick)
  PROVE  \E K : Woken(q, L, tick, r, K)
<1>1. PICK z \in Seq(Task) : z = L[Sleepers] /\ z = SleepList(q)
  BY RepLists, Lanes
<1>2. PICK n \in Nat : n = Len(z)
  BY <1>1
<1>3. PICK g : TurnsTo(g, q, tick, z, n) /\ r = g[n].q
  BY <1>1, <1>2, TurnsDefined
<1> DEFINE Good(k) == \E K : Turned(q, L, tick, k, g[k].q, g[k].prev, K)
           T == {k \in 0 .. n : ~Good(k)}
<1>4. /\ g[0] = [q |-> q, prev |-> Null]
      /\ \A k \in 1 .. n : g[k] = WakeIfDue(tick, g[k - 1], z[k])
  <2>1. \A k \in 0 .. n : g[k] = IF k = 0 THEN [q |-> q, prev |-> Null]
                                 ELSE WakeIfDue(tick, g[k - 1], z[k])
    BY <1>3 DEF TurnsTo
  <2>2. 0 \in 0 .. n /\ \A k \in 1 .. n : k # 0 /\ k \in 0 .. n
    BY <1>2
  <2> QED BY <2>1, <2>2
<1>5. Good(0)
  <2>1. g[0].q = q /\ g[0].prev = Null
    BY <1>4
  <2>2. Turned(q, L, tick, 0, q, Null, L)
    BY TurnStart
  <2> QED BY <2>1, <2>2
<1>6. ASSUME NEW k \in 1 .. n, Good(k - 1) PROVE Good(k)
  <2>1. PICK c, prev : c = g[k - 1].q /\ prev = g[k - 1].prev
    OBVIOUS
  <2>2. PICK K : Turned(q, L, tick, k - 1, c, prev, K)
    BY <1>6, <2>1
  <2>3. PICK t : t = z[k]
    OBVIOUS
  <2>4. g[k] = WakeIfDue(tick, g[k - 1], t) /\ k \in 1 .. Len(L[Sleepers]) /\ t = L[Sleepers][k]
    BY <1>1, <1>2, <1>4, <2>3
  <2>5. c.sleep_until[t] = q.sleep_until[t]
    <3>1. k \in (k - 1) + 1 .. Len(z)
      BY <1>2
    <3> QED BY <1>1, <2>2, <2>3, <3>1 DEF Turned
  <2>6. CASE tick >= q.sleep_until[t]
    <3>1. g[k] = [q |-> AddToReadyQueue(CutOut(c, prev, t), t), prev |-> prev]
      BY <2>1, <2>4, <2>5, <2>6 DEF WakeIfDue, CutOut
    <3>2. PICK d : d = AddToReadyQueue(CutOut(c, prev, t), t)
      OBVIOUS
    <3>3. \E N : Turned(q, L, tick, k, d, prev, N)
      BY <2>2, <2>4, <2>6, <3>2, TurnWakes
    <3>4. g[k].q = d /\ g[k].prev = prev
      BY <3>1, <3>2
    <3> QED BY <3>3, <3>4
  <2>7. CASE ~(tick >= q.sleep_until[t])
    <3>1. g[k] = [q |-> c, prev |-> t]
      BY <2>1, <2>4, <2>5, <2>7 DEF WakeIfDue
    <3>2. Turned(q, L, tick, k, c, t, K)
      BY <2>2, <2>4, <2>7, TurnPasses
    <3>3. g[k].q = c /\ g[k].prev = t
      BY <3>1
    <3> QED BY <3>2, <3>3
  <2> QED BY <2>6, <2>7
<1> HIDE DEF Good
<1>7. T = {}
  <2> SUFFICES ASSUME T # {} PROVE FALSE
    OBVIOUS
  <2>1. T \subseteq Nat
    OBVIOUS
  <2>2. PICK m \in T : \A i \in T : m <= i
    BY <2>1, MinimumExists, Zenon
  <2>3. m # 0
    BY <1>5
  <2>4. m \in 1 .. n /\ m - 1 \in 0 .. n /\ m - 1 \notin T
    BY <1>2, <2>2, <2>3
  <2>5. Good(m - 1)
    BY <2>4
  <2>6. Good(m)
    BY <1>6, <2>4, <2>5
  <2> QED BY <2>6
<1>8. PICK K : Turned(q, L, tick, n, r, g[n].prev, K)
  <2>1. n \in 0 .. n
    BY <1>2
  <2>2. Good(n)
    BY <1>7, <2>1
  <2> QED BY <1>3, <2>2 DEF Good
<1>9. /\ Rep(r, K) /\ SameMembers(L, K) /\ WokenTasks(q, r, L)
      /\ \A p \in Level : K[p] = L[p] \o Chosen(z, Joins(q, tick, z, p))[n]
      /\ LeftAsleep(K[Sleepers], Chosen(z, Stays(q, tick, z))[n], z, n)
  BY <1>1, <1>8 DEF Turned
<1>10. PICK f \in Seq(Task) : f = Picked(z, Stays(q, tick, z)) /\ f = Chosen(z, Stays(q, tick, z))[n]
  <2>1. n \in 0 .. Len(z)
    BY <1>2
  <2> QED BY <1>1, <1>2, <2>1, ChosenFrom DEF Picked
<1>11. K[Sleepers] = f
  <2>1. PICK m \in Seq(Task) : m = K[Sleepers]
    BY <1>9, Lanes DEF Rep
  <2>2. PICK x \in Nat : x = Len(f)
    BY ListTyped
  <2>3. Len(m) = Len(f) + (Len(z) - n) /\ \A i \in 1 .. Len(f) : m[i] = f[i]
    BY <1>9, <1>10, <2>1 DEF LeftAsleep
  <2>4. Len(m) = x
    BY <1>2, <2>2, <2>3
  <2>5. m = f
    BY <2>1, <2>2, <2>3, <2>4
  <2> QED BY <2>1, <2>5
<1>12. Woken(q, L, tick, r, K)
  BY <1>1, <1>2, <1>9, <1>10, <1>11 DEF Woken, Picked
<1> QED BY <1>12

------------------------------------------------------------------------------
\* K and t are what taking the head of the highest non-empty queue leaves of N.
Taken(N, K, t) ==
  \/ (\A p \in Level : Len(N[p]) = 0) /\ K = N /\ t = Null
  \/ \E p \in Level : IsTop(N, p) /\ K = With(N, p, Tail(N[p])) /\ t = N[p][1] /\ t \in Task

Dispatched(q, r, t) ==
  /\ r.current_task = t /\ r.priority = q.priority
  /\ r.state = [q.state EXCEPT ![t] = "RUNNING"]

(***************************************************************************)
(* Making a task current (scheduler.cpp:146-161) moves no list.            *)
(***************************************************************************)
LEMMA DispatchRep ==
  ASSUME NEW q, NEW L, Rep(q, L), NEW t \in Task, NEW r, r = Dispatch(q, t)
  PROVE  Rep(r, L) /\ Dispatched(q, r, t)
<1>1. q \in State
  BY DEF Rep
<1>2. q.state \in [Task -> TaskState] /\ q.priority[t] \in Level
  BY <1>1, StateFields
<1>3. PICK states \in [Task -> TaskState] : states = [q.state EXCEPT ![t] = "RUNNING"]
  BY <1>2 DEF TaskState
<1>4. PICK p \in 0 .. 4 : p = q.priority[t]
  BY <1>2 DEF Level
<1>5. PICK slice \in 0 .. 20 : slice = CalculateTimeSlice(p)
  <2>1. p = 0 \/ p = 1 \/ p = 2 \/ p = 3 \/ p = 4
    BY <1>4
  <2>2. CalculateTimeSlice(p) \in {20, 15, 10, 5, 3}
    BY <2>1 DEF CalculateTimeSlice
  <2>3. {20, 15, 10, 5, 3} \subseteq 0 .. 20
    OBVIOUS
  <2> QED BY <2>2, <2>3
<1>6. r = [q EXCEPT !.current_task = t, !.state = states, !.time_slice = slice]
  BY <1>3, <1>4, <1>5 DEF Dispatch
<1>7. /\ r \in State /\ r.next = q.next /\ r.ready_queues = q.ready_queues
      /\ r.ready_queue_tails = q.ready_queue_tails /\ r.sleeping_tasks = q.sleeping_tasks
      /\ r.current_task = t /\ r.state = states /\ r.priority = q.priority
  BY <1>1, <1>6 DEF State, Pointer
<1> QED BY <1>3, <1>7, RepSame DEF Dispatched

(***************************************************************************)
(* No current task (scheduler.cpp:163-166, 194-196).                       *)
(***************************************************************************)
LEMMA IdleRep ==
  ASSUME NEW q, NEW L, Rep(q, L), NEW r, r = Idle(q)
  PROVE  Rep(r, L) /\ r.current_task = Null /\ r.state = q.state /\ r.priority = q.priority
<1>1. q \in State
  BY DEF Rep
<1>2. 0 \in 0 .. 20
  OBVIOUS
<1>3. /\ r \in State /\ r.next = q.next /\ r.ready_queues = q.ready_queues
      /\ r.ready_queue_tails = q.ready_queue_tails /\ r.sleeping_tasks = q.sleeping_tasks
      /\ r.current_task = Null /\ r.state = q.state /\ r.priority = q.priority
  BY <1>1, <1>2 DEF State, Pointer, Idle
<1> QED BY <1>3, RepSame

\* What PickNext leaves of the record q with the lists L.
PickedNext(q, L, r, K) ==
  /\ Rep(r, K) /\ Taken(L, K, r.current_task) /\ r.priority = q.priority
  /\ r.current_task = Null => r.state = q.state
  /\ r.current_task # Null =>
       /\ r.state = [q.state EXCEPT ![r.current_task] = "RUNNING"]
       /\ In(L, r.current_task) /\ Loses(L, r.current_task, K)

(***************************************************************************)
(* The choice of the next task (scheduler.cpp:146-166): the head of the    *)
(* highest queue, or nobody.                                               *)
(***************************************************************************)
LEMMA PickRep ==
  ASSUME NEW q, NEW L, Rep(q, L), NEW r, r = PickNext(q),
         NonEmpty(q) = {} => ~(q.current_task # Null /\ q.state[q.current_task] = "READY")
  PROVE  \E K : PickedNext(q, L, r, K)
<1>1. L \in [Lane -> Seq(Task)]
  BY DEF Rep
<1>2. CASE NonEmpty(q) = {}
  <2>1. HighestPriorityTask(q) = Null
    BY <1>2 DEF HighestPriorityTask
  <2>2. r = Idle(q)
    BY <1>2, <2>1 DEF PickNext
  <2>3. Rep(r, L) /\ r.current_task = Null /\ r.state = q.state /\ r.priority = q.priority
    BY <2>2, IdleRep
  <2>4. NonEmpty(q) = {p \in Level : Len(L[p]) # 0}
    BY TopFound
  <2>5. \A p \in Level : Len(L[p]) = 0
    BY <1>2, <2>4
  <2>6. PickedNext(q, L, r, L)
    BY <2>3, <2>5 DEF PickedNext, Taken
  <2> QED BY <2>6
<1>3. CASE NonEmpty(q) # {}
  <2>1. PICK p, t, c, K : /\ p = TopLevel(q) /\ t = HighestPriorityTask(q)
                          /\ c = GetHighestPriorityTask(q) /\ K = With(L, p, Tail(L[p]))
    OBVIOUS
  <2>2. /\ IsTop(L, p) /\ t = L[p][1] /\ t \in Task
        /\ Rep(c, K) /\ SameTasks(q, c) /\ Loses(L, t, K)
    BY <1>3, <2>1, PopRep
  <2>3. t # Null
    BY <2>2, TaskNotNull
  <2>4. r = Dispatch(c, t)
    BY <2>1, <2>3 DEF PickNext
  <2>5. Rep(r, K) /\ Dispatched(c, r, t)
    BY <2>2, <2>4, DispatchRep
  <2>6. /\ r.current_task = t /\ r.priority = q.priority
        /\ r.state = [q.state EXCEPT ![t] = "RUNNING"]
    BY <2>2, <2>5 DEF Dispatched, SameTasks
  <2>7. p \in Level /\ p \in Lane
    BY <2>2, Lanes DEF IsTop
  <2>8. Taken(L, K, t)
    BY <2>1, <2>2, <2>7 DEF Taken
  <2>9. In(L, t)
    <3>1. L[p] \in Seq(Task) /\ Len(L[p]) # 0
      BY <1>1, <2>2, <2>7 DEF IsTop
    <3>2. 1 \in 1 .. Len(L[p])
      BY <3>1, ListTyped
    <3> QED BY <2>2, <2>7, <3>2 DEF In
  <2>10. PickedNext(q, L, r, K)
    BY <2>2, <2>3, <2>5, <2>6, <2>8, <2>9 DEF PickedNext
  <2> QED BY <2>10
<1> QED BY <1>2, <1>3

\* The states a current task can be in: it may have been blocked or suspended
\* while scheduling was disabled.
Standing == {"RUNNING", "BLOCKED", "SUSPENDED"}

\* The current task is in no list, and only it, and x, can be in state RUNNING.
Fit(q, L, x) ==
  /\ q.current_task # Null =>
       ~In(L, q.current_task) /\ q.state[q.current_task] \in Standing
  /\ \A u \in Task : q.state[u] = "RUNNING" => u = q.current_task \/ u = x

\* The lists once a running current task went to the back of its queue.
GivesUp(q) == q.current_task # Null /\ q.state[q.current_task] = "RUNNING"

Requeued(q, M) ==
  IF GivesUp(q)
  THEN With(M, q.priority[q.current_task], Append(M[q.priority[q.current_task]], q.current_task))
  ELSE M

\* The CPU changes hands from the record q with the lists L: the sleepers join
\* the queues (M), then the current task (N), then the next task t is taken (K).
Hand(q, L, tick, M, N, K, t) ==
  /\ \A p \in Level : M[p] = L[p] \o Picked(L[Sleepers], Joins(q, tick, L[Sleepers], p))
  /\ M[Sleepers] = Picked(L[Sleepers], Stays(q, tick, L[Sleepers]))
  /\ M \in [Lane -> Seq(Task)] /\ Apart(M) /\ SameMembers(L, M)
  /\ N = Requeued(q, M) /\ N \in [Lane -> Seq(Task)] /\ Apart(N)
  /\ \A u : In(N, u) <=> In(L, u) \/ (u = q.current_task /\ GivesUp(q))
  /\ Taken(N, K, t)
  /\ t = Null => K = N
  /\ t # Null => In(N, t) /\ Loses(N, t, K)

Switched(q, L, tick, x, r, M, N, K) ==
  /\ Hand(q, L, tick, M, N, K, r.current_task)
  /\ Rep(r, K) /\ Fit(r, K, x) /\ r.priority = q.priority

(***************************************************************************)
(* Schedule (scheduler.cpp:133-170).                                       *)
(***************************************************************************)
LEMMA SwitchRep ==
  ASSUME NEW q, NEW L, Rep(q, L), NEW x, Fit(q, L, x), NEW tick,
         NEW r, r = PickNext(RequeueCurrent(ProcessSleepingTasks(q, tick)))
  PROVE  \E M, N, K : Switched(q, L, tick, x, r, M, N, K)
<1>1. PICK w : w = ProcessSleepingTasks(q, tick)
  OBVIOUS
<1>2. PICK M : Woken(q, L, tick, w, M)
  BY <1>1, WakeRep
<1>3. /\ Rep(w, M) /\ SameMembers(L, M) /\ WokenTasks(q, w, L)
      /\ \A p \in Level : M[p] = L[p] \o Picked(L[Sleepers], Joins(q, tick, L[Sleepers], p))
      /\ M[Sleepers] = Picked(L[Sleepers], Stays(q, tick, L[Sleepers]))
  BY <1>2 DEF Woken
<1>4. q \in State /\ w \in State /\ M \in [Lane -> Seq(Task)] /\ Apart(M)
  BY <1>3 DEF Rep
<1>5. PICK c : c = q.current_task
  OBVIOUS
<1>6. w.current_task = c /\ w.priority = q.priority
  BY <1>3, <1>5 DEF WokenTasks
<1>7. c # Null => c \in Task /\ ~In(L, c) /\ ~In(M, c) /\ q.state[c] \in Standing
  <2>1. c \in Pointer
    BY <1>4, <1>5, StateFields
  <2> QED BY <1>3, <1>5, <2>1 DEF Pointer, Fit, SameMembers
<1>8. c # Null => w.state[c] = q.state[c]
  BY <1>3, <1>7 DEF WokenTasks
<1>9. ASSUME NEW u \in Task, w.state[u] = "RUNNING" PROVE u = c \/ u = x
  <2>1. q.state[u] = "RUNNING"
    BY <1>3, <1>9 DEF WokenTasks
  <2> QED BY <1>5, <2>1 DEF Fit
<1>10. PICK N : N = Requeued(q, M)
  OBVIOUS
<1>11. PICK v : v = RequeueCurrent(w)
  OBVIOUS
<1>12. /\ Rep(v, N) /\ v.priority = q.priority /\ v.current_task = c
       /\ \A u : In(N, u) <=> In(L, u) \/ (u = c /\ GivesUp(q))
       /\ NonEmpty(v) = {} => ~(c # Null /\ v.state[c] = "READY")
       /\ \A u \in Task : v.state[u] = "RUNNING" => u = x
  <2>1. CASE GivesUp(q)
    <3>1. c # Null /\ w.state[c] = "RUNNING" /\ c \in Task
      BY <1>5, <1>7, <1>8, <2>1 DEF GivesUp
    <3>2. v = AddToReadyQueue(w, c)
      BY <1>6, <1>11, <3>1 DEF RequeueCurrent
    <3>3. PICK p : p = q.priority[c] /\ p = w.priority[c]
      BY <1>6
    <3>4. N = With(M, p, Append(M[p], c))
      BY <1>5, <1>10, <2>1, <3>3 DEF Requeued
    <3>5. Rep(v, N) /\ Readied(w, v, c) /\ Gains(M, c, N)
      BY <1>3, <1>7, <3>1, <3>2, <3>3, <3>4, AddRep
    <3>6. v.priority = q.priority /\ v.current_task = c /\ v.state = [w.state EXCEPT ![c] = "READY"]
      BY <1>6, <3>5 DEF Readied
    <3>7. \A u : In(N, u) <=> In(L, u) \/ (u = c /\ GivesUp(q))
      BY <1>3, <2>1, <3>5 DEF Gains, SameMembers
    <3>8. NonEmpty(v) # {}
      <4>1. p \in Level /\ p \in Lane
        BY <1>4, <3>1, <3>3, StateFields, Lanes
      <4>2. N[p] = Append(M[p], c)
        BY <1>4, <3>4, <4>1 DEF With
      <4>3. PICK l \in Seq(Task) : l = M[p]
        BY <1>4, <4>1
      <4>4. Len(Append(l, c)) # 0
        BY <3>1, <4>3
      <4>5. NonEmpty(v) = {a \in Level : Len(N[a]) # 0}
        BY <3>5, TopFound
      <4> QED BY <4>1, <4>2, <4>3, <4>4, <4>5
    <3>9. ASSUME NEW u \in Task, v.state[u] = "RUNNING" PROVE u = x
      <4>1. w.state \in [Task -> TaskState]
        BY <1>4, StateFields
      <4>2. u # c
        BY <3>6, <3>9, <4>1
      <4>3. w.state[u] = "RUNNING"
        BY <3>6, <3>9, <4>1, <4>2
      <4> QED BY <1>9, <4>2, <4>3
    <3> QED BY <3>5, <3>6, <3>7, <3>8, <3>9
  <2>2. CASE ~GivesUp(q)
    <3>1. c = Null \/ (c # Null /\ w.state[c] # "RUNNING" /\ w.state[c] \in Standing)
      BY <1>5, <1>7, <1>8, <2>2 DEF GivesUp
    <3>2. v = w /\ N = M
      BY <1>6, <1>10, <1>11, <2>2, <3>1 DEF RequeueCurrent, Requeued
    <3>3. c # Null => v.state[c] # "READY"
      BY <3>1, <3>2 DEF Standing
    <3>4. \A u : In(N, u) <=> In(L, u) \/ (u = c /\ GivesUp(q))
      BY <1>3, <2>2, <3>2 DEF SameMembers
    <3>5. ASSUME NEW u \in Task, v.state[u] = "RUNNING" PROVE u = x
      <4>1. u # Null
        BY TaskNotNull
      <4> QED BY <1>9, <3>1, <3>2, <3>5, <4>1
    <3> QED BY <1>3, <1>6, <3>2, <3>3, <3>4, <3>5
  <2> QED BY <2>1, <2>2
<1>13. r = PickNext(v)
  BY <1>1, <1>11
<1>14. PICK K : PickedNext(v, N, r, K)
  BY <1>12, <1>13, PickRep
<1>15. /\ Rep(r, K) /\ Taken(N, K, r.current_task) /\ r.priority = q.priority
       /\ r.current_task = Null => r.state = v.state
       /\ r.current_task # Null =>
            /\ r.state = [v.state EXCEPT ![r.current_task] = "RUNNING"]
            /\ In(N, r.current_task) /\ Loses(N, r.current_task, K)
  BY <1>12, <1>14 DEF PickedNext
<1>16. Fit(r, K, x)
  <2>1. v.state \in [Task -> TaskState] /\ r.current_task \in Pointer
    <3>1. v \in State /\ r \in State
      BY <1>12, <1>15 DEF Rep
    <3> QED BY <3>1, StateFields
  <2>2. CASE r.current_task = Null
    BY <1>12, <1>15, <2>2 DEF Fit
  <2>3. CASE r.current_task # Null
    <3>1. PICK t \in Task : t = r.current_task
      BY <2>1, <2>3 DEF Pointer
    <3>2. r.state = [v.state EXCEPT ![t] = "RUNNING"] /\ ~In(K, t)
      BY <1>15, <2>3, <3>1 DEF Loses
    <3>3. r.state[t] \in Standing
      BY <2>1, <3>1, <3>2 DEF Standing
    <3>4. \A u \in Task : r.state[u] = "RUNNING" => u = t \/ u = x
      BY <1>12, <2>1, <3>1, <3>2
    <3> QED BY <3>1, <3>2, <3>3, <3>4 DEF Fit
  <2> QED BY <2>2, <2>3
<1>17. N \in [Lane -> Seq(Task)] /\ Apart(N)
  BY <1>12 DEF Rep
<1>18. r.current_task = Null => K = N
  BY <1>15, TaskNotNull DEF Taken
<1>19. Hand(q, L, tick, M, N, K, r.current_task)
  BY <1>3, <1>4, <1>5, <1>10, <1>12, <1>15, <1>17, <1>18 DEF Hand
<1>20. Switched(q, L, tick, x, r, M, N, K)
  BY <1>15, <1>16, <1>19 DEF Switched
<1> QED BY <1>20

------------------------------------------------------------------------------
\* Only identifiers that were handed out are in the lists or current.
Below(q, L, n) == \A u \in Task : In(L, u) \/ u = q.current_task => u < n

Whole(q, L, x, n) == Rep(q, L) /\ Fit(q, L, x) /\ Below(q, L, n)

\* r and K are what Schedule makes of q and L, whether it is enabled or not.
Scheduled(q, L, r, K) ==
  /\ scheduling_enabled => \E M, N : Hand(q, L, current_tick, M, N, K, r.current_task)
  /\ ~scheduling_enabled => r.current_task = q.current_task /\ K = L
  /\ r.priority = q.priority

(***************************************************************************)
(* Schedule keeps the lists whole.                                         *)
(***************************************************************************)
LEMMA ScheduleWhole ==
  ASSUME NEW q, NEW L, NEW x, NEW n, Whole(q, L, x, n), NEW r, r = ScheduleFrom(q)
  PROVE  \E K : Whole(r, K, x, n) /\ Scheduled(q, L, r, K)
<1>1. CASE scheduling_enabled
  <2>1. r = PickNext(RequeueCurrent(ProcessSleepingTasks(q, current_tick)))
    BY <1>1 DEF ScheduleFrom
  <2>2. Rep(q, L) /\ Fit(q, L, x) /\ Below(q, L, n)
    BY DEF Whole
  <2>3. PICK M, N, K : Switched(q, L, current_tick, x, r, M, N, K)
    BY <2>1, <2>2, SwitchRep
  <2>4. /\ Hand(q, L, current_tick, M, N, K, r.current_task)
        /\ Rep(r, K) /\ Fit(r, K, x) /\ r.priority = q.priority
    BY <2>3 DEF Switched
  <2>5. \A u \in Task : In(N, u) => u < n
    BY <2>2, <2>4 DEF Hand, Below
  <2>6. \A u \in Task : In(K, u) => In(N, u)
    <3>1. CASE r.current_task = Null
      BY <2>4, <3>1 DEF Hand
    <3>2. CASE r.current_task # Null
      BY <2>4, <3>2 DEF Hand, Loses
    <3> QED BY <3>1, <3>2
  <2>7. \A u \in Task : u = r.current_task => In(N, u)
    BY <2>4, TaskNotNull DEF Hand
  <2>8. Below(r, K, n)
    BY <2>5, <2>6, <2>7 DEF Below
  <2> QED BY <1>1, <2>4, <2>8 DEF Whole, Scheduled
<1>2. CASE ~scheduling_enabled
  <2>1. r = q
    BY <1>2 DEF ScheduleFrom
  <2> QED BY <1>2, <2>1 DEF Scheduled
<1> QED BY <1>1, <1>2

\* The record with another state of t.
Restated(q, t, v) == [q EXCEPT !.state[t] = v]

RestatedTasks(q, r, t, v) ==
  /\ r.current_task = q.current_task /\ r.priority = q.priority
  /\ r.state = [q.state EXCEPT ![t] = v]

(***************************************************************************)
(* A change of one task's state moves no list.                             *)
(***************************************************************************)
LEMMA StateRep ==
  ASSUME NEW q, NEW L, Rep(q, L), NEW t \in Task, NEW v \in TaskState,
         NEW r, r = Restated(q, t, v)
  PROVE  Rep(r, L) /\ RestatedTasks(q, r, t, v)
<1>1. q \in State
  BY DEF Rep
<1>2. PICK states \in [Task -> TaskState] : states = [q.state EXCEPT ![t] = v]
  BY <1>1, StateFields
<1>3. r = [q EXCEPT !.state = states]
  BY <1>2 DEF Restated
<1>4. /\ r \in State /\ r.next = q.next /\ r.ready_queues = q.ready_queues
      /\ r.ready_queue_tails = q.ready_queue_tails /\ r.sleeping_tasks = q.sleeping_tasks
      /\ r.current_task = q.current_task /\ r.state = states /\ r.priority = q.priority
  BY <1>1, <1>3 DEF State
<1> QED BY <1>2, <1>4, RepSame DEF RestatedTasks

(***************************************************************************)
(* Blocking or suspending a task (scheduler.cpp:205, 300): none is made    *)
(* RUNNING.                                                                *)
(***************************************************************************)
LEMMA StateWhole ==
  ASSUME NEW q, NEW L, NEW n, Whole(q, L, Null, n), NEW t \in Task,
         NEW v \in {"BLOCKED", "SUSPENDED"}, NEW r, r = Restated(q, t, v)
  PROVE  Whole(r, L, Null, n) /\ r.current_task = q.current_task /\ r.priority = q.priority
<1>1. v \in TaskState /\ v \in Standing /\ v # "RUNNING"
  BY DEF TaskState, Standing
<1>2. Rep(q, L) /\ Fit(q, L, Null) /\ Below(q, L, n)
  BY DEF Whole
<1>3. /\ Rep(r, L) /\ r.current_task = q.current_task /\ r.priority = q.priority
      /\ r.state = [q.state EXCEPT ![t] = v]
  BY <1>1, <1>2, StateRep DEF RestatedTasks
<1>4. q.state \in [Task -> TaskState] /\ q.current_task \in Pointer
  BY <1>2, StateFields DEF Rep
<1>5. Fit(r, L, Null)
  <2>1. q.current_task # Null => q.current_task \in Task
    BY <1>4 DEF Pointer
  <2>2. q.current_task # Null => r.state[q.current_task] \in Standing
    BY <1>1, <1>2, <1>3, <1>4, <2>1 DEF Fit
  <2>3. \A u \in Task : r.state[u] = "RUNNING" => q.state[u] = "RUNNING"
    BY <1>1, <1>3, <1>4
  <2> QED BY <1>2, <1>3, <2>2, <2>3 DEF Fit
<1> QED BY <1>2, <1>3, <1>5 DEF Whole, Below

DestroyedTasks(q, r, t) ==
  /\ r.current_task = q.current_task /\ r.priority = q.priority
  /\ r.state = [q.state EXCEPT ![t] = "TERMINATED"]

(***************************************************************************)
(* Destroying a task (scheduler.cpp:197, 365) moves no list.               *)
(***************************************************************************)
LEMMA DestroyRep ==
  ASSUME NEW q, NEW L, Rep(q, L), NEW t \in Task, NEW r, r = Destroy(q, t)
  PROVE  Rep(r, L) /\ DestroyedTasks(q, r, t)
<1>1. q \in State
  BY DEF Rep
<1>2. PICK states \in [Task -> TaskState] : states = [q.state EXCEPT ![t] = "TERMINATED"]
  BY <1>1, StateFields DEF TaskState
<1>3. PICK stacks \in [Task -> BOOLEAN] : stacks = [q.stack_base EXCEPT ![t] = FALSE]
  BY <1>1, StateFields
<1>4. r = [q EXCEPT !.state = states, !.stack_base = stacks]
  BY <1>2, <1>3 DEF Destroy
<1>5. /\ r \in State /\ r.next = q.next /\ r.ready_queues = q.ready_queues
      /\ r.ready_queue_tails = q.ready_queue_tails /\ r.sleeping_tasks = q.sleeping_tasks
      /\ r.current_task = q.current_task /\ r.state = states /\ r.priority = q.priority
  BY <1>1, <1>4 DEF State
<1> QED BY <1>2, <1>5, RepSame DEF DestroyedTasks

(***************************************************************************)
(* TerminateCurrentTask (scheduler.cpp:184-199): while the next task is    *)
(* chosen the old one is still in state RUNNING, but not current.          *)
(***************************************************************************)
LEMMA TerminateWhole ==
  ASSUME NEW q, NEW L, NEW n, Whole(q, L, Null, n), q.current_task # Null,
         NEW r, r = Terminate(q)
  PROVE  \E K : Whole(r, K, Null, n) /\ Scheduled(Idle(q), L, r, K)
<1>1. Rep(q, L) /\ Fit(q, L, Null) /\ Below(q, L, n)
  BY DEF Whole
<1>2. PICK c \in Task : c = q.current_task
  BY <1>1, StateFields DEF Rep, Pointer
<1>3. PICK i : i = Idle(q)
  OBVIOUS
<1>4. Rep(i, L) /\ i.current_task = Null /\ i.state = q.state /\ i.priority = q.priority
  BY <1>1, <1>3, IdleRep
<1>5. ~In(L, c)
  BY <1>1, <1>2 DEF Fit
<1>6. Whole(i, L, c, n)
  <2>1. Fit(i, L, c)
    <3>1. \A u \in Task : i.state[u] = "RUNNING" => u = c
      BY <1>1, <1>2, <1>4, TaskNotNull DEF Fit
    <3> QED BY <1>4, <3>1 DEF Fit
  <2>2. Below(i, L, n)
    BY <1>1, <1>4, TaskNotNull DEF Below
  <2> QED BY <1>4, <2>1, <2>2 DEF Whole
<1>7. PICK e : e = ScheduleFrom(i)
  OBVIOUS
<1>8. PICK K : Whole(e, K, c, n) /\ Scheduled(i, L, e, K)
  BY <1>6, <1>7, ScheduleWhole
<1>9. Rep(e, K) /\ Fit(e, K, c) /\ Below(e, K, n)
  BY <1>8 DEF Whole
<1>10. r = Destroy(e, c)
  BY <1>2, <1>3, <1>7 DEF Terminate
<1>11. /\ Rep(r, K) /\ r.current_task = e.current_task /\ r.priority = e.priority
       /\ r.state = [e.state EXCEPT ![c] = "TERMINATED"]
  <2>1. Rep(r, K) /\ DestroyedTasks(e, r, c)
    BY <1>9, <1>10, DestroyRep
  <2> QED BY <2>1 DEF DestroyedTasks
<1>12. e.current_task # c
  <2>1. CASE scheduling_enabled
    <3>1. PICK M, N : Hand(i, L, current_tick, M, N, K, e.current_task)
      BY <1>8, <2>1 DEF Scheduled
    <3>2. ~GivesUp(i)
      BY <1>4 DEF GivesUp
    <3>3. e.current_task # Null => In(L, e.current_task)
      BY <3>1, <3>2 DEF Hand
    <3> QED BY <1>2, <1>5, <3>3, TaskNotNull
  <2>2. CASE ~scheduling_enabled
    BY <1>4, <1>8, <2>2, TaskNotNull DEF Scheduled
  <2> QED BY <2>1, <2>2
<1>13. Fit(r, K, Null)
  <2>1. e.state \in [Task -> TaskState] /\ e.current_task \in Pointer
    BY <1>9, StateFields DEF Rep
  <2>2. r.current_task # Null => r.state[r.current_task] \in Standing /\ ~In(K, r.current_task)
    <3>1. e.current_task # Null => e.current_task \in Task
      BY <2>1 DEF Pointer
    <3> QED BY <1>9, <1>11, <1>12, <2>1, <3>1 DEF Fit
  <2>3. \A u \in Task : r.state[u] = "RUNNING" => u = e.current_task
    BY <1>9, <1>11, <2>1 DEF Fit
  <2> QED BY <1>11, <2>2, <2>3 DEF Fit
<1>14. Below(r, K, n)
  BY <1>9, <1>11 DEF Below
<1>15. Scheduled(i, L, r, K)
  BY <1>8, <1>11 DEF Scheduled
<1> QED BY <1>3, <1>11, <1>13, <1>14, <1>15 DEF Whole

\* The lists once the current task c fell asleep.
Bedded(L, c) == With(L, Sleepers, <<c>> \o L[Sleepers])

(***************************************************************************)
(* SleepTask of the current task (scheduler.cpp:370-391).                  *)
(***************************************************************************)
LEMMA SleepWhole ==
  ASSUME NEW q, NEW L, NEW n, Whole(q, L, Null, n), NEW t \in Task, t = q.current_task,
         NEW w \in 0 .. TickModulus - 1, NEW i, i = Idle(FallAsleep(q, t, w))
  PROVE  /\ Whole(i, Bedded(L, t), Null, n) /\ i.current_task = Null /\ i.priority = q.priority
         /\ Gains(L, t, Bedded(L, t))
<1>1. Rep(q, L) /\ Fit(q, L, Null) /\ Below(q, L, n)
  BY DEF Whole
<1>2. ~In(L, t)
  BY <1>1, TaskNotNull DEF Fit
<1>3. PICK p : p = FallAsleep(q, t, w)
  OBVIOUS
<1>4. PICK A : A = Bedded(L, t)
  OBVIOUS
<1>5. Rep(p, A) /\ SleepTasks(q, p, t) /\ Gains(L, t, A)
  BY <1>1, <1>2, <1>3, <1>4, PushRep DEF Bedded
<1>6. Rep(i, A) /\ i.current_task = Null /\ i.state = p.state /\ i.priority = p.priority
  BY <1>3, <1>5, IdleRep
<1>7. i.state = [q.state EXCEPT ![t] = "SLEEPING"] /\ i.priority = q.priority
  BY <1>5, <1>6 DEF SleepTasks
<1>8. Fit(i, A, Null)
  <2>1. q.state \in [Task -> TaskState]
    BY <1>1, StateFields DEF Rep
  <2>2. ASSUME NEW u \in Task, i.state[u] = "RUNNING" PROVE FALSE
    <3>1. u # t
      BY <1>7, <2>1, <2>2
    <3>2. q.state[u] = "RUNNING"
      BY <1>7, <2>1, <2>2, <3>1
    <3> QED BY <1>1, <3>1, <3>2, TaskNotNull DEF Fit
  <2> QED BY <1>6, <2>2 DEF Fit
<1>9. Below(i, A, n)
  <2>1. \A u \in Task : In(A, u) => In(L, u) \/ u = q.current_task
    BY <1>5 DEF Gains
  <2> QED BY <1>1, <1>6, <2>1, TaskNotNull DEF Below
<1> QED BY <1>4, <1>5, <1>6, <1>7, <1>8, <1>9 DEF Whole

(***************************************************************************)
(* AddToReadyQueue of any task keeps the record's type: what is left of it *)
(* once a task that is linked already was added.                           *)
(***************************************************************************)
LEMMA AddTyped ==
  ASSUME NEW q \in State, NEW t \in Task, NEW r, r = AddToReadyQueue(q, t)
  PROVE  r \in State /\ r.current_task = q.current_task /\ r.state = [q.state EXCEPT ![t] = "READY"]
<1>1. /\ q.ready_queues \in [Level -> Pointer] /\ q.ready_queue_tails \in [Level -> Pointer]
      /\ q.state \in [Task -> TaskState] /\ q.next \in Links /\ q.priority \in [Task -> Level]
  BY StateFields
<1>2. PICK p \in Level : p = q.priority[t]
  BY <1>1
<1>3. PICK first : first = (q.ready_queues[p] = Null)
  OBVIOUS
<1>4. PICK unlinked \in Links : unlinked = [q.next EXCEPT ![t] = Null]
  BY <1>1 DEF Links
<1>5. PICK e : e = q.ready_queue_tails[p]
  OBVIOUS
<1>6. [unlinked EXCEPT ![e] = t] \in Links
  BY <1>4 DEF Links
<1>7. PICK next2 \in Links : next2 = IF first THEN unlinked ELSE [unlinked EXCEPT ![e] = t]
  BY <1>4, <1>6
<1>8. PICK heads \in [Level -> Pointer] :
        heads = [q.ready_queues EXCEPT ![p] = IF first THEN t ELSE @]
  BY <1>1 DEF Pointer
<1>9. PICK tails \in [Level -> Pointer] : tails = [q.ready_queue_tails EXCEPT ![p] = t]
  BY <1>1 DEF Pointer
<1>10. PICK states \in [Task -> TaskState] : states = [q.state EXCEPT ![t] = "READY"]
  BY <1>1 DEF TaskState
<1>11. r = [q EXCEPT !.state = states, !.next = next2, !.ready_queues = heads,
                     !.ready_queue_tails = tails]
  BY <1>2, <1>3, <1>4, <1>5, <1>7, <1>8, <1>9, <1>10 DEF AddToReadyQueue
<1>12. r \in State /\ r.current_task = q.current_task /\ r.state = states
  BY <1>11 DEF State
<1> QED BY <1>10, <1>12

Sliced(q, x) == [q EXCEPT !.time_slice = x]

(***************************************************************************)
(* A change of the time slice (scheduler.cpp:179, 224-226) is only that.   *)
(***************************************************************************)
LEMMA SliceWhole ==
  ASSUME NEW q, NEW L, NEW n, Whole(q, L, Null, n), NEW x \in 0 .. 20, NEW r, r = Sliced(q, x)
  PROVE  /\ Whole(r, L, Null, n) /\ r.current_task = q.current_task /\ r.state = q.state
         /\ r.priority = q.priority /\ r.sleep_until = q.sleep_until
<1>1. Rep(q, L) /\ Fit(q, L, Null) /\ Below(q, L, n)
  BY DEF Whole
<1>2. q \in State
  BY <1>1 DEF Rep
<1>3. /\ r \in State /\ r.next = q.next /\ r.ready_queues = q.ready_queues
      /\ r.ready_queue_tails = q.ready_queue_tails /\ r.sleeping_tasks = q.sleeping_tasks
      /\ r.current_task = q.current_task /\ r.state = q.state /\ r.priority = q.priority
      /\ r.sleep_until = q.sleep_until
  BY <1>2 DEF State, Sliced
<1>4. Rep(r, L)
  BY <1>1, <1>3, RepSame
<1> QED BY <1>1, <1>3, <1>4 DEF Whole, Fit, Below

Repriced(q, t, p) == [q EXCEPT !.priority[t] = p]

RepricedTasks(q, r, t, p) ==
  r.current_task = q.current_task /\ r.priority = [q.priority EXCEPT ![t] = p]

(***************************************************************************)
(* SetTaskPriority (scheduler.cpp:393-400) leaves the task where it is.    *)
(***************************************************************************)
LEMMA PriorityWhole ==
  ASSUME NEW q, NEW L, NEW n, Whole(q, L, Null, n), NEW t \in Task, NEW p \in Level,
         NEW r, r = Repriced(q, t, p)
  PROVE  Whole(r, L, Null, n) /\ RepricedTasks(q, r, t, p)
<1>1. Rep(q, L) /\ Fit(q, L, Null) /\ Below(q, L, n)
  BY DEF Whole
<1>2. q \in State
  BY <1>1 DEF Rep
<1>3. PICK prices \in [Task -> Level] : prices = [q.priority EXCEPT ![t] = p]
  BY <1>2, StateFields
<1>4. r = [q EXCEPT !.priority = prices]
  BY <1>3 DEF Repriced
<1>5. /\ r \in State /\ r.next = q.next /\ r.ready_queues = q.ready_queues
      /\ r.ready_queue_tails = q.ready_queue_tails /\ r.sleeping_tasks = q.sleeping_tasks
      /\ r.current_task = q.current_task /\ r.state = q.state /\ r.priority = prices
  BY <1>2, <1>4 DEF State
<1>6. Rep(r, L)
  BY <1>1, <1>5, RepSame
<1> QED BY <1>1, <1>3, <1>5, <1>6 DEF Whole, Fit, Below, RepricedTasks

(***************************************************************************)
(* KillTask of a task that is not current (scheduler.cpp:362-367).         *)
(***************************************************************************)
LEMMA DestroyWhole ==
  ASSUME NEW q, NEW L, NEW n, Whole(q, L, Null, n), NEW t \in Task, t # q.current_task,
         NEW r, r = Destroy(q, t)
  PROVE  Whole(r, L, Null, n) /\ r.current_task = q.current_task /\ r.priority = q.priority
<1>1. Rep(q, L) /\ Fit(q, L, Null) /\ Below(q, L, n)
  BY DEF Whole
<1>2. Rep(r, L) /\ DestroyedTasks(q, r, t)
  BY <1>1, DestroyRep
<1>3. /\ r.current_task = q.current_task /\ r.priority = q.priority
      /\ r.state = [q.state EXCEPT ![t] = "TERMINATED"]
  BY <1>2 DEF DestroyedTasks
<1>4. q.state \in [Task -> TaskState] /\ q.current_task \in Pointer
  BY <1>1, StateFields DEF Rep
<1>5. q.current_task # Null => r.state[q.current_task] = q.state[q.current_task]
  <2>1. q.current_task # Null => q.current_task \in Task
    BY <1>4 DEF Pointer
  <2> QED BY <1>3, <1>4, <2>1
<1>6. \A u \in Task : r.state[u] = "RUNNING" => q.state[u] = "RUNNING"
  BY <1>3, <1>4
<1>7. Fit(r, L, Null)
  BY <1>1, <1>3, <1>5, <1>6 DEF Fit
<1> QED BY <1>1, <1>2, <1>3, <1>7 DEF Whole, Below

Created(q, t, p) == [q EXCEPT !.priority[t] = p, !.stack_base[t] = TRUE]

CreatedTasks(q, L, t, p, r, K) ==
  /\ K = With(L, p, Append(L[p], t)) /\ r.current_task = q.current_task
  /\ r.priority = [q.priority EXCEPT ![t] = p]
  /\ ~In(L, t) /\ t # q.current_task

(***************************************************************************)
(* CreateTask (scheduler.cpp:48-78): the new identifier is in no list.     *)
(***************************************************************************)
LEMMA CreateWhole ==
  ASSUME NEW q, NEW L, NEW t \in Task, Whole(q, L, Null, t), NEW p \in Level,
         NEW r, r = AddToReadyQueue(Created(q, t, p), t)
  PROVE  \E K : Whole(r, K, Null, t + 1) /\ CreatedTasks(q, L, t, p, r, K)
<1>1. Rep(q, L) /\ Fit(q, L, Null) /\ Below(q, L, t)
  BY DEF Whole
<1>2. q \in State
  BY <1>1 DEF Rep
<1>3. PICK prices \in [Task -> Level] : prices = [q.priority EXCEPT ![t] = p]
  BY <1>2, StateFields
<1>4. PICK stacks \in [Task -> BOOLEAN] : stacks = [q.stack_base EXCEPT ![t] = TRUE]
  BY <1>2, StateFields
<1>5. PICK c : c = Created(q, t, p)
  OBVIOUS
<1>6. c = [q EXCEPT !.priority = prices, !.stack_base = stacks]
  BY <1>3, <1>4, <1>5 DEF Created
<1>7. /\ c \in State /\ c.next = q.next /\ c.ready_queues = q.ready_queues
      /\ c.ready_queue_tails = q.ready_queue_tails /\ c.sleeping_tasks = q.sleeping_tasks
      /\ c.current_task = q.current_task /\ c.state = q.state /\ c.priority = prices
  BY <1>2, <1>6 DEF State
<1>8. Rep(c, L)
  BY <1>1, <1>7, RepSame
<1>9. t \in Int /\ ~(t < t)
  BY SchedulerConstants DEF Task
<1>10. ~In(L, t) /\ t # q.current_task
  BY <1>1, <1>9 DEF Below
<1>11. p = c.priority[t]
  <2>1. q.priority \in [Task -> Level]
    BY <1>2, StateFields
  <2> QED BY <1>3, <1>7, <2>1
<1>12. PICK K : K = With(L, p, Append(L[p], t))
  OBVIOUS
<1>13. Rep(r, K) /\ Readied(c, r, t) /\ Gains(L, t, K)
  BY <1>5, <1>8, <1>10, <1>11, <1>12, AddRep
<1>14. /\ r.current_task = q.current_task /\ r.priority = prices
       /\ r.state = [q.state EXCEPT ![t] = "READY"]
  BY <1>7, <1>13 DEF Readied
<1>15. q.state \in [Task -> TaskState] /\ q.current_task \in Pointer
  BY <1>2, StateFields
<1>16. Fit(r, K, Null)
  <2>1. q.current_task # Null => r.state[q.current_task] = q.state[q.current_task]
    <3>1. q.current_task # Null => q.current_task \in Task
      BY <1>15 DEF Pointer
    <3> QED BY <1>10, <1>14, <1>15, <3>1
  <2>2. \A u \in Task : r.state[u] = "RUNNING" => q.state[u] = "RUNNING"
    BY <1>14, <1>15
  <2>3. q.current_task # Null => ~In(K, q.current_task)
    BY <1>1, <1>10, <1>13 DEF Gains, Fit
  <2> QED BY <1>1, <1>14, <2>1, <2>2, <2>3 DEF Fit
<1>17. Below(r, K, t + 1)
  <2>1. ASSUME NEW u \in Task, u < t PROVE u < t + 1
    BY <2>1, SchedulerConstants DEF Task
  <2>2. t < t + 1
    BY <1>9
  <2>3. ASSUME NEW u \in Task, In(K, u) \/ u = r.current_task PROVE u < t \/ u = t
    BY <1>1, <1>13, <1>14, <2>3 DEF Below, Gains
  <2> QED BY <2>1, <2>2, <2>3 DEF Below
<1> QED BY <1>3, <1>10, <1>12, <1>13, <1>14, <1>16, <1>17 DEF Whole, CreatedTasks

\* What the timer's preemption makes of q and L: the head of the highest queue is
\* dropped (A), the current task c goes to the back of its queue (N), and the
\* task t that is first then gets the CPU.
Preempted(q, L, A, N, K, t) ==
  LET c == q.current_task
      p == q.priority[c]
  IN /\ \E a \in Level : IsTop(L, a) /\ A = With(L, a, Tail(L[a]))
     /\ N = With(A, p, Append(A[p], c)) /\ Taken(N, K, t)
     /\ A \in [Lane -> Seq(Task)] /\ N \in [Lane -> Seq(Task)]
     /\ \A u : In(N, u) => In(L, u) \/ u = c
     /\ t # Null /\ In(N, t)

(***************************************************************************)
(* OnTimerTick at the end of a slice (scheduler.cpp:230-248).              *)
(***************************************************************************)
LEMMA TimerWhole ==
  ASSUME NEW q, NEW L, NEW n, Whole(q, L, Null, n), NEW c \in Task, c = q.current_task,
         NonEmpty(q) # {}, NEW e, e = AddToReadyQueue(GetHighestPriorityTask(q), c),
         NEW r, r = Dispatch(GetHighestPriorityTask(e), HighestPriorityTask(e))
  PROVE  /\ r.priority = q.priority
         /\ \E A, N, K : Whole(r, K, Null, n) /\ Preempted(q, L, A, N, K, r.current_task)
<1>1. Rep(q, L) /\ Fit(q, L, Null) /\ Below(q, L, n)
  BY DEF Whole
<1>2. q \in State
  BY <1>1 DEF Rep
<1>3. PICK a, t0, d, A : /\ a = TopLevel(q) /\ t0 = HighestPriorityTask(q)
                         /\ d = GetHighestPriorityTask(q) /\ A = With(L, a, Tail(L[a]))
  OBVIOUS
<1>4. IsTop(L, a) /\ Rep(d, A) /\ SameTasks(q, d) /\ Loses(L, t0, A)
  BY <1>1, <1>3, PopRep
<1>5. ~In(A, c)
  BY <1>1, <1>4, TaskNotNull DEF Fit, Loses
<1>6. PICK p : p = q.priority[c] /\ p = d.priority[c]
  BY <1>4 DEF SameTasks
<1>7. p \in Level /\ p \in Lane
  BY <1>2, <1>6, StateFields, Lanes
<1>8. PICK N : N = With(A, p, Append(A[p], c))
  OBVIOUS
<1>9. Rep(e, N) /\ Readied(d, e, c) /\ Gains(A, c, N)
  BY <1>3, <1>4, <1>5, <1>6, <1>8, AddRep
<1>10. A \in [Lane -> Seq(Task)] /\ N \in [Lane -> Seq(Task)]
  BY <1>4, <1>9 DEF Rep
<1>11. NonEmpty(e) # {}
  <2>1. N[p] = Append(A[p], c)
    BY <1>7, <1>8, <1>10 DEF With
  <2>2. PICK l \in Seq(Task) : l = A[p]
    BY <1>7, <1>10
  <2>3. Len(Append(l, c)) # 0
    BY <2>2
  <2>4. NonEmpty(e) = {b \in Level : Len(N[b]) # 0}
    BY <1>9, TopFound
  <2> QED BY <1>7, <2>1, <2>2, <2>3, <2>4
<1>12. PICK b, t, g, K : /\ b = TopLevel(e) /\ t = HighestPriorityTask(e)
                         /\ g = GetHighestPriorityTask(e) /\ K = With(N, b, Tail(N[b]))
  OBVIOUS
<1>13. /\ IsTop(N, b) /\ t = N[b][1] /\ t \in Task
       /\ Rep(g, K) /\ SameTasks(e, g) /\ Loses(N, t, K)
  BY <1>9, <1>11, <1>12, PopRep
<1>14. Rep(r, K) /\ Dispatched(g, r, t)
  BY <1>12, <1>13, DispatchRep
<1>15. /\ r.current_task = t /\ r.priority = q.priority
       /\ g.state = [q.state EXCEPT ![c] = "READY"]
       /\ r.state = [g.state EXCEPT ![t] = "RUNNING"]
  BY <1>4, <1>9, <1>13, <1>14 DEF SameTasks, Readied, Dispatched
<1>16. q.state \in [Task -> TaskState] /\ g.state \in [Task -> TaskState]
  <2>1. g \in State
    BY <1>13 DEF Rep
  <2> QED BY <1>2, <2>1, StateFields
<1>17. \A u : In(N, u) <=> In(A, u) \/ u = c
  BY <1>9 DEF Gains
<1>18. \A u : In(A, u) => In(L, u)
  BY <1>4 DEF Loses
<1>19. Fit(r, K, Null)
  <2>1. ~In(K, t) /\ r.state[t] \in Standing
    BY <1>13, <1>15, <1>16 DEF Loses, Standing
  <2>2. ASSUME NEW u \in Task, r.state[u] = "RUNNING", u # t PROVE FALSE
    <3>1. g.state[u] = "RUNNING"
      BY <1>13, <1>15, <1>16, <2>2
    <3>2. u # c /\ q.state[u] = "RUNNING"
      BY <1>15, <1>16, <3>1
    <3> QED BY <1>1, <3>2, TaskNotNull DEF Fit
  <2> QED BY <1>15, <2>1, <2>2 DEF Fit
<1>20. In(N, t) /\ t # Null
  <2>1. b \in Level /\ b \in Lane /\ Len(N[b]) # 0
    BY <1>13, Lanes DEF IsTop
  <2>2. N[b] \in Seq(Task)
    BY <1>10, <2>1
  <2>3. 1 \in 1 .. Len(N[b])
    BY <2>1, <2>2, ListTyped
  <2> QED BY <1>13, <2>1, <2>3, TaskNotNull DEF In
<1>21. \A u \in Task : In(N, u) => u < n
  BY <1>1, <1>17, <1>18 DEF Below
<1>22. Below(r, K, n)
  <2>1. \A u \in Task : In(K, u) => In(N, u)
    BY <1>13 DEF Loses
  <2> QED BY <1>15, <1>20, <1>21, <2>1 DEF Below
<1>23. Taken(N, K, t)
  BY <1>12, <1>13 DEF Taken, IsTop
<1>24. Preempted(q, L, A, N, K, t)
  <2>1. \E f \in Level : IsTop(L, f) /\ A = With(L, f, Tail(L[f]))
    BY <1>3, <1>4 DEF IsTop
  <2> QED BY <1>6, <1>8, <1>10, <1>17, <1>18, <1>20, <1>23, <2>1 DEF Preempted
<1> QED BY <1>14, <1>15, <1>19, <1>22, <1>24 DEF Whole

------------------------------------------------------------------------------
(***************************************************************************)
(* What a step can do to the lists L of a whole state, leaving K.          *)
(***************************************************************************)
\* q is the record handed to Schedule: only its current task, its slice and the
\* state of tasks may differ from s.
Prepared(q) == q.priority = s.priority /\ q.current_task \in {s.current_task, Null}

Rests(L, K) == K = L /\ s'.current_task = s.current_task /\ s'.priority = s.priority

Arrives(L, K) == \E t \in Task, p \in Level : CreatedTasks(s, L, t, p, s', K)

Relevels(L, K) == \E t \in Task, p \in Level : K = L /\ RepricedTasks(s, s', t, p)

Hands(L, K) == \E q : Prepared(q) /\ Scheduled(q, L, s', K)

Sleeps(L, K) ==
  /\ s.current_task \in Task /\ Gains(L, s.current_task, Bedded(L, s.current_task))
  /\ \E q : /\ Prepared(q) /\ q.current_task = Null
            /\ Scheduled(q, Bedded(L, s.current_task), s', K)

Preempts(L, K) ==
  /\ OnTimerTick
  /\ s.current_task \in Task /\ s'.priority = s.priority
  /\ \E A, N : Preempted(s, L, A, N, K, s'.current_task)

Moved(L, K) ==
  Rests(L, K) \/ Arrives(L, K) \/ Relevels(L, K) \/ Hands(L, K) \/ Sleeps(L, K) \/ Preempts(L, K)

After(L) == \E K : Whole(s', K, Null, next_task_id') /\ Moved(L, K)

(***************************************************************************)
(* Schedule and Yield (scheduler.cpp:133-182): the current task is handed  *)
(* to Schedule as it is.                                                   *)
(***************************************************************************)
LEMMA ScheduleMoves ==
  ASSUME NEW L, Whole(s, L, Null, next_task_id), Schedule \/ Yield
  PROVE  \E q, K : /\ Whole(s', K, Null, next_task_id') /\ Scheduled(q, L, s', K)
                   /\ q.current_task = s.current_task /\ q.priority = s.priority
<1>1. PICK q : /\ Whole(q, L, Null, next_task_id) /\ s' = ScheduleFrom(q)
               /\ q.current_task = s.current_task /\ q.priority = s.priority
               /\ next_task_id' = next_task_id
  <2>1. CASE Schedule
    BY <2>1 DEF Schedule, Lists
  <2>2. CASE Yield
    <3>1. PICK q : q = Sliced(s, 0)
      OBVIOUS
    <3>2. s' = ScheduleFrom(q) /\ next_task_id' = next_task_id
      BY <2>2, <3>1 DEF Yield, Lists, Sliced
    <3>3. 0 \in 0 .. 20
      OBVIOUS
    <3>4. /\ Whole(q, L, Null, next_task_id) /\ q.current_task = s.current_task
          /\ q.priority = s.priority
      BY <3>1, <3>3, SliceWhole
    <3> QED BY <3>2, <3>4
  <2> QED BY <2>1, <2>2
<1>2. PICK r : r = s'
  OBVIOUS
<1>3. PICK K : Whole(r, K, Null, next_task_id) /\ Scheduled(q, L, r, K)
  BY <1>1, <1>2, ScheduleWhole
<1> QED BY <1>1, <1>2, <1>3

(***************************************************************************)
(* A current task is a task, in no list.                                   *)
(***************************************************************************)
LEMMA CurrentTask ==
  ASSUME NEW q, NEW L, NEW x, NEW n, Whole(q, L, x, n)
  PROVE  /\ q \in State /\ L \in [Lane -> Seq(Task)] /\ Apart(L)
         /\ q.current_task # Null => q.current_task \in Task /\ ~In(L, q.current_task)
<1>1. Rep(q, L) /\ Fit(q, L, x)
  BY DEF Whole
<1>2. q \in State /\ L \in [Lane -> Seq(Task)] /\ Apart(L)
  BY <1>1 DEF Rep
<1>3. q.current_task \in Pointer
  BY <1>2, StateFields
<1> QED BY <1>1, <1>2, <1>3 DEF Pointer, Fit

(***************************************************************************)
(* BlockCurrentTask and SuspendTask (scheduler.cpp:201-206, 325-338).      *)
(***************************************************************************)
LEMMA BlockMoves ==
  ASSUME NEW L, Whole(s, L, Null, next_task_id),
         BlockCurrentTask \/ \E t \in Task : SuspendTask(t)
  PROVE  After(L)
<1>1. ASSUME NEW t \in Task, NEW v \in {"BLOCKED", "SUSPENDED"}, NEW q, q = Restated(s, t, v)
      PROVE  /\ Whole(q, L, Null, next_task_id) /\ Prepared(q)
             /\ q.current_task = s.current_task /\ q.priority = s.priority
  <2>1. /\ Whole(q, L, Null, next_task_id)
        /\ q.current_task = s.current_task /\ q.priority = s.priority
    BY <1>1, StateWhole
  <2> QED BY <2>1 DEF Prepared
<1>2. ASSUME NEW q, Whole(q, L, Null, next_task_id), Prepared(q), Lists(ScheduleFrom(q))
      PROVE  After(L)
  <2>1. PICK r : r = s'
    OBVIOUS
  <2>2. r = ScheduleFrom(q) /\ next_task_id' = next_task_id
    BY <1>2, <2>1 DEF Lists
  <2>3. PICK K : Whole(r, K, Null, next_task_id) /\ Scheduled(q, L, r, K)
    BY <1>2, <2>2, ScheduleWhole
  <2> QED BY <1>2, <2>1, <2>2, <2>3 DEF After, Moved, Hands
<1>3. CASE BlockCurrentTask
  <2>1. PICK c \in Task : c = s.current_task
    BY <1>3, CurrentTask DEF BlockCurrentTask
  <2>2. PICK q : q = Restated(s, c, "BLOCKED")
    OBVIOUS
  <2>3. Lists(ScheduleFrom(q))
    BY <1>3, <2>1, <2>2 DEF BlockCurrentTask, Restated
  <2>4. Whole(q, L, Null, next_task_id) /\ Prepared(q)
    BY <1>1, <2>2
  <2> QED BY <1>2, <2>3, <2>4
<1>4. ASSUME NEW t \in Task, SuspendTask(t) PROVE After(L)
  <2>1. PICK q : q = Restated(s, t, "SUSPENDED")
    OBVIOUS
  <2>2. /\ Whole(q, L, Null, next_task_id) /\ Prepared(q)
        /\ q.current_task = s.current_task /\ q.priority = s.priority
    BY <1>1, <2>1
  <2>3. Lists(IF t = s.current_task THEN ScheduleFrom(q) ELSE q)
    BY <1>4, <2>1 DEF SuspendTask, Restated
  <2>4. CASE t = s.current_task
    BY <1>2, <2>2, <2>3, <2>4
  <2>5. CASE t # s.current_task
    <3>1. s' = q /\ next_task_id' = next_task_id
      BY <2>3, <2>5 DEF Lists
    <3>2. Rests(L, L)
      BY <2>2, <3>1 DEF Rests
    <3> QED BY <2>2, <3>1, <3>2 DEF After, Moved
  <2> QED BY <2>4, <2>5
<1> QED BY <1>3, <1>4

(***************************************************************************)
(* TerminateCurrentTask and KillTask (scheduler.cpp:184-199, 349-368).     *)
(***************************************************************************)
LEMMA KillMoves ==
  ASSUME NEW L, Whole(s, L, Null, next_task_id),
         TerminateCurrentTask \/ \E t \in Task : KillTask(t)
  PROVE  After(L)
<1>1. ASSUME s.current_task # Null, Lists(Terminate(s)) PROVE After(L)
  <2>1. PICK r : r = s'
    OBVIOUS
  <2>2. r = Terminate(s) /\ next_task_id' = next_task_id
    BY <1>1, <2>1 DEF Lists
  <2>3. PICK K : Whole(r, K, Null, next_task_id) /\ Scheduled(Idle(s), L, r, K)
    BY <1>1, <2>2, TerminateWhole
  <2>4. Prepared(Idle(s))
    <3>1. Idle(s).current_task = Null /\ Idle(s).priority = s.priority
      <4>1. Rep(s, L)
        BY DEF Whole
      <4> QED BY <4>1, IdleRep
    <3> QED BY <3>1 DEF Prepared
  <2> QED BY <2>1, <2>2, <2>3, <2>4 DEF After, Moved, Hands
<1>2. CASE TerminateCurrentTask
  BY <1>1, <1>2 DEF TerminateCurrentTask
<1>3. ASSUME NEW t \in Task, KillTask(t) PROVE After(L)
  <2>1. CASE t = s.current_task
    <3>1. s.current_task # Null
      BY <2>1, TaskNotNull
    <3> QED BY <1>1, <1>3, <2>1, <3>1 DEF KillTask
  <2>2. CASE t # s.current_task
    <3>1. PICK r : r = s'
      OBVIOUS
    <3>2. r = Destroy(s, t) /\ next_task_id' = next_task_id
      BY <1>3, <2>2, <3>1 DEF KillTask, Lists
    <3>3. /\ Whole(r, L, Null, next_task_id) /\ r.current_task = s.current_task
          /\ r.priority = s.priority
      BY <2>2, <3>2, DestroyWhole
    <3>4. Rests(L, L)
      BY <3>1, <3>3 DEF Rests
    <3> QED BY <3>1, <3>2, <3>3, <3>4 DEF After, Moved
  <2> QED BY <2>1, <2>2
<1> QED BY <1>2, <1>3

(***************************************************************************)
(* A remainder is less than the modulus.                                   *)
(***************************************************************************)
LEMMA Wraps ==
  ASSUME NEW x \in Nat
  PROVE  x % TickModulus \in 0 .. TickModulus - 1
<1>1. PICK m \in Nat : m = TickModulus /\ m > 0
  BY SchedulerConstants
<1>2. x % m \in 0 .. m - 1
  BY <1>1
<1> QED BY <1>1, <1>2

(***************************************************************************)
(* A sleep lasts at least one tick and ends at a value of the counter      *)
(* (scheduler.cpp:377-380).                                                *)
(***************************************************************************)
LEMMA WakeTyped ==
  ASSUME TypeOK, NEW ms \in SleepTimes
  PROVE  WakeTick(ms) \in 0 .. TickModulus - 1
<1>1. ms \in Nat
  BY SchedulerConstants
<1>2. (ms * 100) \div 1000 \in Nat
  BY <1>1
<1>3. SleepTicks(ms) \in Nat
  BY <1>2 DEF SleepTicks
<1>4. PICK m \in Nat : m = TickModulus /\ m > 0
  BY SchedulerConstants
<1>5. current_tick \in Nat
  BY <1>4 DEF TypeOK
<1>6. current_tick + SleepTicks(ms) \in Nat
  BY <1>3, <1>5
<1> QED BY <1>6, Wraps DEF WakeTick

(***************************************************************************)
(* CreateTask, also when it fails (scheduler.cpp:48-78).                   *)
(***************************************************************************)
LEMMA CreateMoves ==
  ASSUME NEW L, Whole(s, L, Null, next_task_id),
         CreateTaskFails \/ \E p \in Priorities : CreateTask(p)
  PROVE  After(L)
<1>1. CASE CreateTaskFails
  <2>1. s' = s /\ next_task_id' = next_task_id + 1 /\ next_task_id \in Task
    BY <1>1 DEF CreateTaskFails
  <2>2. ASSUME NEW u \in Task, u < next_task_id PROVE u < next_task_id + 1
    BY <2>1, <2>2, SchedulerConstants DEF Task
  <2>3. Whole(s', L, Null, next_task_id')
    BY <2>1, <2>2 DEF Whole, Below
  <2>4. Rests(L, L)
    BY <2>1 DEF Rests
  <2> QED BY <2>3, <2>4 DEF After, Moved
<1>2. ASSUME NEW p \in Priorities, CreateTask(p) PROVE After(L)
  <2>1. PICK t \in Task : t = next_task_id
    BY <1>2 DEF CreateTask
  <2>2. p \in Level
    BY SchedulerConstants DEF Level
  <2>3. PICK r : r = s'
    OBVIOUS
  <2>4. r = AddToReadyQueue(Created(s, t, p), t) /\ next_task_id' = t + 1
    BY <1>2, <2>1, <2>3 DEF CreateTask, Created
  <2>5. PICK K : Whole(r, K, Null, t + 1) /\ CreatedTasks(s, L, t, p, r, K)
    BY <2>1, <2>2, <2>4, CreateWhole
  <2> QED BY <2>2, <2>3, <2>4, <2>5 DEF After, Moved, Arrives
<1> QED BY <1>1, <1>2

(***************************************************************************)
(* SetTaskPriority (scheduler.cpp:393-400).                                *)
(***************************************************************************)
LEMMA PriorityMoves ==
  ASSUME NEW L, Whole(s, L, Null, next_task_id),
         NEW t \in Task, NEW p \in Priorities, SetTaskPriority(t, p)
  PROVE  After(L)
<1>1. p \in Level
  BY SchedulerConstants DEF Level
<1>2. PICK r : r = s'
  OBVIOUS
<1>3. r = Repriced(s, t, p) /\ next_task_id' = next_task_id
  BY <1>2 DEF SetTaskPriority, Lists, Repriced
<1>4. Whole(r, L, Null, next_task_id) /\ RepricedTasks(s, r, t, p)
  BY <1>1, <1>3, PriorityWhole
<1> QED BY <1>1, <1>2, <1>3, <1>4 DEF After, Moved, Relevels

(***************************************************************************)
(* SleepTask of the current task (scheduler.cpp:370-391).                  *)
(***************************************************************************)
LEMMA SleepMoves ==
  ASSUME NEW L, Whole(s, L, Null, next_task_id), TypeOK,
         NEW t \in Task, NEW ms \in SleepTimes, SleepTask(t, ms), t = s.current_task
  PROVE  After(L)
<1>1. PICK w \in 0 .. TickModulus - 1 : w = WakeTick(ms)
  BY WakeTyped
<1>2. PICK i : i = Idle(FallAsleep(s, t, w))
  OBVIOUS
<1>3. PICK r : r = s'
  OBVIOUS
<1>4. r = ScheduleFrom(i) /\ next_task_id' = next_task_id
  BY <1>1, <1>2, <1>3 DEF SleepTask, Lists, FallAsleep
<1>5. PICK A : A = Bedded(L, t)
  OBVIOUS
<1>6. /\ Whole(i, A, Null, next_task_id) /\ i.current_task = Null /\ i.priority = s.priority
      /\ Gains(L, t, A)
  BY <1>1, <1>2, <1>5, SleepWhole
<1>7. PICK K : Whole(r, K, Null, next_task_id) /\ Scheduled(i, A, r, K)
  BY <1>4, <1>6, ScheduleWhole
<1>8. Sleeps(L, K)
  BY <1>3, <1>5, <1>6, <1>7 DEF Sleeps, Prepared
<1> QED BY <1>3, <1>4, <1>7, <1>8 DEF After, Moved

(***************************************************************************)
(* OnTimerTick (scheduler.cpp:214-251).                                    *)
(***************************************************************************)
LEMMA TimerMoves ==
  ASSUME NEW L, Whole(s, L, Null, next_task_id), OnTimerTick
  PROVE  After(L)
<1>1. PICK slice : slice = IF s.time_slice > 0 THEN s.time_slice - 1 ELSE 0
  OBVIOUS
<1>2. slice \in 0 .. 20
  <2>1. PICK x \in 0 .. 20 : x = s.time_slice
    BY CurrentTask, StateFields
  <2> QED BY <1>1, <2>1
<1>3. PICK ticked : ticked = Sliced(s, slice)
  OBVIOUS
<1>4. PICK c : c = s.current_task
  OBVIOUS
<1>5. PICK e : e = AddToReadyQueue(GetHighestPriorityTask(ticked), c)
  OBVIOUS
<1>6. PICK r : r = s'
  OBVIOUS
<1>7. /\ next_task_id' = next_task_id
      /\ r = IF c = Null THEN s
             ELSE IF slice = 0 /\ NonEmpty(s) # {}
                  THEN Dispatch(GetHighestPriorityTask(e), HighestPriorityTask(e))
                  ELSE ticked
  BY <1>1, <1>3, <1>4, <1>5, <1>6 DEF OnTimerTick, Sliced
<1>8. /\ Whole(ticked, L, Null, next_task_id) /\ ticked.current_task = c
      /\ ticked.priority = s.priority
  BY <1>2, <1>3, <1>4, SliceWhole
<1>9. CASE c = Null
  <2>1. Rests(L, L) /\ s' = s
    BY <1>6, <1>7, <1>9 DEF Rests
  <2> QED BY <1>7, <2>1 DEF After, Moved
<1>10. CASE c # Null /\ ~(slice = 0 /\ NonEmpty(s) # {})
  <2>1. s' = ticked
    BY <1>6, <1>7, <1>10
  <2>2. Rests(L, L)
    BY <1>4, <1>8, <2>1 DEF Rests
  <2> QED BY <1>7, <1>8, <2>1, <2>2 DEF After, Moved
<1>11. CASE c # Null /\ slice = 0 /\ NonEmpty(s) # {}
  <2>1. c \in Task
    BY <1>4, <1>11, CurrentTask
  <2>2. NonEmpty(ticked) # {}
    <3>1. Rep(s, L) /\ Rep(ticked, L)
      BY <1>8 DEF Whole
    <3>2. NonEmpty(s) = NonEmpty(ticked)
      BY <3>1, TopFound
    <3> QED BY <1>11, <3>2
  <2>3. r = Dispatch(GetHighestPriorityTask(e), HighestPriorityTask(e))
    BY <1>7, <1>11
  <2>4. /\ r.priority = ticked.priority
        /\ \E A, N, K : /\ Whole(r, K, Null, next_task_id)
                        /\ Preempted(ticked, L, A, N, K, r.current_task)
    BY <1>5, <1>8, <2>1, <2>2, <2>3, TimerWhole
  <2>5. PICK A, N, K : /\ Whole(r, K, Null, next_task_id)
                       /\ Preempted(ticked, L, A, N, K, r.current_task)
    BY <2>4
  <2>6. Preempted(s, L, A, N, K, r.current_task)
    BY <1>4, <1>8, <2>5 DEF Preempted
  <2>7. Preempts(L, K)
    BY <1>4, <1>6, <1>8, <2>1, <2>4, <2>6 DEF Preempts
  <2> QED BY <1>6, <1>7, <2>5, <2>7 DEF After, Moved
<1> QED BY <1>9, <1>10, <1>11

(***************************************************************************)
(* Unblocking or resuming a task, and a sleep of a task that is not        *)
(* current (scheduler.cpp:208-212, 340-347, 370-391), link a task that is  *)
(* linked or current: only the types of the fields are kept, no task is    *)
(* made RUNNING and the CPU does not change hands.                         *)
(***************************************************************************)
LEMMA TaintMoves ==
  ASSUME TypeOK, OneRunning, NEW t \in Task,
         \/ UnblockTask(t) \/ ResumeTask(t)
         \/ \E ms \in SleepTimes : SleepTask(t, ms) /\ t # s.current_task
  PROVE  /\ s' \in State /\ OneRunning' /\ tainted' = TRUE
         /\ s'.current_task = s.current_task
<1>1. s \in State
  BY DEF TypeOK, State, Pointer, Links
<1>2. s.state \in [Task -> TaskState]
  BY <1>1, StateFields
<1>3. ASSUME NEW v, v # "RUNNING", s'.state = [s.state EXCEPT ![t] = v],
             s'.current_task = s.current_task
      PROVE  OneRunning'
  <2>1. \A u \in Task : s'.state[u] = "RUNNING" => s.state[u] = "RUNNING"
    BY <1>2, <1>3
  <2> QED BY <1>3, <2>1 DEF OneRunning
<1>4. CASE UnblockTask(t) \/ ResumeTask(t)
  <2>1. PICK r : r = s'
    OBVIOUS
  <2>2. r = AddToReadyQueue(s, t) /\ tainted' = TRUE
    BY <1>4, <2>1 DEF UnblockTask, ResumeTask, Lists
  <2>3. r \in State /\ r.current_task = s.current_task /\ r.state = [s.state EXCEPT ![t] = "READY"]
    BY <1>1, <2>2, AddTyped
  <2>4. OneRunning'
    BY <1>3, <2>1, <2>3
  <2> QED BY <2>1, <2>2, <2>3, <2>4
<1>5. ASSUME NEW ms \in SleepTimes, SleepTask(t, ms), t # s.current_task
      PROVE  /\ s' \in State /\ OneRunning' /\ tainted' = TRUE
             /\ s'.current_task = s.current_task
  <2>1. PICK w \in 0 .. TickModulus - 1 : w = WakeTick(ms)
    BY WakeTyped
  <2>2. s' = FallAsleep(s, t, w) /\ tainted' = TRUE
    BY <1>5, <2>1 DEF SleepTask, Lists, FallAsleep
  <2>3. PICK sleeps \in [Task -> 0 .. TickModulus - 1] : sleeps = [s.sleep_until EXCEPT ![t] = w]
    BY <1>1, StateFields
  <2>4. PICK states \in [Task -> TaskState] : states = [s.state EXCEPT ![t] = "SLEEPING"]
    BY <1>2 DEF TaskState
  <2>5. PICK next2 \in Links : next2 = [s.next EXCEPT ![t] = s.sleeping_tasks]
    BY <1>1, StateFields DEF Links, Pointer
  <2>6. PICK r : r = s'
    OBVIOUS
  <2>7. r = [s EXCEPT !.state = states, !.sleep_until = sleeps, !.next = next2,
                      !.sleeping_tasks = t]
    BY <2>2, <2>3, <2>4, <2>5, <2>6 DEF FallAsleep
  <2>8. r \in State /\ r.state = states /\ r.current_task = s.current_task
    BY <1>1, <2>7 DEF State, Pointer
  <2>9. OneRunning'
    BY <1>3, <2>4, <2>6, <2>8
  <2> QED BY <2>2, <2>6, <2>8, <2>9
<1> QED BY <1>4, <1>5

------------------------------------------------------------------------------
\* What a step leaves: a whole state, or a tainted one.
Outcome(L) ==
  \/ tainted' = FALSE /\ After(L)
  \/ tainted' = TRUE /\ s' \in State /\ OneRunning' /\ s'.current_task = s.current_task

(***************************************************************************)
(* Every operation of the class (scheduler.cpp:48-400), action by action.  *)
(***************************************************************************)
LEMMA StepMoves ==
  ASSUME NEW L, Whole(s, L, Null, next_task_id), TypeOK, OneRunning, Next
  PROVE  Outcome(L)
<1>1. tainted = FALSE
  BY DEF Next, TypeOK
<1>2. ASSUME NEW p \in Priorities, CreateTask(p) PROVE Outcome(L)
  <2>1. tainted' = FALSE
    BY <1>1, <1>2 DEF CreateTask
  <2> QED BY <1>2, <2>1, CreateMoves DEF Outcome
<1>3. CASE CreateTaskFails
  <2>1. tainted' = FALSE
    BY <1>1, <1>3 DEF CreateTaskFails
  <2> QED BY <1>3, <2>1, CreateMoves DEF Outcome
<1>4. CASE Schedule \/ Yield
  <2>1. tainted' = FALSE
    BY <1>1, <1>4 DEF Schedule, Yield
  <2>2. PICK q, K : /\ Whole(s', K, Null, next_task_id') /\ Scheduled(q, L, s', K)
                    /\ q.current_task = s.current_task /\ q.priority = s.priority
    BY <1>4, ScheduleMoves
  <2>3. Hands(L, K)
    BY <2>2 DEF Hands, Prepared
  <2> QED BY <2>1, <2>2, <2>3 DEF Outcome, After, Moved
<1>5. CASE TerminateCurrentTask
  <2>1. tainted' = FALSE
    BY <1>1, <1>5 DEF TerminateCurrentTask
  <2> QED BY <1>5, <2>1, KillMoves DEF Outcome
<1>6. CASE BlockCurrentTask
  <2>1. tainted' = FALSE
    BY <1>1, <1>6 DEF BlockCurrentTask
  <2> QED BY <1>6, <2>1, BlockMoves DEF Outcome
<1>7. ASSUME NEW t \in Task, UnblockTask(t) PROVE Outcome(L)
  BY <1>7, TaintMoves DEF Outcome
<1>8. CASE OnTimerTick
  <2>1. tainted' = FALSE
    BY <1>1, <1>8 DEF OnTimerTick
  <2> QED BY <1>8, <2>1, TimerMoves DEF Outcome
<1>9. CASE EnablePreemption \/ DisablePreemption
  <2>1. tainted' = FALSE /\ s' = s /\ next_task_id' = next_task_id
    BY <1>1, <1>9 DEF EnablePreemption, DisablePreemption
  <2>2. Rests(L, L)
    BY <2>1 DEF Rests
  <2> QED BY <2>1, <2>2 DEF Outcome, After, Moved
<1>10. ASSUME NEW t \in Task, SuspendTask(t) PROVE Outcome(L)
  <2>1. tainted' = FALSE
    BY <1>1, <1>10 DEF SuspendTask
  <2> QED BY <1>10, <2>1, BlockMoves DEF Outcome
<1>11. ASSUME NEW t \in Task, ResumeTask(t) PROVE Outcome(L)
  BY <1>11, TaintMoves DEF Outcome
<1>12. ASSUME NEW t \in Task, KillTask(t) PROVE Outcome(L)
  <2>1. tainted' = FALSE
    BY <1>1, <1>12 DEF KillTask
  <2> QED BY <1>12, <2>1, KillMoves DEF Outcome
<1>13. ASSUME NEW t \in Task, NEW ms \in SleepTimes, SleepTask(t, ms) PROVE Outcome(L)
  <2>1. CASE t = s.current_task
    <3>1. tainted' = FALSE
      BY <1>13, <2>1 DEF SleepTask
    <3>2. After(L)
      BY <1>13, <2>1, SleepMoves
    <3> QED BY <3>1, <3>2 DEF Outcome
  <2>2. CASE t # s.current_task
    BY <1>13, <2>2, TaintMoves DEF Outcome
  <2> QED BY <2>1, <2>2
<1>14. ASSUME NEW t \in Task, NEW p \in Priorities, SetTaskPriority(t, p) PROVE Outcome(L)
  <2>1. tainted' = FALSE
    BY <1>1, <1>14 DEF SetTaskPriority
  <2> QED BY <1>14, <2>1, PriorityMoves DEF Outcome
<1> QED BY <1>2, <1>3, <1>4, <1>5, <1>6, <1>7, <1>8, <1>9, <1>10, <1>11, <1>12, <1>13, <1>14
        DEF Next

(***************************************************************************)
(* The identifiers, the tick counter and the flag keep their types         *)
(* (scheduler.cpp:57, 217).                                                *)
(***************************************************************************)
LEMMA StepCounters ==
  ASSUME TypeOK, Next
  PROVE  /\ next_task_id' \in 1 .. MaxTasks + 1 /\ current_tick' \in 0 .. TickModulus - 1
         /\ scheduling_enabled' \in BOOLEAN
<1>1. PICK M \in Nat : M = MaxTasks
  BY SchedulerConstants
<1>2. PICK T \in Nat : T = TickModulus /\ T > 0
  BY SchedulerConstants
<1>3. /\ next_task_id \in 1 .. M + 1 /\ current_tick \in 0 .. TickModulus - 1
      /\ scheduling_enabled \in BOOLEAN
  BY <1>1 DEF TypeOK
<1>4. CASE CreateTaskFails \/ \E p \in Priorities : CreateTask(p)
  <2>1. /\ next_task_id \in 1 .. M /\ next_task_id' = next_task_id + 1
        /\ current_tick' = current_tick /\ scheduling_enabled' = scheduling_enabled
    BY <1>1, <1>4 DEF CreateTaskFails, CreateTask, Task
  <2> QED BY <1>1, <1>3, <2>1
<1>5. CASE OnTimerTick
  <2>1. /\ next_task_id' = next_task_id /\ current_tick' = (current_tick + 1) % TickModulus
        /\ scheduling_enabled' = scheduling_enabled
    BY <1>5 DEF OnTimerTick
  <2>2. current_tick + 1 \in Nat
    BY <1>2, <1>3
  <2> QED BY <1>1, <1>3, <2>1, <2>2, Wraps
<1>6. CASE EnablePreemption \/ DisablePreemption
  BY <1>1, <1>3, <1>6 DEF EnablePreemption, DisablePreemption
<1>7. CASE /\ ~(CreateTaskFails \/ \E p \in Priorities : CreateTask(p)) /\ ~OnTimerTick
           /\ ~(EnablePreemption \/ DisablePreemption)
  <2>1. UNCHANGED <<next_task_id, current_tick, scheduling_enabled>>
    BY <1>7 DEF Next, Schedule, Yield, TerminateCurrentTask, BlockCurrentTask, UnblockTask,
                SuspendTask, ResumeTask, KillTask, SleepTask, SetTaskPriority, Lists
  <2> QED BY <1>1, <1>3, <2>1
<1> QED BY <1>4, <1>5, <1>6, <1>7

(***************************************************************************)
(* The inductive invariant: the types, one running task and, up to the     *)
(* first tainting call, lists of which the fields are the links.           *)
(***************************************************************************)
SchedulerInv ==
  /\ TypeOK /\ OneRunning
  /\ ~tainted => \E L : Whole(s, L, Null, next_task_id)

(***************************************************************************)
(* The constructor (scheduler.cpp:20-34) leaves every list empty.          *)
(***************************************************************************)
LEMMA StartsEmpty ==
  ASSUME Init, NEW L, L = [a \in Lane |-> <<>>]
  PROVE  Whole(s, L, Null, next_task_id) /\ s \in State /\ \A u \in Task : s.state[u] # "RUNNING"
<1>1. 0 \in 0 .. TickModulus - 1 /\ 0 \in 0 .. 20 /\ 0 \in Level
  <2>1. PICK T \in Nat : T = TickModulus /\ T > 0
    BY SchedulerConstants
  <2> QED BY <2>1 DEF Level
<1>2. s \in State
  BY <1>1 DEF Init, State, Pointer, Links, TaskState
<1>3. \A u \in Task : s.state[u] # "RUNNING"
  BY DEF Init
<1>4. L \in [Lane -> Seq(Task)] /\ \A a \in Lane : L[a] = <<>> /\ Len(L[a]) = 0
  OBVIOUS
<1>5. Apart(L) /\ \A u : ~In(L, u)
  BY <1>4 DEF Apart, In
<1>6. /\ s.ready_queues = [p \in Level |-> Null] /\ s.ready_queue_tails = [p \in Level |-> Null]
      /\ s.sleeping_tasks = Null /\ s.current_task = Null
  BY DEF Init
<1>7. ASSUME NEW a \in Lane PROVE Chain(s.next, HeadOf(s, a), L[a])
  <2>1. HeadOf(s, a) = Null
    BY <1>6, Lanes DEF HeadOf
  <2> QED BY <1>4, <2>1 DEF Chain
<1>8. ASSUME NEW p \in Level PROVE s.ready_queue_tails[p] = TailOf(L[p])
  BY <1>4, <1>6, Lanes DEF TailOf
<1>9. Rep(s, L)
  BY <1>2, <1>4, <1>5, <1>7, <1>8 DEF Rep
<1>10. Whole(s, L, Null, next_task_id)
  BY <1>3, <1>5, <1>6, <1>9, TaskNotNull DEF Whole, Fit, Below
<1> QED BY <1>2, <1>3, <1>10

(***************************************************************************)
(* An empty scheduler satisfies the invariant.                             *)
(***************************************************************************)
LEMMA StartsWhole == Init => SchedulerInv
<1> SUFFICES ASSUME Init PROVE SchedulerInv
  OBVIOUS
<1>1. PICK M \in Nat : M = MaxTasks
  BY SchedulerConstants
<1>2. PICK T \in Nat : T = TickModulus /\ T > 0
  BY SchedulerConstants
<1>3. 0 \in 0 .. TickModulus - 1 /\ 1 \in 1 .. MaxTasks + 1
  BY <1>1, <1>2
<1>4. PICK L : L = [a \in Lane |-> <<>>]
  OBVIOUS
<1>5. Whole(s, L, Null, next_task_id) /\ s \in State /\ \A u \in Task : s.state[u] # "RUNNING"
  BY <1>4, StartsEmpty
<1>6. TypeOK
  BY <1>3, <1>5 DEF Init, TypeOK, State, Pointer, Links
<1>7. OneRunning
  BY <1>5 DEF OneRunning
<1> QED BY <1>5, <1>6, <1>7 DEF SchedulerInv

(***************************************************************************)
(* Every operation keeps the invariant.                                    *)
(***************************************************************************)
LEMMA StaysWhole == SchedulerInv /\ [Next]_vars => SchedulerInv'
<1> SUFFICES ASSUME SchedulerInv, [Next]_vars PROVE SchedulerInv'
  OBVIOUS
<1>1. TypeOK /\ OneRunning
  BY DEF SchedulerInv
<1>2. CASE Next
  <2>1. ~tainted
    BY <1>2 DEF Next
  <2>2. PICK L : Whole(s, L, Null, next_task_id)
    BY <2>1 DEF SchedulerInv
  <2>3. Outcome(L)
    BY <1>1, <1>2, <2>2, StepMoves
  <2>4. /\ next_task_id' \in 1 .. MaxTasks + 1 /\ current_tick' \in 0 .. TickModulus - 1
        /\ scheduling_enabled' \in BOOLEAN
    BY <1>1, <1>2, StepCounters
  <2>5. ASSUME s' \in State, tainted' \in BOOLEAN PROVE TypeOK'
    BY <2>4, <2>5 DEF TypeOK, State, Pointer, Links
  <2>6. CASE tainted' = TRUE /\ s' \in State /\ OneRunning'
    BY <2>5, <2>6 DEF SchedulerInv
  <2>7. CASE tainted' = FALSE /\ After(L)
    <3>1. PICK K : Whole(s', K, Null, next_task_id')
      BY <2>7 DEF After
    <3>2. Rep(s', K) /\ Fit(s', K, Null)
      BY <3>1 DEF Whole
    <3>3. s' \in State
      BY <3>2 DEF Rep
    <3>4. OneRunning'
      BY <3>2, TaskNotNull DEF Fit, OneRunning
    <3> QED BY <2>5, <2>7, <3>1, <3>3, <3>4 DEF SchedulerInv
  <2> QED BY <2>3, <2>6, <2>7 DEF Outcome
<1>3. CASE UNCHANGED vars
  <2>1. s' = s /\ next_task_id' = next_task_id /\ tainted' = tainted
    BY <1>3 DEF vars
  <2>2. TypeOK' /\ OneRunning'
    BY <1>1, <1>3 DEF vars, TypeOK, OneRunning
  <2> QED BY <2>1, <2>2 DEF SchedulerInv
<1> QED BY <1>2, <1>3

(***************************************************************************)
(* The lists keep their shape for every sequence of calls up to the first  *)
(* tainting one (scheduler.cpp:80-131, 133-261).                           *)
(***************************************************************************)
THEOREM ListsStayIntact == Spec => []ListsIntact
<1>1. SchedulerInv => ListsIntact
  <2> SUFFICES ASSUME SchedulerInv PROVE ListsIntact
    OBVIOUS
  <2>1. ASSUME ~tainted PROVE ListsEnd(s) /\ TailsCorrect(s) /\ OnePlace(s)
    <3>1. PICK L : Whole(s, L, Null, next_task_id)
      BY <2>1 DEF SchedulerInv
    <3>2. Rep(s, L)
      BY <3>1 DEF Whole
    <3>3. /\ Linked(s) = {t \in Task : In(L, t)} /\ ListsEnd(s) /\ TailsCorrect(s)
          /\ s.current_task \notin Linked(s) => OnePlace(s)
      BY <3>2, RepLists
    <3>4. s.current_task \notin Linked(s)
      <4>1. s.current_task # Null => ~In(L, s.current_task)
        BY <3>1, CurrentTask
      <4> QED BY <3>3, <4>1, TaskNotNull
    <3> QED BY <3>3, <3>4
  <2> QED BY <2>1 DEF SchedulerInv, ListsIntact
<1> QED BY <1>1, StartsWhole, StaysWhole, PTL DEF Spec

(***************************************************************************)
(* Only the current task is in state RUNNING, after every sequence of      *)
(* calls, whatever way the CPU changed hands.                              *)
(***************************************************************************)
THEOREM OneTaskRuns == Spec => []OneRunning
<1>1. SchedulerInv => OneRunning
  BY DEF SchedulerInv
<1> QED BY <1>1, StartsWhole, StaysWhole, PTL DEF Spec

------------------------------------------------------------------------------
(***************************************************************************)
(* Who gets the CPU.                                                       *)
(***************************************************************************)
\* t stands in the queue of level p, or sleeps and will join it.
Waits(L, t, p) ==
  \/ \E i \in 1 .. Len(L[p]) : L[p][i] = t
  \/ t \in ToSet(L[Sleepers]) /\ s.priority[t] = p

EmptyAbove(K, p) == \A a \in Level : a < p => Len(K[a]) = 0

(***************************************************************************)
(* The queues above the one the next task was taken from are empty.        *)
(***************************************************************************)
LEMMA TakenTop ==
  ASSUME NEW N \in [Lane -> Seq(Task)], NEW K, NEW t, t # Null, Taken(N, K, t)
  PROVE  \E p \in Level : /\ Len(N[p]) \in Nat /\ Len(N[p]) # 0 /\ t = N[p][1]
                          /\ IsTop(N, p) /\ K = With(N, p, Tail(N[p])) /\ EmptyAbove(K, p)
<1>1. PICK p \in Level : IsTop(N, p) /\ K = With(N, p, Tail(N[p])) /\ t = N[p][1]
  BY DEF Taken
<1>2. Len(N[p]) \in Nat /\ Len(N[p]) # 0
  <2>1. N[p] \in Seq(Task)
    BY Lanes
  <2> QED BY <1>1, <2>1, ListTyped DEF IsTop
<1>3. ASSUME NEW a \in Level, a < p PROVE Len(K[a]) = 0
  <2>1. a # p /\ ~(p <= a) /\ a \in Lane
    BY <1>3, Lanes DEF Level
  <2>2. Len(N[a]) = 0
    BY <1>1, <2>1 DEF IsTop
  <2>3. K[a] = N[a]
    BY <1>1, <2>1 DEF With
  <2> QED BY <2>2, <2>3
<1> QED BY <1>1, <1>2, <1>3 DEF EmptyAbove

(***************************************************************************)
(* The first of a list that one task was appended to, when it is another   *)
(* task.                                                                   *)
(***************************************************************************)
LEMMA FirstOfAppended ==
  ASSUME NEW l \in Seq(Task), NEW c \in Task, Append(l, c)[1] # c
  PROVE  1 \in 1 .. Len(l) /\ l[1] = Append(l, c)[1]
<1>1. PICK n \in Nat : n = Len(l)
  BY ListTyped
<1>2. CASE n = 0
  <2>1. Len(l) = 0
    BY <1>1, <1>2
  <2>2. l = <<>>
    BY <2>1
  <2>3. Append(<<>>, c)[1] = c
    OBVIOUS
  <2> QED BY <2>2, <2>3
<1>3. CASE n # 0
  <2>1. 1 \in 1 .. n
    BY <1>3
  <2>2. Append(l, c)[1] = l[1]
    BY <1>1, <2>1
  <2> QED BY <1>1, <2>1, <2>2
<1> QED BY <1>2, <1>3

(***************************************************************************)
(* The tasks that join a queue are sleepers of its level.                  *)
(***************************************************************************)
LEMMA JoinersSleep ==
  ASSUME NEW q, NEW tick, NEW z \in Seq(Task), NEW p, NEW g, g = Picked(z, Joins(q, tick, z, p))
  PROVE  /\ g \in Seq(Task)
         /\ \A i \in 1 .. Len(g) : g[i] \in ToSet(z) /\ q.priority[g[i]] = p
<1>1. PICK X : X = Joins(q, tick, z, p)
  OBVIOUS
<1>2. Len(z) \in 0 .. Len(z)
  BY ListTyped
<1>3. g \in Seq(Task) /\ \A i \in 1 .. Len(g) : g[i] \in X
  BY <1>1, <1>2, ChosenFrom DEF Picked
<1>4. \A u \in X : u \in ToSet(z) /\ q.priority[u] = p
  BY <1>1 DEF Joins, Due
<1> QED BY <1>3, <1>4

(***************************************************************************)
(* A task that Schedule gives the CPU to was waiting at the level it was   *)
(* taken from (scheduler.cpp:101-117, 137-161).                            *)
(***************************************************************************)
LEMMA HandTop ==
  ASSUME NEW q, NEW L, NEW tick, NEW M, NEW N, NEW K, NEW t, t # Null, t # q.current_task,
         L \in [Lane -> Seq(Task)], q.priority = s.priority,
         q.current_task # Null => q.current_task \in Task,
         Hand(q, L, tick, M, N, K, t)
  PROVE  \E p \in Level : Waits(L, t, p) /\ EmptyAbove(K, p)
<1>1. /\ \A p \in Level : M[p] = L[p] \o Picked(L[Sleepers], Joins(q, tick, L[Sleepers], p))
      /\ M \in [Lane -> Seq(Task)] /\ N \in [Lane -> Seq(Task)]
      /\ N = Requeued(q, M) /\ Taken(N, K, t)
  BY DEF Hand
<1>2. PICK p \in Level : Len(N[p]) \in Nat /\ Len(N[p]) # 0 /\ t = N[p][1] /\ EmptyAbove(K, p)
  BY <1>1, TakenTop
<1>3. 1 \in 1 .. Len(M[p]) /\ t = M[p][1]
  <2>1. CASE N[p] = M[p]
    <3>1. 1 \in 1 .. Len(N[p])
      BY <1>2
    <3> QED BY <1>2, <2>1, <3>1
  <2>2. CASE N[p] # M[p]
    <3>1. PICK c \in Task : c = q.current_task /\ GivesUp(q)
      BY <1>1, <2>2 DEF Requeued, GivesUp
    <3>2. PICK a : a = q.priority[c] /\ N = With(M, a, Append(M[a], c))
      BY <1>1, <3>1 DEF Requeued
    <3>3. p = a
      BY <1>1, <2>2, <3>2, Lanes DEF With
    <3>4. N[p] = Append(M[p], c)
      BY <1>1, <3>2, <3>3, Lanes DEF With
    <3>5. M[p] \in Seq(Task)
      BY <1>1, Lanes
    <3> QED BY <1>2, <3>1, <3>4, <3>5, FirstOfAppended
  <2> QED BY <2>1, <2>2
<1>4. PICK z \in Seq(Task), l \in Seq(Task) : z = L[Sleepers] /\ l = L[p]
  BY Lanes
<1>5. PICK g : g = Picked(z, Joins(q, tick, z, p))
  OBVIOUS
<1>6. g \in Seq(Task) /\ \A i \in 1 .. Len(g) : g[i] \in ToSet(z) /\ q.priority[g[i]] = p
  BY <1>4, <1>5, JoinersSleep
<1>7. M[p] = l \o g
  BY <1>1, <1>4, <1>5
<1>8. PICK x \in Nat : x = Len(l)
  BY <1>4, ListTyped
<1>9. PICK y \in Nat : y = Len(g)
  BY <1>6, ListTyped
<1>10. /\ Len(l \o g) = x + y /\ \A i \in 1 .. x : (l \o g)[i] = l[i]
       /\ \A i \in 1 .. y : (l \o g)[x + i] = g[i]
  BY <1>4, <1>6, <1>8, <1>9, ConcatParts
<1>11. Waits(L, t, p)
  <2>1. CASE x # 0
    <3>1. 1 \in 1 .. x
      BY <2>1
    <3>2. l[1] = t
      BY <1>3, <1>7, <1>10, <3>1
    <3> QED BY <1>4, <1>8, <3>1, <3>2 DEF Waits
  <2>2. CASE x = 0
    <3>1. 1 \in 1 .. y /\ x + 1 = 1
      BY <1>3, <1>7, <1>9, <1>10, <2>2
    <3>2. g[1] = t
      BY <1>3, <1>7, <1>10, <3>1
    <3> QED BY <1>4, <1>6, <1>9, <3>1, <3>2 DEF Waits
  <2> QED BY <2>1, <2>2
<1> QED BY <1>2, <1>11

(***************************************************************************)
(* The same of the timer's preemption (scheduler.cpp:230-248).             *)
(***************************************************************************)
LEMMA PreemptTop ==
  ASSUME NEW L \in [Lane -> Seq(Task)], NEW A, NEW N, NEW K, NEW t, s.current_task \in Task,
         t # s.current_task, Preempted(s, L, A, N, K, t)
  PROVE  \E p \in Level : Waits(L, t, p) /\ EmptyAbove(K, p)
<1>1. PICK c \in Task : c = s.current_task
  OBVIOUS
<1>2. PICK b : b = s.priority[c]
  OBVIOUS
<1>3. /\ N = With(A, b, Append(A[b], c)) /\ Taken(N, K, t) /\ t # Null
      /\ A \in [Lane -> Seq(Task)] /\ N \in [Lane -> Seq(Task)]
  BY <1>1, <1>2 DEF Preempted
<1>4. PICK a \in Level : IsTop(L, a) /\ A = With(L, a, Tail(L[a]))
  BY DEF Preempted
<1>5. PICK p \in Level : Len(N[p]) \in Nat /\ Len(N[p]) # 0 /\ t = N[p][1] /\ EmptyAbove(K, p)
  BY <1>3, TakenTop
<1>6. 1 \in 1 .. Len(A[p]) /\ t = A[p][1]
  <2>1. CASE p = b
    <3>1. N[p] = Append(A[p], c) /\ A[p] \in Seq(Task)
      BY <1>3, <2>1, Lanes DEF With
    <3> QED BY <1>1, <1>5, <3>1, FirstOfAppended
  <2>2. CASE p # b
    <3>1. N[p] = A[p]
      BY <1>3, <2>2, Lanes DEF With
    <3>2. 1 \in 1 .. Len(N[p])
      BY <1>5
    <3> QED BY <1>5, <3>1, <3>2
  <2> QED BY <2>1, <2>2
<1>7. Waits(L, t, p)
  <2>1. CASE p = a
    <3>1. PICK l \in Seq(Task) : l = L[a]
      BY Lanes
    <3>2. A[p] = Tail(l)
      BY <1>4, <2>1, <3>1, Lanes DEF With
    <3>3. Len(l) # 0
      BY <1>4, <3>1 DEF IsTop
    <3>4. PICK n \in Nat : n = Len(l) /\ n # 0
      BY <3>1, <3>3, ListTyped
    <3>5. Len(Tail(l)) = n - 1 /\ \A i \in 1 .. n - 1 : Tail(l)[i] = l[i + 1]
      BY <3>1, <3>4
    <3>6. 1 \in 1 .. n - 1 /\ 2 \in 1 .. n /\ 1 + 1 = 2
      BY <1>6, <3>2, <3>4, <3>5
    <3>7. l[2] = t
      BY <1>6, <3>2, <3>5, <3>6
    <3> QED BY <2>1, <3>1, <3>4, <3>6, <3>7 DEF Waits
  <2>2. CASE p # a
    <3>1. A[p] = L[p]
      BY <1>4, <2>2, Lanes DEF With
    <3> QED BY <1>6, <3>1 DEF Waits
  <2> QED BY <2>1, <2>2
<1> QED BY <1>5, <1>7

(***************************************************************************)
(* The level a waiting task counts for.                                    *)
(***************************************************************************)
LEMMA QueuedLevel ==
  ASSUME NEW L, Rep(s, L), NEW A \in [Lane -> Seq(Task)], Apart(A), \A a \in Level : A[a] = L[a],
         NEW t, NEW p \in Level, Waits(A, t, p)
  PROVE  QueuedAt(t) = p
<1>1. \A a \in Level : ReadyList(s, a) = A[a]
  BY RepLists
<1>2. ASSUME NEW a \in Lane
      PROVE  t \in ToSet(A[a]) <=> \E i \in 1 .. Len(A[a]) : A[a][i] = t
  <2>1. PICK l \in Seq(Task) : l = A[a]
    OBVIOUS
  <2>2. DOMAIN l = 1 .. Len(l)
    BY <2>1
  <2>3. t \in ToSet(l) <=> \E i \in 1 .. Len(l) : l[i] = t
    BY <2>2 DEF ToSet
  <2> QED BY <2>1, <2>3
<1>3. ASSUME NEW a \in Lane, NEW b \in Lane, t \in ToSet(A[a]), t \in ToSet(A[b]) PROVE a = b
  BY <1>2, <1>3 DEF Apart
<1>4. CASE t \in ToSet(A[p])
  <2>1. \A a \in Level : t \in ToSet(ReadyList(s, a)) <=> a = p
    BY <1>1, <1>3, <1>4, Lanes
  <2>2. PICK a : a = QueuedAt(t)
    OBVIOUS
  <2>3. a \in Level /\ t \in ToSet(ReadyList(s, a))
    BY <2>1, <2>2, Zenon DEF QueuedAt
  <2> QED BY <2>1, <2>2, <2>3
<1>5. CASE t \notin ToSet(A[p])
  <2>1. t \in ToSet(A[Sleepers]) /\ s.priority[t] = p
    BY <1>2, <1>5, Lanes DEF Waits
  <2>2. ~\E a \in Level : t \in ToSet(ReadyList(s, a))
    BY <1>1, <1>3, <2>1, Lanes
  <2> QED BY <2>1, <2>2, Zenon DEF QueuedAt
<1> QED BY <1>4, <1>5

(***************************************************************************)
(* A task that gets the CPU leaves no task waiting in a queue above its    *)
(* own.                                                                    *)
(***************************************************************************)
LEMMA StepPriority ==
  ASSUME SchedulerInv, Next, NEW t, t = s'.current_task, t # Null, t # s.current_task,
         NEW b \in Level, b < QueuedAt(t)
  PROVE  s'.ready_queues[b] = Null
<1>1. TypeOK /\ OneRunning /\ ~tainted
  BY DEF SchedulerInv, Next
<1>2. PICK L : Whole(s, L, Null, next_task_id)
  BY <1>1 DEF SchedulerInv
<1>3. PICK K : Whole(s', K, Null, next_task_id') /\ Moved(L, K)
  <2>1. Outcome(L)
    BY <1>1, <1>2, StepMoves
  <2> QED BY <2>1 DEF Outcome, After
<1>4. Rep(s, L) /\ Rep(s', K) /\ L \in [Lane -> Seq(Task)] /\ Apart(L)
  BY <1>2, <1>3, CurrentTask DEF Whole
<1>5. s.current_task # Null => s.current_task \in Task
  BY <1>2, CurrentTask
<1>6. ASSUME NEW A \in [Lane -> Seq(Task)], Apart(A), \A a \in Level : A[a] = L[a],
             NEW p \in Level, Waits(A, t, p), EmptyAbove(K, p)
      PROVE  s'.ready_queues[b] = Null
  <2>1. QueuedAt(t) = p
    BY <1>4, <1>6, QueuedLevel
  <2>2. Len(K[b]) = 0 /\ b \in Lane /\ b # Sleepers
    BY <1>6, <2>1, Lanes DEF EmptyAbove
  <2>3. HeadOf(s', b) = Null
    BY <1>4, <2>2, HeadNull
  <2> QED BY <2>2, <2>3 DEF HeadOf
<1>7. CASE Hands(L, K)
  <2>1. PICK q : Prepared(q) /\ Scheduled(q, L, s', K)
    BY <1>7 DEF Hands
  <2>2. /\ t # q.current_task /\ q.priority = s.priority
        /\ q.current_task # Null => q.current_task \in Task
    BY <1>5, <2>1 DEF Prepared
  <2>3. scheduling_enabled
    BY <2>1, <2>2 DEF Scheduled
  <2>4. PICK M, N : Hand(q, L, current_tick, M, N, K, t)
    BY <2>1, <2>3 DEF Scheduled
  <2>5. PICK p \in Level : Waits(L, t, p) /\ EmptyAbove(K, p)
    BY <1>4, <2>2, <2>4, HandTop
  <2> QED BY <1>4, <1>6, <2>5
<1>8. CASE Sleeps(L, K)
  <2>1. PICK A : A = Bedded(L, s.current_task)
    OBVIOUS
  <2>2. PICK q : Prepared(q) /\ q.current_task = Null /\ Scheduled(q, A, s', K)
    BY <1>8, <2>1 DEF Sleeps
  <2>3. A \in [Lane -> Seq(Task)] /\ Apart(A)
    BY <1>8, <2>1 DEF Sleeps, Gains
  <2>4. \A a \in Level : A[a] = L[a]
    BY <1>4, <2>1, Lanes DEF Bedded, With
  <2>5. scheduling_enabled
    BY <2>2 DEF Scheduled
  <2>6. PICK M, N : Hand(q, A, current_tick, M, N, K, t)
    BY <2>2, <2>5 DEF Scheduled
  <2>7. PICK p \in Level : Waits(A, t, p) /\ EmptyAbove(K, p)
    BY <2>2, <2>3, <2>6, HandTop DEF Prepared
  <2> QED BY <1>6, <2>3, <2>4, <2>7
<1>9. CASE Preempts(L, K)
  <2>1. PICK A, N : Preempted(s, L, A, N, K, t)
    BY <1>9 DEF Preempts
  <2>2. s.current_task \in Task
    BY <1>9 DEF Preempts
  <2>3. PICK p \in Level : Waits(L, t, p) /\ EmptyAbove(K, p)
    BY <1>4, <2>1, <2>2, PreemptTop
  <2> QED BY <1>4, <1>6, <2>3
<1>10. CASE Rests(L, K) \/ Arrives(L, K) \/ Relevels(L, K)
  BY <1>10 DEF Rests, Arrives, Relevels, CreatedTasks, RepricedTasks
<1> QED BY <1>3, <1>7, <1>8, <1>9, <1>10 DEF Moved

(***************************************************************************)
(* Strict priority for every sequence of calls: Schedule, the timer's      *)
(* preemption and every operation that gives up the CPU dispatch from the  *)
(* highest queue that is not empty once the due sleepers have joined       *)
(* (scheduler.cpp:101-117, 133-148, 241).                                  *)
(***************************************************************************)
THEOREM PriorityIsStrict == Spec => StrictPriority
<1>1. SchedulerInv /\ [Next]_vars
        => [LET t == s'.current_task
            IN t # Null /\ t # s.current_task
                 => \A p \in Level : p < QueuedAt(t) => s'.ready_queues[p] = Null]_vars
  BY StepPriority
<1> QED BY <1>1, StartsWhole, StaysWhole, PTL DEF Spec, StrictPriority

Joined(q, M, w) ==
  \E p \in Level : p = q.priority[w] /\ \E i \in 1 .. Len(M[p]) : M[p][i] = w

(***************************************************************************)
(* A sleeper that is no longer asleep stands in the queue of its level.    *)
(***************************************************************************)
LEMMA WokenJoin ==
  ASSUME NEW q, NEW L \in [Lane -> Seq(Task)], Apart(L), NEW tick, NEW M, NEW N, NEW K, NEW t,
         Hand(q, L, tick, M, N, K, t), NEW w, w \in ToSet(L[Sleepers]), w \notin ToSet(M[Sleepers])
  PROVE  Joined(q, M, w)
<1>1. /\ \A p \in Level : M[p] = L[p] \o Picked(L[Sleepers], Joins(q, tick, L[Sleepers], p))
      /\ M \in [Lane -> Seq(Task)] /\ SameMembers(L, M)
  BY DEF Hand
<1>2. PICK z \in Seq(Task), m \in Seq(Task) : z = L[Sleepers] /\ m = M[Sleepers]
  BY <1>1, Lanes
<1>3. \E i \in 1 .. Len(z) : z[i] = w
  <2>1. DOMAIN z = 1 .. Len(z)
    BY <1>2
  <2> QED BY <1>2, <2>1 DEF ToSet
<1>4. ~\E i \in 1 .. Len(m) : m[i] = w
  <2>1. DOMAIN m = 1 .. Len(m)
    BY <1>2
  <2> QED BY <1>2, <2>1 DEF ToSet
<1>5. In(M, w)
  <2>1. In(L, w)
    BY <1>2, <1>3, Lanes DEF In
  <2> QED BY <1>1, <2>1 DEF SameMembers
<1>6. PICK p \in Level : \E i \in 1 .. Len(M[p]) : M[p][i] = w
  BY <1>2, <1>4, <1>5, Lanes DEF In
<1>7. PICK i \in 1 .. Len(M[p]) : M[p][i] = w
  BY <1>6
<1>8. PICK l \in Seq(Task) : l = L[p]
  BY Lanes
<1>9. PICK g : g = Picked(z, Joins(q, tick, z, p))
  OBVIOUS
<1>10. g \in Seq(Task) /\ \A j \in 1 .. Len(g) : g[j] \in ToSet(z) /\ q.priority[g[j]] = p
  BY <1>2, <1>9, JoinersSleep
<1>11. M[p] = l \o g
  BY <1>1, <1>2, <1>8, <1>9
<1>12. PICK x \in Nat : x = Len(l)
  BY <1>8, ListTyped
<1>13. PICK y \in Nat : y = Len(g)
  BY <1>10, ListTyped
<1>14. /\ Len(l \o g) = x + y /\ \A j \in 1 .. x : (l \o g)[j] = l[j]
       /\ \A j \in 1 .. y : (l \o g)[x + j] = g[j]
  BY <1>8, <1>10, <1>12, <1>13, ConcatParts, SMTT(60)
<1>15. i \in 1 .. x + y
  BY <1>11, <1>14
<1>16. ~(i \in 1 .. x)
  <2>1. ASSUME i \in 1 .. x PROVE FALSE
    <3>1. l[i] = w
      BY <1>7, <1>11, <1>14, <2>1
    <3>2. PICK j \in 1 .. Len(z) : z[j] = w
      BY <1>3
    <3>3. p = Sleepers
      BY <1>2, <1>8, <1>12, <2>1, <3>1, <3>2, Lanes DEF Apart
    <3> QED BY <3>3, Lanes
  <2> QED BY <2>1
<1>17. PICK j \in 1 .. y : i = x + j
  <2>1. i - x \in 1 .. y /\ i = x + (i - x)
    BY <1>15, <1>16
  <2> QED BY <2>1
<1>18. g[j] = w
  BY <1>7, <1>11, <1>14, <1>17
<1>19. q.priority[w] = p
  BY <1>10, <1>13, <1>17, <1>18
<1> QED BY <1>6, <1>19 DEF Joined

(***************************************************************************)
(* If the CPU stays with the task that gave it up, that task was alone in  *)
(* its queue, and no queue above had a task.                               *)
(***************************************************************************)
LEMMA HandBack ==
  ASSUME NEW q, NEW L, NEW tick, NEW M, NEW N, NEW K, NEW t \in Task, t = q.current_task,
         ~In(L, t), q.priority[t] \in Level, Hand(q, L, tick, M, N, K, t)
  PROVE  /\ Len(M[q.priority[t]]) = 0
         /\ \A p \in Level : Len(M[p]) # 0 => q.priority[t] <= p
<1>1. /\ M \in [Lane -> Seq(Task)] /\ N \in [Lane -> Seq(Task)] /\ Apart(N)
      /\ N = Requeued(q, M) /\ Taken(N, K, t)
      /\ \A u : In(N, u) <=> In(L, u) \/ (u = q.current_task /\ GivesUp(q))
      /\ In(N, t)
  BY TaskNotNull DEF Hand
<1>2. GivesUp(q)
  BY <1>1
<1>3. PICK b \in Level : b = q.priority[t]
  OBVIOUS
<1>4. N = With(M, b, Append(M[b], t))
  BY <1>1, <1>2, <1>3 DEF Requeued
<1>5. PICK p \in Level : Len(N[p]) \in Nat /\ Len(N[p]) # 0 /\ t = N[p][1] /\ IsTop(N, p)
  BY <1>1, TaskNotNull, TakenTop
<1>6. PICK l \in Seq(Task) : l = M[b]
  BY <1>1, Lanes
<1>7. PICK n \in Nat : n = Len(l)
  BY <1>6, ListTyped
<1>8. N[b] = Append(l, t) /\ \A a \in Level : a # b => N[a] = M[a]
  BY <1>1, <1>4, <1>6, Lanes DEF With
<1>9. Len(Append(l, t)) = n + 1 /\ Append(l, t)[n + 1] = t
  BY <1>6, <1>7
<1>10. p = b /\ 1 = n + 1
  <2>1. 1 \in 1 .. Len(N[p]) /\ n + 1 \in 1 .. Len(N[b]) /\ N[b][n + 1] = t
    BY <1>5, <1>7, <1>8, <1>9
  <2> QED BY <1>1, <1>5, <2>1, Lanes DEF Apart
<1>11. Len(M[b]) = 0
  BY <1>6, <1>7, <1>10
<1>12. ASSUME NEW a \in Level, Len(M[a]) # 0 PROVE b <= a
  BY <1>5, <1>8, <1>10, <1>11, <1>12 DEF IsTop
<1> QED BY <1>3, <1>11, <1>12

(***************************************************************************)
(* What Schedule and Yield owe the sleepers (scheduler.cpp:137-143).       *)
(***************************************************************************)
LEMMA StepWoken ==
  ASSUME SchedulerInv, ~tainted, Schedule \/ Yield, NEW t, t = s.current_task, t # Null,
         s'.current_task = t, NEW w \in ToSet(SleepList(s)) \ ToSet(SleepList(s'))
  PROVE  s.priority[w] > s.priority[t]
<1>1. PICK L : Whole(s, L, Null, next_task_id)
  BY DEF SchedulerInv
<1>2. PICK q, K : /\ Whole(s', K, Null, next_task_id') /\ Scheduled(q, L, s', K)
                  /\ q.current_task = s.current_task /\ q.priority = s.priority
  BY <1>1, ScheduleMoves
<1>3. /\ Rep(s, L) /\ Rep(s', K) /\ L \in [Lane -> Seq(Task)] /\ Apart(L) /\ s \in State
      /\ t \in Task /\ ~In(L, t)
  BY <1>1, <1>2, CurrentTask DEF Whole
<1>4. SleepList(s) = L[Sleepers] /\ SleepList(s') = K[Sleepers]
  BY <1>3, RepLists
<1>5. CASE ~scheduling_enabled
  BY <1>2, <1>4, <1>5 DEF Scheduled
<1>6. CASE scheduling_enabled
  <2>1. PICK M, N : Hand(q, L, current_tick, M, N, K, t)
    BY <1>2, <1>6 DEF Scheduled
  <2>2. PICK b \in Level : b = q.priority[t]
    BY <1>2, <1>3, StateFields
  <2>3. Len(M[b]) = 0 /\ \A p \in Level : Len(M[p]) # 0 => b <= p
    BY <1>2, <1>3, <2>1, <2>2, HandBack
  <2>4. K[Sleepers] = M[Sleepers]
    <3>1. /\ N = Requeued(q, M) /\ M \in [Lane -> Seq(Task)] /\ N \in [Lane -> Seq(Task)]
          /\ Taken(N, K, t)
      BY <2>1 DEF Hand
    <3>2. N[Sleepers] = M[Sleepers]
      <4>1. N = M \/ N = With(M, b, Append(M[b], t))
        BY <1>2, <2>2, <3>1 DEF Requeued
      <4> QED BY <3>1, <4>1, Lanes DEF With
    <3>3. PICK p \in Level : K = With(N, p, Tail(N[p]))
      BY <1>3, <3>1, TaskNotNull DEF Taken
    <3>4. K[Sleepers] = N[Sleepers]
      BY <3>1, <3>3, Lanes DEF With
    <3> QED BY <3>2, <3>4
  <2>5. w \in ToSet(L[Sleepers]) /\ w \notin ToSet(M[Sleepers])
    BY <1>4, <2>4
  <2>6. PICK p \in Level : p = q.priority[w] /\ \E i \in 1 .. Len(M[p]) : M[p][i] = w
    <3>1. Joined(q, M, w)
      BY <1>3, <2>1, <2>5, WokenJoin
    <3> QED BY <3>1 DEF Joined
  <2>7. Len(M[p]) # 0
    <3>1. \A i \in 1 .. 0 : FALSE
      OBVIOUS
    <3> QED BY <2>6, <3>1
  <2>8. b <= p /\ b # p
    BY <2>3, <2>7
  <2> QED BY <1>2, <2>2, <2>6, <2>8 DEF Level
<1> QED BY <1>5, <1>6

(***************************************************************************)
(* Sleepers that are due join the queues before the task that gives up the *)
(* CPU does (scheduler.cpp:137-143): a Schedule or Yield that leaves the   *)
(* CPU to its caller has woken only tasks of lower levels.                 *)
(***************************************************************************)
THEOREM WokenJoinFirst == Spec => WokenGoFirst
<1>1. SchedulerInv /\ [Next]_vars
        => [LET t == s.current_task
            IN (Schedule \/ Yield) /\ t # Null /\ s'.current_task = t
                 => \A w \in ToSet(SleepList(s)) \ ToSet(SleepList(s')) :
                      s.priority[w] > s.priority[t]]_vars
  BY StepWoken DEF Next
<1> QED BY <1>1, StartsWhole, StaysWhole, PTL DEF Spec, WokenGoFirst

------------------------------------------------------------------------------
(***************************************************************************)
(* The run queues the lists stand for.                                     *)
(***************************************************************************)
Ready(L) == [p \in Level |-> L[p]]

(***************************************************************************)
(* RunQueues' Among chooses as Picked does: both follow the same recursion.*)
(***************************************************************************)
LEMMA AmongPicked ==
  ASSUME NEW z \in Seq(Task), NEW W
  PROVE  Abstract!Among(z, W) = Picked(z, W)
<1>1. PICK n \in Nat : n = Len(z)
  BY ListTyped
<1> DEFINE Rec(f) == f = [k \in 0 .. n |->
                            IF k = 0 THEN <<>>
                            ELSE IF z[k] \in W THEN Append(f[k - 1], z[k]) ELSE f[k - 1]]
           found == CHOOSE f : Rec(f)
<1>2. PICK g : g = Chosen(z, W)
  OBVIOUS
<1>3. /\ g \in [0 .. n -> Seq(Task)] /\ g[0] = <<>>
      /\ \A k \in 1 .. n : g[k] = IF z[k] \in W THEN Append(g[k - 1], z[k]) ELSE g[k - 1]
  BY <1>1, <1>2, ChosenDefined, SMTT(30) DEF ChosenUpTo
<1>4. Rec(g)
  <2>1. ASSUME NEW k \in 0 .. n
        PROVE  g[k] = IF k = 0 THEN <<>>
                      ELSE IF z[k] \in W THEN Append(g[k - 1], z[k]) ELSE g[k - 1]
    <3>1. k # 0 => k \in 1 .. n
      OBVIOUS
    <3> QED BY <1>3, <3>1
  <2>2. g = [k \in 0 .. n |-> g[k]]
    BY <1>3
  <2> QED BY <2>1, <2>2
<1>5. Rec(found)
  BY <1>4
<1>6. Abstract!Among(z, W) = found[n]
  BY <1>1 DEF Abstract!Among
<1> HIDE DEF found
<1>7. \A k \in 0 .. n : found[k] = g[k]
  <2> DEFINE T == {k \in 0 .. n : found[k] # g[k]}
  <2> SUFFICES ASSUME T # {} PROVE FALSE
    OBVIOUS
  <2>1. T \subseteq Nat
    OBVIOUS
  <2>2. PICK m \in T : \A i \in T : m <= i
    BY <2>1, MinimumExists, Zenon
  <2>3. m # 0
    BY <1>4, <1>5
  <2>4. m - 1 \in 0 .. n /\ m - 1 \notin T /\ m \in 0 .. n
    BY <2>2, <2>3
  <2>5. found[m - 1] = g[m - 1]
    BY <2>4
  <2>6. found[m] = g[m]
    BY <1>4, <1>5, <2>3, <2>4, <2>5
  <2> QED BY <2>2, <2>6
<1>8. n \in 0 .. n
  BY <1>1
<1> QED BY <1>1, <1>2, <1>6, <1>7, <1>8 DEF Picked

\* The non-empty levels and the highest of them, as RunQueues names them.
Full(R) == {p \in Level : R[p] # <<>>}

Top(R) == CHOOSE p \in Full(R) : \A r \in Full(R) : p <= r

(***************************************************************************)
(* RunQueues chooses the level the lists' highest non-empty queue is at.   *)
(***************************************************************************)
LEMMA TopIs ==
  ASSUME NEW N \in [Lane -> Seq(Task)], NEW p, IsTop(N, p), NEW R, R = Ready(N)
  PROVE  Full(R) # {} /\ Top(R) = p /\ p \in Level /\ R[p] = N[p]
<1>1. \A a \in Level : R[a] = N[a]
  BY DEF Ready
<1>2. \A a \in Level : N[a] # <<>> <=> Len(N[a]) # 0
  <2>1. ASSUME NEW a \in Level PROVE N[a] # <<>> <=> Len(N[a]) # 0
    <3>1. PICK l \in Seq(Task) : l = N[a]
      BY Lanes
    <3>2. l # <<>> <=> Len(l) # 0
      BY <3>1
    <3> QED BY <3>1, <3>2
  <2> QED BY <2>1
<1>3. \A a : a \in Full(R) <=> a \in Level /\ Len(N[a]) # 0
  BY <1>1, <1>2 DEF Full
<1>4. p \in Full(R) /\ \A a \in Full(R) : p <= a
  BY <1>3 DEF IsTop
<1>5. PICK b : b = Top(R)
  OBVIOUS
<1>6. b \in Full(R) /\ \A a \in Full(R) : b <= a
  BY <1>4, <1>5 DEF Top
<1>7. b = p
  <2>1. b \in Int /\ p \in Int /\ b <= p /\ p <= b
    BY <1>3, <1>4, <1>6 DEF Level
  <2> QED BY <2>1
<1> QED BY <1>1, <1>4, <1>5, <1>7 DEF IsTop

(***************************************************************************)
(* With all queues empty RunQueues finds no level to choose.               *)
(***************************************************************************)
LEMMA NoneFull ==
  ASSUME NEW N \in [Lane -> Seq(Task)], \A p \in Level : Len(N[p]) = 0, NEW R, R = Ready(N)
  PROVE  Full(R) = {}
<1>1. ASSUME NEW a \in Level PROVE R[a] = <<>>
  <2>1. PICK l \in Seq(Task) : l = N[a]
    BY Lanes
  <2>2. Len(l) = 0
    BY <2>1
  <2>3. l = <<>>
    BY <2>1, <2>2
  <2> QED BY <2>1, <2>3 DEF Ready
<1> QED BY <1>1 DEF Full

(***************************************************************************)
(* Replacing the queue of one level.                                       *)
(***************************************************************************)
LEMMA ReadyWith ==
  ASSUME NEW N \in [Lane -> Seq(Task)], NEW p \in Level, NEW l
  PROVE  Ready(With(N, p, l)) = [Ready(N) EXCEPT ![p] = l]
<1>1. p \in Lane
  BY Lanes
<1>2. \A a \in Level : With(N, p, l)[a] = IF a = p THEN l ELSE N[a]
  BY <1>1, Lanes DEF With
<1> QED BY <1>2 DEF Ready

(***************************************************************************)
(* How the record looks to RunQueues.                                      *)
(***************************************************************************)
LEMMA Mapped ==
  ASSUME NEW q, NEW L, Rep(q, L)
  PROVE  [p \in Level |-> ReadyList(q, p)] = Ready(L) /\ SleepList(q) = L[Sleepers]
<1>1. SleepList(q) = L[Sleepers] /\ \A p \in Level : ReadyList(q, p) = L[p]
  BY RepLists
<1> QED BY <1>1 DEF Ready

(***************************************************************************)
(* Taking the next task is RunQueues' TakeHead.                            *)
(***************************************************************************)
LEMMA TakesHead ==
  ASSUME NEW N \in [Lane -> Seq(Task)], NEW K, Rep(s', K), Taken(N, K, s'.current_task)
  PROVE  Abstract!TakeHead(Ready(N))
<1>1. PICK R : R = Ready(N)
  OBVIOUS
<1>2. [p \in Level |-> ReadyList(s', p)] = Ready(K)
  BY Mapped
<1>3. Abstract!TakeHead(R) <=>
        IF Full(R) = {}
        THEN s'.current_task = Null /\ [p \in Level |-> ReadyList(s', p)] = R
        ELSE /\ s'.current_task = Head(R[Top(R)])
             /\ [p \in Level |-> ReadyList(s', p)] = [R EXCEPT ![Top(R)] = Tail(@)]
  BY DEF Abstract!TakeHead, Full, Top
<1>4. CASE (\A p \in Level : Len(N[p]) = 0) /\ K = N /\ s'.current_task = Null
  <2>1. Full(R) = {}
    BY <1>1, <1>4, NoneFull
  <2> QED BY <1>1, <1>2, <1>3, <1>4, <2>1
<1>5. ASSUME NEW p \in Level, IsTop(N, p), K = With(N, p, Tail(N[p])), s'.current_task = N[p][1]
      PROVE  Abstract!TakeHead(R)
  <2>1. Full(R) # {} /\ Top(R) = p /\ R[p] = N[p]
    BY <1>1, <1>5, TopIs
  <2>2. Head(R[p]) = N[p][1]
    BY <2>1
  <2>3. Ready(K) = [R EXCEPT ![p] = Tail(N[p])]
    BY <1>1, <1>5, ReadyWith
  <2>4. [R EXCEPT ![p] = Tail(N[p])] = [R EXCEPT ![p] = Tail(@)]
    BY <2>1
  <2> QED BY <1>2, <1>3, <1>5, <2>1, <2>2, <2>3, <2>4
<1> QED BY <1>1, <1>4, <1>5 DEF Taken

\* The sleepers z that are due have joined the queues of L.
Wakes(q, L, tick, z, M) ==
  /\ M \in [Lane -> Seq(Task)]
  /\ \A p \in Level : M[p] = L[p] \o Picked(z, Joins(q, tick, z, p))
  /\ M[Sleepers] = Picked(z, Stays(q, tick, z))

(***************************************************************************)
(* RunQueues has its own instance of the operator ToSet.                   *)
(***************************************************************************)
LEMMA SameSets ==
  ASSUME NEW z
  PROVE  Abstract!ToSet(z) = ToSet(z)
BY DEF ToSet, Abstract!ToSet

(***************************************************************************)
(* Waking is RunQueues' Awake and Asleep, with the due sleepers as W.      *)
(***************************************************************************)
LEMMA WakesAs ==
  ASSUME NEW L, Rep(s, L), NEW q, q.priority = s.priority, NEW tick, NEW z \in Seq(Task),
         NEW M, Wakes(q, L, tick, z, M), NEW W, W = Due(q, tick, z)
  PROVE  /\ W \in SUBSET ToSet(z)
         /\ Abstract!Awake(z, W) = Ready(M) /\ Abstract!Asleep(z, W) = M[Sleepers]
<1>1. W \in SUBSET ToSet(z)
  BY DEF Due
<1>2. Abstract!Asleep(z, W) = M[Sleepers]
  <2>1. PICK X : X = ToSet(z) \ W /\ X = Stays(q, tick, z)
    BY DEF Stays
  <2>2. Abstract!Asleep(z, W) = Abstract!Among(z, X)
    BY <2>1, SameSets DEF Abstract!Asleep
  <2>3. Abstract!Among(z, X) = Picked(z, X)
    BY AmongPicked
  <2> QED BY <2>1, <2>2, <2>3 DEF Wakes
<1>3. ASSUME NEW p \in Level
      PROVE  [a \in Level |-> ReadyList(s, a)][p] \o Abstract!Among(z, {t \in W : s.priority[t] = p})
               = M[p]
  <2>1. {t \in W : s.priority[t] = p} = Joins(q, tick, z, p)
    BY DEF Joins
  <2>2. Abstract!Among(z, Joins(q, tick, z, p)) = Picked(z, Joins(q, tick, z, p))
    BY AmongPicked
  <2>3. ReadyList(s, p) = L[p]
    BY RepLists
  <2>4. M[p] = L[p] \o Picked(z, Joins(q, tick, z, p))
    BY DEF Wakes
  <2> QED BY <2>1, <2>2, <2>3, <2>4
<1>4. Abstract!Awake(z, W) = [p \in Level |-> M[p]]
  BY <1>3 DEF Abstract!Awake
<1> QED BY <1>1, <1>2, <1>4 DEF Ready

(***************************************************************************)
(* The sleepers are not touched when the next task is taken.               *)
(***************************************************************************)
LEMMA TakenSleepers ==
  ASSUME NEW N \in [Lane -> Seq(Task)], NEW K, NEW t, Taken(N, K, t)
  PROVE  K[Sleepers] = N[Sleepers]
<1>1. K = N \/ \E p \in Level : K = With(N, p, Tail(N[p]))
  BY DEF Taken
<1> QED BY <1>1, Lanes DEF With

(***************************************************************************)
(* Every hand-over of the CPU is one of RunQueues' switches.               *)
(***************************************************************************)
LEMMA HandsAbstract ==
  ASSUME NEW L, NEW K, Whole(s, L, Null, next_task_id), Rep(s', K), Hands(L, K),
         tainted' = tainted
  PROVE  [Abstract!Next]_Abstract!vars
<1>1. Rep(s, L) /\ L \in [Lane -> Seq(Task)] /\ s \in State
  BY CurrentTask DEF Whole
<1>2. PICK q : Prepared(q) /\ Scheduled(q, L, s', K)
  BY DEF Hands
<1>3. /\ q.priority = s.priority /\ s'.priority = s.priority
      /\ q.current_task \in {s.current_task, Null}
  BY <1>2 DEF Prepared, Scheduled
<1>4. /\ [p \in Level |-> ReadyList(s, p)] = Ready(L) /\ SleepList(s) = L[Sleepers]
      /\ [p \in Level |-> ReadyList(s', p)] = Ready(K) /\ SleepList(s') = K[Sleepers]
  BY <1>1, Mapped
<1>5. CASE ~scheduling_enabled
  <2>1. K = L /\ s'.current_task = q.current_task
    BY <1>2, <1>5 DEF Scheduled
  <2>2. CASE q.current_task = s.current_task
    BY <1>3, <1>4, <2>1, <2>2 DEF Abstract!vars
  <2>3. CASE q.current_task = Null
    <3>1. Abstract!Vacate
      BY <1>3, <1>4, <2>1, <2>3 DEF Abstract!Vacate
    <3> QED BY <3>1 DEF Abstract!Next
  <2> QED BY <1>3, <2>2, <2>3
<1>6. CASE scheduling_enabled
  <2>1. PICK M, N : Hand(q, L, current_tick, M, N, K, s'.current_task)
    BY <1>2, <1>6 DEF Scheduled
  <2>2. PICK z \in Seq(Task) : z = L[Sleepers]
    BY <1>1, Lanes
  <2>3. /\ Wakes(q, L, current_tick, z, M)
        /\ M \in [Lane -> Seq(Task)] /\ N \in [Lane -> Seq(Task)]
        /\ N = Requeued(q, M) /\ Taken(N, K, s'.current_task)
    BY <2>1, <2>2 DEF Hand, Wakes
  <2>4. PICK W : W = Due(q, current_tick, z)
    OBVIOUS
  <2>5. /\ W \in SUBSET ToSet(z)
        /\ Abstract!Awake(z, W) = Ready(M) /\ Abstract!Asleep(z, W) = M[Sleepers]
    BY <1>1, <1>3, <2>2, <2>3, <2>4, WakesAs
  <2>6. Abstract!TakeHead(Ready(N)) /\ K[Sleepers] = N[Sleepers]
    BY <2>3, TakesHead, TakenSleepers
  <2>7. CASE GivesUp(q)
    <3>1. PICK c \in Task : c = q.current_task /\ c = s.current_task
      <4>1. q.current_task = s.current_task /\ s.current_task # Null
        BY <1>3, <2>7 DEF GivesUp
      <4> QED BY <4>1, CurrentTask
    <3>2. PICK b \in Level : b = s.priority[c]
      BY <1>1, StateFields
    <3>3. N = With(M, b, Append(M[b], c))
      BY <1>3, <2>3, <2>7, <3>1, <3>2 DEF Requeued
    <3>4. N[Sleepers] = M[Sleepers]
      BY <2>3, <3>3, Lanes DEF With
    <3>5. Ready(N) = [Ready(M) EXCEPT ![b] = Append(@, c)]
      <4>1. Ready(N) = [Ready(M) EXCEPT ![b] = Append(M[b], c)]
        <5>1. PICK l : l = Append(M[b], c)
          OBVIOUS
        <5>2. Ready(With(M, b, l)) = [Ready(M) EXCEPT ![b] = l]
          BY <2>3, ReadyWith
        <5> QED BY <3>3, <5>1, <5>2
      <4>2. Ready(M)[b] = M[b]
        BY DEF Ready
      <4> QED BY <4>1, <4>2
    <3>6. Abstract!TakeHead([Abstract!Awake(SleepList(s), W)
                               EXCEPT ![s.priority[s.current_task]] = Append(@, s.current_task)])
      BY <1>4, <2>2, <2>5, <2>6, <3>1, <3>2, <3>5
    <3>7. SleepList(s') = Abstract!Asleep(SleepList(s), W)
      BY <1>4, <2>2, <2>5, <2>6, <3>4
    <3>8. s.current_task # Null
      BY <3>1, TaskNotNull
    <3>9. W \in SUBSET Abstract!ToSet(SleepList(s)) /\ UNCHANGED <<s.priority, tainted>>
      BY <1>3, <1>4, <2>2, <2>5, SameSets
    <3>10. Abstract!SwitchRequeue
      BY <3>6, <3>7, <3>8, <3>9, Zenon DEF Abstract!SwitchRequeue
    <3> QED BY <3>10 DEF Abstract!Next
  <2>8. CASE ~GivesUp(q)
    <3>1. N = M
      BY <2>3, <2>8 DEF Requeued
    <3>2. Abstract!TakeHead(Abstract!Awake(SleepList(s), W))
      BY <1>4, <2>2, <2>5, <2>6, <3>1
    <3>3. SleepList(s') = Abstract!Asleep(SleepList(s), W)
      BY <1>4, <2>2, <2>5, <2>6, <3>1
    <3>4. W \in SUBSET Abstract!ToSet(SleepList(s)) /\ UNCHANGED <<s.priority, tainted>>
      BY <1>3, <1>4, <2>2, <2>5, SameSets
    <3>5. Abstract!SwitchLeave
      BY <3>2, <3>3, <3>4, Zenon DEF Abstract!SwitchLeave
    <3> QED BY <3>5 DEF Abstract!Next
  <2> QED BY <2>7, <2>8
<1> QED BY <1>5, <1>6

(***************************************************************************)
(* A sleep of the current task is RunQueues' SwitchSleep.                  *)
(***************************************************************************)
LEMMA SleepsAbstract ==
  ASSUME NEW L, NEW K, Whole(s, L, Null, next_task_id), Rep(s', K), Sleeps(L, K),
         tainted' = tainted
  PROVE  Abstract!SwitchSleep
<1>1. Rep(s, L) /\ L \in [Lane -> Seq(Task)] /\ s \in State
  BY CurrentTask DEF Whole
<1>2. PICK c \in Task : c = s.current_task
  BY DEF Sleeps
<1>3. PICK A : A = Bedded(L, c)
  OBVIOUS
<1>4. PICK q : Prepared(q) /\ q.current_task = Null /\ Scheduled(q, A, s', K)
  BY <1>2, <1>3 DEF Sleeps
<1>5. q.priority = s.priority /\ s'.priority = s.priority
  BY <1>4 DEF Prepared, Scheduled
<1>6. A \in [Lane -> Seq(Task)]
  BY <1>2, <1>3 DEF Sleeps, Gains
<1>7. PICK z \in Seq(Task) : z = A[Sleepers]
  BY <1>6, Lanes
<1>8. z = <<s.current_task>> \o SleepList(s) /\ \A p \in Level : A[p] = L[p]
  <2>1. SleepList(s) = L[Sleepers]
    BY <1>1, RepLists
  <2> QED BY <1>1, <1>2, <1>3, <1>7, <2>1, Lanes DEF Bedded, With
<1>9. /\ [p \in Level |-> ReadyList(s, p)] = Ready(L)
      /\ [p \in Level |-> ReadyList(s', p)] = Ready(K) /\ SleepList(s') = K[Sleepers]
  BY <1>1, Mapped
<1>10. s.current_task # Null
  BY <1>2, TaskNotNull
<1>11. CASE ~scheduling_enabled
  <2>1. K = A /\ s'.current_task = Null
    BY <1>4, <1>11 DEF Scheduled
  <2>2. Ready(K) = Ready(L)
    BY <1>8, <2>1 DEF Ready
  <2>3. SleepList(s') = <<s.current_task>> \o SleepList(s)
    BY <1>7, <1>8, <1>9, <2>1
  <2>4. [p \in Level |-> ReadyList(s', p)] = [p \in Level |-> ReadyList(s, p)]
    BY <1>9, <2>2
  <2> QED BY <1>5, <1>10, <2>1, <2>3, <2>4 DEF Abstract!SwitchSleep
<1>12. CASE scheduling_enabled
  <2>1. PICK M, N : Hand(q, A, current_tick, M, N, K, s'.current_task)
    BY <1>4, <1>12 DEF Scheduled
  <2>2. /\ Wakes(q, L, current_tick, z, M)
        /\ M \in [Lane -> Seq(Task)] /\ N \in [Lane -> Seq(Task)]
        /\ N = Requeued(q, M) /\ Taken(N, K, s'.current_task)
    BY <1>7, <1>8, <2>1 DEF Hand, Wakes
  <2>3. N = M
    BY <1>4, <2>2 DEF Requeued, GivesUp
  <2>4. PICK W : W = Due(q, current_tick, z)
    OBVIOUS
  <2>5. /\ W \in SUBSET ToSet(z)
        /\ Abstract!Awake(z, W) = Ready(M) /\ Abstract!Asleep(z, W) = M[Sleepers]
    BY <1>1, <1>5, <1>7, <2>2, <2>4, WakesAs
  <2>6. Abstract!TakeHead(Ready(N)) /\ K[Sleepers] = N[Sleepers]
    BY <2>2, TakesHead, TakenSleepers
  <2>7. PICK y : y = <<s.current_task>> \o SleepList(s) /\ y = z
    BY <1>8
  <2>8. /\ W \in SUBSET Abstract!ToSet(y) /\ Abstract!TakeHead(Abstract!Awake(y, W))
        /\ SleepList(s') = Abstract!Asleep(y, W)
    BY SameSets, <1>9, <2>3, <2>5, <2>6, <2>7
  <2>9. UNCHANGED <<s.priority, tainted>>
    BY <1>5
  <2> QED BY <1>10, <2>7, <2>8, <2>9, Zenon DEF Abstract!SwitchSleep
<1> QED BY <1>11, <1>12

(***************************************************************************)
(* A preemption by the timer drops the head of the highest queue.          *)
(***************************************************************************)
LEMMA PreemptsAbstract ==
  ASSUME NEW L, NEW K, Whole(s, L, Null, next_task_id), Rep(s', K), Preempts(L, K),
         tainted' = tainted
  PROVE  TickDropsHead
<1>1. Rep(s, L) /\ L \in [Lane -> Seq(Task)] /\ s \in State
  BY CurrentTask DEF Whole
<1>2. PICK c \in Task : c = s.current_task
  BY DEF Preempts
<1>3. PICK b \in Level : b = s.priority[c]
  BY <1>1, StateFields
<1>4. PICK A, N : Preempted(s, L, A, N, K, s'.current_task)
  BY DEF Preempts
<1>5. /\ N = With(A, b, Append(A[b], c)) /\ Taken(N, K, s'.current_task)
      /\ A \in [Lane -> Seq(Task)] /\ N \in [Lane -> Seq(Task)]
  BY <1>2, <1>3, <1>4 DEF Preempted
<1>6. PICK a \in Level : IsTop(L, a) /\ A = With(L, a, Tail(L[a]))
  BY <1>4 DEF Preempted
<1>7. PICK R : R = Ready(L)
  OBVIOUS
<1>8. R = [p \in Level |-> ReadyList(s, p)] /\ SleepList(s) = L[Sleepers] /\ SleepList(s') = K[Sleepers]
  BY <1>1, <1>7, Mapped
<1>9. Full(R) # {} /\ Top(R) = a /\ R[a] = L[a]
  BY <1>1, <1>6, <1>7, TopIs
<1>10. Ready(A) = [R EXCEPT ![Top(R)] = Tail(@)]
  <2>1. Ready(A) = [R EXCEPT ![a] = Tail(L[a])]
    BY <1>1, <1>6, <1>7, ReadyWith
  <2> QED BY <1>9, <2>1
<1>11. Ready(N) = [Ready(A) EXCEPT ![b] = Append(@, c)]
  <2>1. Ready(N) = [Ready(A) EXCEPT ![b] = Append(A[b], c)]
    BY <1>5, ReadyWith
  <2>2. Ready(A)[b] = A[b]
    BY DEF Ready
  <2> QED BY <2>1, <2>2
<1>12. Abstract!TakeHead(Ready(N))
  BY <1>5, TakesHead
<1>13. Abstract!TakeHead([[R EXCEPT ![Top(R)] = Tail(@)]
                            EXCEPT ![s.priority[s.current_task]] = Append(@, s.current_task)])
  BY <1>2, <1>3, <1>10, <1>11, <1>12
<1>14. OnTimerTick /\ s.current_task # Null /\ s'.priority = s.priority
  BY <1>2, TaskNotNull DEF Preempts
<1>15. SleepList(s') = SleepList(s)
  <2>1. K[Sleepers] = N[Sleepers]
    BY <1>5, TakenSleepers
  <2>2. N[Sleepers] = A[Sleepers] /\ A[Sleepers] = L[Sleepers]
    BY <1>1, <1>5, <1>6, Lanes DEF With
  <2> QED BY <1>8, <2>1, <2>2
<1> QED BY <1>8, <1>9, <1>13, <1>14, <1>15 DEF TickDropsHead, Full, Top

(***************************************************************************)
(* A new task (scheduler.cpp:48-77) is RunQueues' Arrive: it is nowhere    *)
(* else.                                                                   *)
(***************************************************************************)
LEMMA ArrivesAbstract ==
  ASSUME NEW L, NEW K, Whole(s, L, Null, next_task_id), Rep(s', K), Arrives(L, K),
         tainted' = tainted
  PROVE  Abstract!Next
<1>1. Rep(s, L) /\ L \in [Lane -> Seq(Task)]
  BY CurrentTask DEF Whole
<1>2. PICK t \in Task, p \in Level : CreatedTasks(s, L, t, p, s', K)
  BY DEF Arrives
<1>3. PICK R : R = [a \in Level |-> ReadyList(s, a)]
  OBVIOUS
<1>4. /\ R = Ready(L) /\ SleepList(s) = L[Sleepers]
      /\ [a \in Level |-> ReadyList(s', a)] = Ready(K) /\ SleepList(s') = K[Sleepers]
  BY <1>1, <1>3, Mapped
<1>5. ASSUME NEW a \in Lane PROVE t \notin ToSet(L[a])
  <2>1. PICK l \in Seq(Task) : l = L[a]
    BY <1>1
  <2>2. ToSet(l) = {l[i] : i \in 1 .. Len(l)}
    BY DEF ToSet
  <2>3. ~In(L, t)
    BY <1>2 DEF CreatedTasks
  <2> QED BY <2>1, <2>2, <2>3 DEF In
<1>6. t \notin Abstract!ToSet(SleepList(s)) /\ t # s.current_task
  BY <1>2, <1>4, <1>5, Lanes, SameSets DEF CreatedTasks
<1>7. ASSUME NEW a \in Level PROVE t \notin Abstract!ToSet(R[a])
  <2>1. R[a] = L[a] /\ a \in Lane
    BY <1>4, Lanes DEF Ready
  <2> QED BY <1>5, <2>1, SameSets
<1>8. t \notin Abstract!Placed
  BY <1>3, <1>6, <1>7 DEF Abstract!Placed
<1>9. [a \in Level |-> ReadyList(s', a)] = [R EXCEPT ![p] = Append(@, t)]
  <2>1. K = With(L, p, Append(L[p], t))
    BY <1>2 DEF CreatedTasks
  <2>2. Ready(K) = [R EXCEPT ![p] = Append(L[p], t)]
    <3>1. PICK l : l = Append(L[p], t)
      OBVIOUS
    <3>2. Ready(With(L, p, l)) = [Ready(L) EXCEPT ![p] = l]
      BY <1>1, ReadyWith
    <3> QED BY <1>4, <2>1, <3>1, <3>2
  <2>3. R[p] = L[p]
    BY <1>4 DEF Ready
  <2> QED BY <1>4, <2>2, <2>3
<1>10. SleepList(s') = SleepList(s)
  <2>1. K[Sleepers] = L[Sleepers]
    BY <1>1, <1>2, Lanes DEF CreatedTasks, With
  <2> QED BY <1>4, <2>1
<1>11. s'.priority = [s.priority EXCEPT ![t] = p] /\ s'.current_task = s.current_task
  BY <1>2 DEF CreatedTasks
<1>12. Abstract!Arrive(t, p)
  BY <1>3, <1>8, <1>9, <1>10, <1>11 DEF Abstract!Arrive
<1> QED BY <1>12 DEF Abstract!Next

(***************************************************************************)
(* A change of priority (scheduler.cpp:391-400) is RunQueues' Relevel.     *)
(***************************************************************************)
LEMMA RelevelsAbstract ==
  ASSUME NEW L, NEW K, Whole(s, L, Null, next_task_id), Rep(s', K), Relevels(L, K),
         tainted' = tainted
  PROVE  Abstract!Next
<1>1. Rep(s, L)
  BY DEF Whole
<1>2. PICK t \in Task, p \in Level : K = L /\ RepricedTasks(s, s', t, p)
  BY DEF Relevels
<1>3. /\ [a \in Level |-> ReadyList(s', a)] = [a \in Level |-> ReadyList(s, a)]
      /\ SleepList(s') = SleepList(s)
  BY <1>1, <1>2, Mapped
<1>4. s'.priority = [s.priority EXCEPT ![t] = p] /\ s'.current_task = s.current_task
  BY <1>2 DEF RepricedTasks
<1>5. Abstract!Relevel(t, p)
  BY <1>3, <1>4 DEF Abstract!Relevel
<1> QED BY <1>5 DEF Abstract!Next

(***************************************************************************)
(* Every step of the scheduler is a step of the run queues, or none, or a  *)
(* preemption that drops a task.                                           *)
(***************************************************************************)
LEMMA StepAbstract ==
  SchedulerInv /\ [Next]_vars => [Abstract!Next \/ TickDropsHead]_(Abstract!vars)
<1> SUFFICES ASSUME SchedulerInv, [Next]_vars
             PROVE  Abstract!Next \/ TickDropsHead \/ UNCHANGED Abstract!vars
  OBVIOUS
<1>1. CASE UNCHANGED vars
  <2>1. s' = s /\ tainted' = tainted
    BY <1>1 DEF vars
  <2>2. SleepList(s)' = SleepList(s) /\ [p \in Level |-> ReadyList(s, p)]' = [p \in Level |-> ReadyList(s, p)]
    BY <2>1
  <2> QED BY <2>1, <2>2 DEF Abstract!vars
<1>2. CASE Next
  <2>1. TypeOK /\ OneRunning /\ ~tainted
    BY <1>2 DEF SchedulerInv, Next
  <2>2. PICK L : Whole(s, L, Null, next_task_id)
    BY <2>1 DEF SchedulerInv
  <2>3. Outcome(L)
    BY <1>2, <2>1, <2>2, StepMoves
  <2>4. CASE tainted' = TRUE
    <3>1. Abstract!Break
      BY <2>4 DEF Abstract!Break
    <3> QED BY <3>1 DEF Abstract!Next
  <2>5. CASE tainted' = FALSE /\ After(L)
    <3>1. PICK K : Whole(s', K, Null, next_task_id') /\ Moved(L, K)
      BY <2>5 DEF After
    <3>2. Rep(s', K) /\ Rep(s, L) /\ L \in [Lane -> Seq(Task)]
      BY <2>2, <3>1, CurrentTask DEF Whole
    <3>3. tainted' = tainted
      BY <2>1, <2>5 DEF TypeOK
    <3>4. CASE Rests(L, K)
      <4>1. /\ [p \in Level |-> ReadyList(s', p)] = [p \in Level |-> ReadyList(s, p)]
            /\ SleepList(s') = SleepList(s)
        BY <3>2, <3>4, Mapped DEF Rests
      <4> QED BY <3>3, <3>4, <4>1 DEF Rests, Abstract!vars
    <3>5. CASE Arrives(L, K)
      BY <2>2, <3>2, <3>3, <3>5, ArrivesAbstract
    <3>6. CASE Relevels(L, K)
      BY <2>2, <3>2, <3>3, <3>6, RelevelsAbstract
    <3>7. CASE Hands(L, K)
      BY <2>2, <3>2, <3>3, <3>7, HandsAbstract
    <3>8. CASE Sleeps(L, K)
      <4>1. Abstract!SwitchSleep
        BY <2>2, <3>2, <3>3, <3>8, SleepsAbstract
      <4> QED BY <4>1 DEF Abstract!Next
    <3>9. CASE Preempts(L, K)
      BY <2>2, <3>2, <3>3, <3>9, PreemptsAbstract
    <3> QED BY <3>1, <3>4, <3>5, <3>6, <3>7, <3>8, <3>9 DEF Moved
  <2> QED BY <2>3, <2>4, <2>5 DEF Outcome
<1> QED BY <1>1, <1>2

(***************************************************************************)
(* The linked lists of the control blocks (scheduler.cpp:48-400) implement *)
(* one FIFO queue per priority, but for the one task that a preempting     *)
(* tick takes off the highest queue and loses (scheduler.cpp:232): every   *)
(* other step moves tasks between the CPU, the queues and the sleepers as  *)
(* RunQueues allows, whatever the number of tasks.                         *)
(***************************************************************************)
THEOREM OnlyTicksDropTasks == Spec => RunQueuesButForDrops
<1>1. Init => Abstract!Init
  <2> SUFFICES ASSUME Init PROVE Abstract!Init
    OBVIOUS
  <2>1. PICK L : L = [a \in Lane |-> <<>>]
    OBVIOUS
  <2>2. Rep(s, L)
    BY <2>1, StartsEmpty DEF Whole
  <2>3. [p \in Level |-> ReadyList(s, p)] = Ready(L) /\ SleepList(s) = L[Sleepers]
    BY <2>2, Mapped
  <2>4. Ready(L) = [p \in Level |-> <<>>] /\ L[Sleepers] = <<>>
    BY <2>1, Lanes DEF Ready
  <2>5. s.current_task = Null /\ s.priority = [t \in Task |-> 0] /\ tainted = FALSE
    BY DEF Init
  <2> QED BY <2>3, <2>4, <2>5 DEF Abstract!Init
<1> QED BY <1>1, StepAbstract, StartsWhole, StaysWhole, PTL
        DEF Spec, RunQueuesButForDrops
==============================================================================

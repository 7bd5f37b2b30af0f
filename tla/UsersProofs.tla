---------------------------- MODULE UsersProofs ----------------------------
(***************************************************************************)
(* Proofs about Users and the service manager it runs on, for every list   *)
(* of services, every number of accounts and every width of the uptime.    *)
(* First what 32-bit arithmetic makes of the uptime; then the manager, the *)
(* file of accounts, the session and the prompt's lock, each with its part *)
(* of the inductive invariant.                                             *)
(***************************************************************************)
EXTENDS Users, WellFoundedInduction, TLAPS

(***************************************************************************)
(* A non-empty set of natural numbers has a smallest element: what         *)
(* induction by smallest counterexample rests on.                          *)
(***************************************************************************)
LEMMA MinimumExists ==
  ASSUME NEW T, T \subseteq Nat, T # {}
  PROVE  \E m \in T : \A n \in T : m <= n
<1> DEFINE Less == OpToRel(<, Nat)
<1>1. IsWellFoundedOn(Less, Nat)
  BY NatLessThanWellFounded
<1>2. \E x \in T : \A y \in T : ~ (<<y, x>> \in Less)
  <2> HIDE DEF Less
  <2> QED BY <1>1, WFMin
<1>3. PICK x \in T : \A y \in T : ~ (<<y, x>> \in Less)
  BY <1>2
<1>4. Less = {p \in Nat \X Nat : p[1] < p[2]}
  BY DEF OpToRel
<1>5. \A y \in T : x <= y
  <2> HIDE DEF Less
  <2>1. \A y \in T : ~ (y < x)
    BY <1>3, <1>4
  <2> QED BY <2>1
<1>6. QED
  BY <1>5

(***************************************************************************)
(* Division by a positive number keeps the order (service_manager.cpp:183).*)
(***************************************************************************)
LEMMA DivMonotone ==
  ASSUME NEW x \in Nat, NEW y \in Nat, x <= y, NEW n \in Nat \ {0}
  PROVE  x \div n \in Nat /\ x \div n <= y \div n
<1>1. PICK q \in Nat : q = x \div n
  OBVIOUS
<1>2. PICK p \in Nat : p = y \div n
  OBVIOUS
<1>3. q * n <= x /\ y < (p + 1) * n
  BY <1>1, <1>2
<1>4. ASSUME p < q PROVE FALSE
  <2>1. PICK d \in Nat : q = p + 1 + d
    BY <1>4
  <2>2. q * n = (p + 1) * n + d * n /\ d * n \in Nat
    BY <2>1
  <2>3. PICK u \in Nat, v \in Nat : u = (p + 1) * n /\ v = d * n
    BY <2>2
  <2>4. QED
    BY <1>3, <2>2, <2>3
<1>5. QED
  BY <1>1, <1>2, <1>4

DivAdds(x, d, n) ==
  /\ (x + d) \div n >= (x \div n) + (d \div n)
  /\ d % n = 0 => (x + d) \div n = (x \div n) + (d \div n)

(***************************************************************************)
(* The quotient of a difference is at most the difference of the           *)
(* quotients, and that exactly when the divisor divides it.                *)
(***************************************************************************)
LEMMA DivDifference ==
  ASSUME NEW x \in Nat, NEW d \in Nat, NEW n \in Nat \ {0}
  PROVE  DivAdds(x, d, n)
<1>1. PICK q \in Nat, r \in Nat : q = x \div n /\ r = x % n
  OBVIOUS
<1>2. PICK p \in Nat, s \in Nat : p = d \div n /\ s = d % n
  OBVIOUS
<1>3. x = q * n + r /\ r < n /\ d = p * n + s /\ s < n
  BY <1>1, <1>2
<1>4. PICK m \in Nat : m = (q + p) * n
  OBVIOUS
<1>5. x + d = m + (r + s)
  BY <1>3, <1>4
<1>6. PICK k \in Nat : k = (x + d) \div n
  OBVIOUS
<1>7. k * n <= x + d /\ x + d < (k + 1) * n
  BY <1>6
<1>8. k >= q + p
  <2>1. m \div n = q + p
    BY <1>4
  <2>2. m \in Nat /\ x + d \in Nat /\ m <= x + d
    BY <1>5
  <2>3. m \div n <= (x + d) \div n
    BY <2>2, DivMonotone
  <2>4. QED
    BY <1>6, <2>1, <2>3
<1>9. ASSUME s = 0 PROVE k = q + p
  <2>1. x + d = m + r
    BY <1>5, <1>9
  <2>2. (m + r) \div n = q + p
    BY <1>3, <1>4
  <2>3. QED
    BY <1>6, <2>1, <2>2
<1>10. QED
  BY <1>1, <1>2, <1>6, <1>8, <1>9 DEF DivAdds

------------------------------------------------------------------------------
(***************************************************************************)
(* The uptime is what is left of the milliseconds since boot after the     *)
(* last wrap (service_manager.cpp:180-184).                                *)
(***************************************************************************)
LEMMA UptimeOf ==
  ASSUME NEW t \in Nat
  PROVE  /\ t * Millis \in Nat
         /\ UptimeAt(t) = ((t * Millis) % Word) \div Frequency
         /\ UptimeAt(t) \in Nat /\ UptimeAt(t) <= Word \div Frequency /\ UptimeAt(t) < Word
<1>1. PICK M, W, F \in Nat \ {0} : M = Millis /\ W = Word /\ F = Frequency
  BY ServicesConstants
<1>2. PICK q \in Nat, r \in Nat : q = t \div W /\ r = t % W
  BY <1>1
<1>3. t = q * W + r
  BY <1>1, <1>2
<1>4. PICK y \in Nat : y = r * M
  BY <1>1
<1>5. PICK k \in Nat : k = q * M
  BY <1>1
<1>6. t * M = k * W + y
  <2>1. (q * W + r) * M = (q * W) * M + r * M
    BY <1>1
  <2>2. (q * W) * M = (q * M) * W
    BY <1>1
  <2>3. QED
    BY <1>3, <1>4, <1>5, <2>1, <2>2
<1>7. (k * W + y) % W = y % W
  <2>1. PICK p \in Nat, z \in Nat : p = y \div W /\ z = y % W
    BY <1>1
  <2>2. y = p * W + z /\ z < W
    BY <1>1, <2>1
  <2>3. PICK n \in Nat : n = k + p
    OBVIOUS
  <2>4. k * W + y = n * W + z
    BY <1>1, <2>2, <2>3
  <2>5. PICK m \in Nat : m = n * W
    BY <1>1
  <2>6. (m + z) % W = z
    BY <1>1, <2>2, <2>5
  <2>7. QED
    BY <2>1, <2>4, <2>5, <2>6
<1>8. PICK z \in Nat : z = y % W
  BY <1>1
<1>9. z < W /\ (t * M) % W = z
  BY <1>1, <1>6, <1>7, <1>8
<1>10. UptimeAt(t) = z \div F
  BY <1>1, <1>2, <1>4, <1>8 DEF UptimeAt
<1>11. z \div F \in Nat /\ z \div F <= W \div F
  BY <1>1, <1>9, DivMonotone
<1>12. z \div F < W
  BY <1>1, <1>8, <1>9
<1>13. t * M \in Nat
  BY <1>1
<1>14. QED
  BY <1>1, <1>9, <1>10, <1>11, <1>12, <1>13

Wraps(t) == (t * Millis) \div Word

(***************************************************************************)
(* The number of wraps only grows (service_manager.cpp:183).               *)
(***************************************************************************)
LEMMA WrapsGrow ==
  ASSUME NEW a \in Nat, NEW t \in Nat, a <= t
  PROVE  Wraps(a) \in Nat /\ Wraps(t) \in Nat /\ Wraps(a) <= Wraps(t)
<1>1. PICK M, W \in Nat \ {0} : M = Millis /\ W = Word
  BY ServicesConstants
<1>2. PICK d \in Nat : t = a + d
  OBVIOUS
<1>3. t * M = a * M + d * M /\ a * M \in Nat /\ d * M \in Nat /\ t * M \in Nat
  BY <1>1, <1>2
<1>4. PICK x \in Nat, y \in Nat : x = a * M /\ y = t * M
  BY <1>3
<1>5. x <= y
  BY <1>3, <1>4
<1>6. x \div W \in Nat /\ x \div W <= y \div W /\ y \div W \in Nat
  BY <1>1, <1>5, DivMonotone
<1>7. QED
  BY <1>1, <1>4, <1>6 DEF Wraps

(***************************************************************************)
(* Between two wraps the uptime shows all the milliseconds that passed,    *)
(* and no more when it counts whole ones (service_manager.cpp:180-184).    *)
(***************************************************************************)
LEMMA UptimeAdvances ==
  ASSUME NEW a \in Nat, NEW t \in Nat, a <= t, Wraps(a) = Wraps(t)
  PROVE  /\ UptimeAt(t) >= UptimeAt(a) + (((t - a) * Millis) \div Frequency)
         /\ Millis % Frequency = 0
              => UptimeAt(t) = UptimeAt(a) + (((t - a) * Millis) \div Frequency)
<1>1. PICK M, W, F \in Nat \ {0} : M = Millis /\ W = Word /\ F = Frequency
  BY ServicesConstants
<1>2. PICK d \in Nat : d = t - a
  OBVIOUS
<1>3. PICK x \in Nat, y \in Nat, e \in Nat : x = a * M /\ y = t * M /\ e = d * M
  BY <1>1
<1>4. y = x + e
  BY <1>1, <1>2, <1>3
<1>5. PICK k \in Nat : k = x \div W
  BY <1>1
<1>6. y \div W = k
  BY <1>1, <1>3, <1>5 DEF Wraps
<1>7. PICK u \in Nat, v \in Nat : u = x % W /\ v = y % W
  BY <1>1
<1>8. x = k * W + u /\ y = k * W + v
  BY <1>1, <1>5, <1>6, <1>7
<1>9. PICK n \in Nat : n = k * W
  BY <1>1
<1>10. v = u + e
  BY <1>4, <1>8, <1>9
<1>11. UptimeAt(a) = u \div F /\ UptimeAt(t) = v \div F
  BY <1>1, <1>3, <1>7, UptimeOf
<1>12. /\ (u + e) \div F >= (u \div F) + (e \div F)
       /\ e % F = 0 => (u + e) \div F = (u \div F) + (e \div F)
  <2>1. F \in Nat \ {0}
    OBVIOUS
  <2>2. DivAdds(u, e, F)
    BY <2>1, DivDifference, Zenon
  <2>3. QED
    BY <2>2 DEF DivAdds
<1>13. M % F = 0 => e % F = 0
  <2>1. SUFFICES ASSUME M % F = 0 PROVE e % F = 0
    OBVIOUS
  <2>2. PICK g \in Nat : g = M \div F
    BY <1>1
  <2>3. M = g * F
    BY <1>1, <2>1, <2>2
  <2>4. PICK h \in Nat : h = d * g
    OBVIOUS
  <2>5. d * (g * F) = (d * g) * F
    BY <1>1
  <2>6. e = h * F
    BY <1>3, <2>3, <2>4, <2>5
  <2>7. QED
    BY <1>1, <2>6
<1>14. (t - a) * Millis = e
  BY <1>1, <1>2, <1>3
<1>15. QED
  BY <1>1, <1>10, <1>11, <1>12, <1>13, <1>14

------------------------------------------------------------------------------
\* The latest time that a service can have been ticked with.
Horizon == IF round.at # 0 THEN round.read ELSE time

(***************************************************************************)
(* The manager's part of the invariant: last_tick_ms is the uptime of a    *)
(* time that is not ahead of the pass, and whoever was passed over has     *)
(* seen the uptime wrap.                                                   *)
(***************************************************************************)
TicksInv ==
  /\ tickedAt \in [Service -> Nat]
  /\ last_tick_ms = [s \in Service |-> UptimeAt(tickedAt[s])]
  /\ \A s \in Service : tickedAt[s] <= Horizon
  /\ passedOver \subseteq Service
  /\ \A s \in passedOver : Wraps(tickedAt[s]) # Wraps(time)

ManagerTypes ==
  /\ graphics \in BOOLEAN /\ enabled \in [Service -> BOOLEAN]
  /\ time \in 0 .. MaxTime /\ tickDiv \in 0 .. TickDivider - 1
  /\ round \in [at : 0 .. Len(List), read : 0 .. MaxTime] /\ round.read <= time
  /\ ~graphics => round.at = 0

ManagerInv == ManagerTypes /\ TicksInv

(***************************************************************************)
(* A wrap is not undone by time (service_manager.cpp:183).                 *)
(***************************************************************************)
LEMMA WrapStays ==
  ASSUME NEW a \in Nat, NEW t \in Nat, NEW t2 \in Nat, a <= t, t <= t2, Wraps(a) # Wraps(t)
  PROVE  Wraps(a) # Wraps(t2)
<1>1. Wraps(a) \in Nat /\ Wraps(t) \in Nat /\ Wraps(a) <= Wraps(t)
  BY WrapsGrow
<1>2. Wraps(t2) \in Nat /\ Wraps(t) <= Wraps(t2)
  BY WrapsGrow
<1>3. QED
  BY <1>1, <1>2

(***************************************************************************)
(* A service that is due by the time that really passed, and not by its    *)
(* uptimes, has seen a wrap (service_manager.cpp:217-221).                 *)
(***************************************************************************)
LEMMA LeftOutAfterWrap ==
  ASSUME NEW s \in Service, NEW t \in Nat, TicksInv, tickedAt[s] <= t,
         ~Due(s, UptimeAt(t)), Elapsed(s, t) >= TickIntervalMs[s]
  PROVE  Wraps(tickedAt[s]) # Wraps(t)
<1>1. PICK a \in Nat : a = tickedAt[s]
  BY DEF TicksInv
<1>2. last_tick_ms[s] = UptimeAt(a)
  BY <1>1 DEF TicksInv
<1>3. PICK now \in Nat, before \in Nat : now = UptimeAt(t) /\ before = UptimeAt(a)
  BY <1>1, UptimeOf
<1>4. PICK i \in Nat : i = TickIntervalMs[s]
  BY ServicesConstants
<1>5. ~ (now >= before /\ now - before >= i)
  BY <1>2, <1>3, <1>4 DEF Due
<1>6. PICK e : e = ((t - a) * Millis) \div Frequency
  OBVIOUS
<1>7. e >= i
  BY <1>1, <1>4, <1>6 DEF Elapsed
<1>8. e \in Nat
  <2>1. PICK d \in Nat : d = t - a
    BY <1>1
  <2>2. d * Millis \in Nat /\ Frequency \in Nat \ {0}
    BY ServicesConstants
  <2>3. QED
    BY <1>6, <2>1, <2>2
<1>9. ASSUME Wraps(a) = Wraps(t) PROVE FALSE
  <2>1. UptimeAt(t) >= UptimeAt(a) + (((t - a) * Millis) \div Frequency)
    BY <1>1, <1>9, UptimeAdvances
  <2>2. now >= before + e
    BY <1>3, <1>6, <2>1
  <2>3. QED
    BY <1>5, <1>7, <1>8, <2>2
<1>10. QED
  BY <1>1, <1>9

(***************************************************************************)
(* TickAll's work for some services, with an uptime not older than the     *)
(* ones they were ticked with (service_manager.cpp:205-235).               *)
(***************************************************************************)
LEMMA VisitKeeps ==
  ASSUME TicksInv, NEW S, S \subseteq Service, NEW t \in Nat, NEW t2 \in Nat, t <= t2,
         time \in Nat, time <= t2, Horizon <= time, Horizon <= t, Horizon \in Nat, Visit(S, t)
  PROVE  /\ tickedAt' \in [Service -> Nat]
         /\ last_tick_ms' = [s \in Service |-> UptimeAt(tickedAt'[s])]
         /\ \A s \in Service : tickedAt'[s] <= t
         /\ passedOver' \subseteq Service
         /\ \A s \in passedOver' : Wraps(tickedAt'[s]) # Wraps(t2)
<1>1. PICK now : now = UptimeAt(t)
  OBVIOUS
<1>2. PICK ticked : ticked = {s \in S : Periodic(s) /\ Due(s, now)}
  OBVIOUS
<1>3. PICK kept : kept = {s \in ticked : now > 0}
  OBVIOUS
<1>4. /\ last_tick_ms' = [s \in Service |-> IF s \in kept THEN now ELSE last_tick_ms[s]]
      /\ tickedAt' = [s \in Service |-> IF s \in kept THEN t ELSE tickedAt[s]]
      /\ passedOver' = (passedOver \ ticked)
           \cup {s \in {s \in S : Periodic(s)} \ ticked : Elapsed(s, t) >= TickIntervalMs[s]}
  BY <1>1, <1>2, <1>3 DEF Visit
<1>5. \A s \in Service : tickedAt[s] \in Nat /\ tickedAt[s] <= Horizon
  BY DEF TicksInv
<1>6. \A s \in Service : tickedAt[s] <= t /\ tickedAt[s] <= time
  BY <1>5
<1>7. tickedAt' \in [Service -> Nat] /\ \A s \in Service : tickedAt'[s] <= t
  BY <1>4, <1>5, <1>6
<1>8. last_tick_ms' = [s \in Service |-> UptimeAt(tickedAt'[s])]
  <2>1. ASSUME NEW s \in Service
        PROVE  (IF s \in kept THEN now ELSE last_tick_ms[s]) = UptimeAt(tickedAt'[s])
    <3>1. last_tick_ms[s] = UptimeAt(tickedAt[s])
      BY DEF TicksInv
    <3>2. QED
      BY <1>1, <1>4, <3>1
  <2>2. QED
    BY <1>4, <2>1
<1>9. passedOver' \subseteq Service
  BY <1>4 DEF TicksInv
<1>10. ASSUME NEW s \in passedOver' PROVE Wraps(tickedAt'[s]) # Wraps(t2)
  <2>1. s \in Service /\ s \notin ticked /\ s \notin kept
    BY <1>3, <1>4, <1>9
  <2>2. tickedAt'[s] = tickedAt[s]
    BY <1>4, <2>1
  <2>3. PICK a \in Nat : a = tickedAt[s] /\ a <= t /\ a <= time
    BY <1>5, <1>6, <2>1
  <2>4. CASE s \in passedOver
    <3>1. Wraps(a) # Wraps(time)
      BY <2>3, <2>4 DEF TicksInv
    <3>2. QED
      BY <2>2, <2>3, <3>1, WrapStays
  <2>5. CASE s \notin passedOver
    <3>1. s \in S /\ Periodic(s) /\ Elapsed(s, t) >= TickIntervalMs[s]
      BY <1>4, <2>5
    <3>2. ~Due(s, UptimeAt(t))
      BY <1>1, <1>2, <2>1, <3>1
    <3>3. Wraps(tickedAt[s]) # Wraps(t)
      BY <2>1, <2>3, <3>1, <3>2, LeftOutAfterWrap
    <3>4. QED
      BY <2>2, <2>3, <3>3, WrapStays
  <2>6. QED
    BY <2>4, <2>5
<1>11. QED
  BY <1>7, <1>8, <1>9, <1>10

(***************************************************************************)
(* The list of services has the user service in it                         *)
(* (service_manager.cpp:25-40), and at boot the uptime is 0.               *)
(***************************************************************************)
LEMMA ListNotEmpty == Len(List) \in Nat \ {0} /\ \A i \in 1 .. Len(List) : List[i] \in Service
<1>1. List \in Seq(Service)
  BY ServicesConstants
<1>2. Len(List) \in Nat /\ DOMAIN List = 1 .. Len(List)
  BY <1>1
<1>3. PICK i \in DOMAIN List : List[i] = UserSvc
  BY UsersConstants DEF Service, Range
<1>4. Len(List) # 0
  BY <1>2, <1>3
<1>5. \A j \in DOMAIN List : List[j] \in Service
  BY DEF Service, Range
<1>6. QED
  BY <1>2, <1>4, <1>5

(***************************************************************************)
(* The uptime starts at 0 (service_manager.cpp:183).                       *)
(***************************************************************************)
LEMMA UptimeAtBoot == UptimeAt(0) = 0
<1>1. PICK M, W, F \in Nat \ {0} : M = Millis /\ W = Word /\ F = Frequency
  BY ServicesConstants
<1>2. 0 % W = 0 /\ 0 * M = 0 /\ 0 \div F = 0
  BY <1>1
<1>3. QED
  BY <1>1, <1>2 DEF UptimeAt

\* The manager as InitAndStart leaves it.
Booted ==
  /\ graphics \in BOOLEAN /\ enabled \in [Service -> BOOLEAN]
  /\ last_tick_ms = [s \in Service |-> 0]
  /\ time = 0 /\ tickDiv = 0 /\ round = NoPass
  /\ tickedAt = [s \in Service |-> 0] /\ passedOver = {}

(***************************************************************************)
(* The invariant holds once the services started                           *)
(* (service_manager.cpp:188-203).                                          *)
(***************************************************************************)
LEMMA ManagerBoots ==
  ASSUME Booted
  PROVE  ManagerInv
<1>1. MaxTime \in Nat /\ TickDivider \in Nat \ {0} /\ Len(List) \in Nat \ {0}
  BY ServicesConstants, ListNotEmpty
<1>2. round.at = 0 /\ round.read = 0 /\ round \in [at : 0 .. Len(List), read : 0 .. MaxTime]
  BY <1>1 DEF Booted, NoPass
<1>3. ManagerTypes
  BY <1>1, <1>2 DEF Booted, ManagerTypes
<1>4. tickedAt \in [Service -> Nat] /\ \A s \in Service : tickedAt[s] = 0
  BY DEF Booted
<1>5. last_tick_ms = [s \in Service |-> UptimeAt(tickedAt[s])]
  BY <1>4, UptimeAtBoot DEF Booted
<1>6. Horizon = 0
  BY <1>2 DEF Horizon, Booted
<1>7. TicksInv
  BY <1>4, <1>5, <1>6 DEF TicksInv, Booted
<1>8. QED
  BY <1>3, <1>7 DEF ManagerInv

(***************************************************************************)
(* A timer interrupt (timer.cpp:62-90) keeps the manager's invariant: in   *)
(* text mode no pass is under way when it runs TickAll.                    *)
(***************************************************************************)
LEMMA TimerKeeps ==
  ASSUME ManagerInv, TimerInterrupt
  PROVE  ManagerInv'
<1>1. /\ time \in Nat /\ time' = time + 1 /\ time' \in 0 .. MaxTime /\ time' \in Nat
      /\ MaxTime \in Nat /\ TickDivider \in Nat \ {0}
  BY ServicesConstants DEF ManagerInv, ManagerTypes, TimerInterrupt
<1>2. /\ round \in [at : 0 .. Len(List), read : 0 .. MaxTime] /\ round.read <= time
      /\ UNCHANGED <<graphics, enabled, round>>
  BY DEF ManagerInv, ManagerTypes, TimerInterrupt
<1>3. Len(List) \in Nat /\ round.at \in Nat /\ round.read \in Nat
  BY <1>1, <1>2, ListNotEmpty
<1>4. tickDiv' \in 0 .. TickDivider - 1
  BY <1>1 DEF ManagerInv, ManagerTypes, TimerInterrupt
<1>5. ManagerTypes'
  BY <1>1, <1>2, <1>3, <1>4 DEF ManagerInv, ManagerTypes
<1>6. Horizon \in Nat /\ Horizon <= time /\ Horizon' \in Nat
  BY <1>1, <1>2, <1>3 DEF Horizon
<1>7. CASE UNCHANGED <<last_tick_ms, tickedAt, passedOver>>
  <2>1. Horizon <= Horizon'
    BY <1>1, <1>2, <1>3 DEF Horizon
  <2>2. \A s \in Service : tickedAt[s] \in Nat /\ tickedAt[s] <= Horizon
    BY DEF ManagerInv, TicksInv
  <2>3. \A s \in Service : tickedAt[s] <= Horizon' /\ tickedAt[s] <= time
    BY <1>1, <1>6, <2>1, <2>2
  <2>4. ASSUME NEW s \in passedOver PROVE Wraps(tickedAt[s]) # Wraps(time')
    <3>1. s \in Service /\ Wraps(tickedAt[s]) # Wraps(time)
      BY DEF ManagerInv, TicksInv
    <3>2. time <= time'
      BY <1>1
    <3>3. QED
      BY <1>1, <2>2, <2>3, <3>1, <3>2, WrapStays
  <2>5. TicksInv'
    BY <1>7, <2>3, <2>4 DEF ManagerInv, TicksInv
  <2>6. QED
    BY <1>5, <2>5 DEF ManagerInv
<1>8. CASE ~graphics /\ Visit(Service, time + 1)
  <2>1. round.at = 0 /\ round'.at = 0
    BY <1>2, <1>8 DEF ManagerInv, ManagerTypes
  <2>2. Horizon = time /\ Horizon' = time'
    BY <2>1 DEF Horizon
  <2>3. TicksInv /\ time <= time + 1 /\ Horizon <= time + 1 /\ time + 1 <= time + 1 /\ time + 1 \in Nat
    BY <1>1, <2>2 DEF ManagerInv
  <2>4. /\ tickedAt' \in [Service -> Nat]
        /\ last_tick_ms' = [s \in Service |-> UptimeAt(tickedAt'[s])]
        /\ \A s \in Service : tickedAt'[s] <= time + 1
        /\ passedOver' \subseteq Service
        /\ \A s \in passedOver' : Wraps(tickedAt'[s]) # Wraps(time + 1)
    BY <1>1, <1>6, <1>8, <2>3, VisitKeeps
  <2>5. TicksInv'
    BY <1>1, <2>2, <2>4 DEF TicksInv
  <2>6. QED
    BY <1>5, <2>5 DEF ManagerInv
<1>9. QED
  BY <1>7, <1>8 DEF TimerInterrupt

(***************************************************************************)
(* The main loop's pass (service_manager.cpp:205-233) keeps it,            *)
(* whatever timer interrupts fell between its services.                    *)
(***************************************************************************)
LEMMA PassKeeps ==
  ASSUME ManagerInv, BeginPass \/ VisitNext
  PROVE  ManagerInv'
<1>1. /\ time \in 0 .. MaxTime /\ time \in Nat /\ MaxTime \in Nat
      /\ UNCHANGED <<graphics, enabled, time, tickDiv>>
  BY ServicesConstants DEF ManagerInv, ManagerTypes, BeginPass, VisitNext
<1>2. PICK n \in Nat \ {0} : n = Len(List)
  BY ListNotEmpty
<1>3. round \in [at : 0 .. n, read : 0 .. MaxTime] /\ round.read <= time
  BY <1>2 DEF ManagerInv, ManagerTypes
<1>4. PICK i \in 0 .. n, r \in 0 .. MaxTime : round = [at |-> i, read |-> r] /\ r <= time
  BY <1>3
<1>5. i \in Nat /\ r \in Nat
  BY <1>1, <1>2
<1>6. CASE BeginPass
  <2>1. round' = [at |-> 1, read |-> time] /\ graphics /\ i = 0
    BY <1>4, <1>6 DEF BeginPass
  <2>2. 1 \in 0 .. n
    BY <1>2
  <2>3. round' \in [at : 0 .. Len(List), read : 0 .. MaxTime] /\ round'.read <= time'
    BY <1>1, <1>2, <2>1, <2>2
  <2>4. ManagerTypes'
    BY <1>1, <2>1, <2>3 DEF ManagerInv, ManagerTypes
  <2>5. Horizon = time /\ Horizon' = time
    BY <1>1, <1>4, <2>1 DEF Horizon
  <2>6. TicksInv'
    BY <1>1, <1>6, <2>5 DEF ManagerInv, TicksInv, BeginPass
  <2>7. QED
    BY <2>4, <2>6 DEF ManagerInv
<1>7. CASE VisitNext
  <2>1. /\ i # 0 /\ Visit({List[i]}, r)
        /\ round' = IF i = n THEN NoPass ELSE [round EXCEPT !.at = @ + 1]
    BY <1>2, <1>4, <1>7 DEF VisitNext
  <2>2. PICK j \in 0 .. n, q \in 0 .. MaxTime :
          round' = [at |-> j, read |-> q] /\ ((j = 0 /\ q = 0) \/ (j # 0 /\ q = r))
    <3>1. CASE i = n
      <4>1. 0 \in 0 .. n /\ 0 \in 0 .. MaxTime /\ round' = [at |-> 0, read |-> 0]
        BY <1>1, <1>2, <2>1, <3>1 DEF NoPass
      <4>2. QED
        BY <4>1
    <3>2. CASE i # n
      <4>1. i + 1 \in 0 .. n /\ i + 1 # 0
        BY <1>2, <1>4, <3>2
      <4>2. round' = [at |-> i + 1, read |-> r]
        BY <1>4, <2>1, <3>2
      <4>3. QED
        BY <4>1, <4>2
    <3>3. QED
      BY <3>1, <3>2
  <2>3. round' \in [at : 0 .. n, read : 0 .. MaxTime] /\ q <= time
    BY <1>1, <1>4, <1>5, <2>2
  <2>4. graphics
    BY <1>4, <2>1 DEF ManagerInv, ManagerTypes
  <2>5. ManagerTypes'
    BY <1>1, <1>2, <2>2, <2>3, <2>4 DEF ManagerInv, ManagerTypes
  <2>6. Horizon = r
    BY <1>4, <2>1 DEF Horizon
  <2>7. Horizon' \in Nat /\ r <= Horizon'
    BY <1>1, <1>4, <1>5, <2>2 DEF Horizon
  <2>8. {List[i]} \subseteq Service
    BY <1>2, <1>4, <2>1, ListNotEmpty
  <2>9. TicksInv /\ r <= time /\ time <= time /\ Horizon <= time /\ Horizon <= r /\ Horizon \in Nat
    BY <1>1, <1>4, <1>5, <2>6 DEF ManagerInv
  <2>10. /\ tickedAt' \in [Service -> Nat]
         /\ last_tick_ms' = [s \in Service |-> UptimeAt(tickedAt'[s])]
         /\ \A s \in Service : tickedAt'[s] <= r
         /\ passedOver' \subseteq Service
         /\ \A s \in passedOver' : Wraps(tickedAt'[s]) # Wraps(time)
    BY <1>1, <1>5, <2>1, <2>8, <2>9, VisitKeeps
  <2>11. \A s \in Service : tickedAt'[s] <= Horizon'
    BY <1>5, <2>7, <2>10
  <2>12. TicksInv'
    BY <1>1, <2>10, <2>11 DEF TicksInv
  <2>13. QED
    BY <2>5, <2>12 DEF ManagerInv
<1>8. QED
  BY <1>6, <1>7

(***************************************************************************)
(* Every step keeps the manager's invariant: the services' passes, the     *)
(* timer, and a restart; nothing that users do touches the manager         *)
(* (service_manager.cpp:186-233).                                          *)
(***************************************************************************)
LEMMA ManagerKept ==
  ASSUME ManagerInv, [Next]_vars
  PROVE  ManagerInv'
<1>1. CASE UNCHANGED manager
  <2>1. UNCHANGED <<graphics, enabled, last_tick_ms, time, tickDiv, round, tickedAt, passedOver>>
    BY <1>1 DEF manager
  <2>2. Horizon' = Horizon
    BY <2>1 DEF Horizon
  <2>3. ManagerTypes' /\ TicksInv'
    BY <2>1, <2>2 DEF ManagerInv, ManagerTypes, TicksInv
  <2>4. QED
    BY <2>3 DEF ManagerInv
<1>2. CASE ManagerNext
  BY <1>2, TimerKeeps, PassKeeps DEF ManagerNext
<1>3. CASE Restart
  <2>1. Booted'
    BY <1>3 DEF Restart, InitAndStart, Booted
  <2>2. ManagerInv'
    BY <2>1, ManagerBoots, PTL
  <2>3. QED
    BY <2>2
<1>4. QED
  BY <1>1, <1>2, <1>3 DEF Next, vars

(***************************************************************************)
(* The manager's invariant holds in every reachable state                  *)
(* (service_manager.cpp:205-233).                                          *)
(***************************************************************************)
LEMMA ManagerHolds == Spec => []ManagerInv
<1>1. Init => ManagerInv
  <2>1. Init => Booted
    BY ServicesConstants DEF Init, Booted
  <2>2. QED
    BY <2>1, ManagerBoots
<1>2. ManagerInv /\ [Next]_vars => ManagerInv'
  BY ManagerKept
<1>3. QED
  BY <1>1, <1>2, PTL DEF Spec

(***************************************************************************)
(* TickAll (service_manager.cpp:205-233) leaves out a service whose        *)
(* interval has passed only after the uptime wrapped, whatever the         *)
(* intervals, the number of services and the interrupts within a pass.     *)
(***************************************************************************)
THEOREM ServicesAreTicked == Spec => []PassedOverOnlyAfterWrap
<1>1. ManagerInv => PassedOverOnlyAfterWrap
  BY DEF ManagerInv, TicksInv, PassedOverOnlyAfterWrap, Wrapped, Wraps
<1>2. QED
  BY <1>1, ManagerHolds, PTL

------------------------------------------------------------------------------
(***************************************************************************)
(* The file's part of the invariant: every line holds an account.  What    *)
(* Start reads from such lines need not be those accounts: a name may have *)
(* colons, and a line too few fields (user_service.cpp:38-77).             *)
(***************************************************************************)
Line == [user : User, salted : BOOLEAN]

Table == {z \in Seq(User) : Len(z) <= kMaxUsers}

(***************************************************************************)
(* The built-in accounts are accounts (user_service.cpp:82-86).            *)
(***************************************************************************)
LEMMA FactoryAccounts ==
  /\ Factory \in Seq(User) /\ <<Root>> \in Seq(User)
  /\ Len(Factory) = 2 /\ Factory \in Table
<1>1. Root \in User
  BY DEF Root, User, Name, Password
<1>2. [name |-> "user", pass |-> "user", uid |-> 1001] \in User
  BY DEF User, Name, Password
<1>3. Factory \in Seq(User) /\ <<Root>> \in Seq(User) /\ Len(Factory) = 2
  BY <1>1, <1>2 DEF Factory, Root
<1>4. QED
  BY <1>3, UsersConstants DEF Table

(***************************************************************************)
(* Whatever a line's fields are taken for, an account is read from it      *)
(* (user_service.cpp:40-76).                                               *)
(***************************************************************************)
LEMMA AccountTyped ==
  ASSUME NEW line \in Line
  PROVE  Account(line) \in User
<1>1. line.user \in User /\ line.user.name \in Name
  BY DEF Line, User
<1>2. PICK parts : parts = Parts[line.user.name]
  OBVIOUS
<1>3. parts \in Seq(DOMAIN Digits) /\ Len(parts) \in 1 .. 3 /\ parts[1] \in Name
  BY <1>1, <1>2, NamesConstants
<1>4. CASE Len(parts) = 1
  BY <1>1, <1>2, <1>4 DEF Account
<1>5. CASE Len(parts) # 1
  <2>1. 2 \in 1 .. Len(parts)
    BY <1>3, <1>5
  <2>2. parts[2] \in DOMAIN Digits
    BY <1>3, <2>1
  <2>3. Digits[parts[2]] \in Nat
    BY <2>2, NamesConstants
  <2>4. Account(line) = [name |-> parts[1], pass |-> "(none)", uid |-> Digits[parts[2]]]
    BY <1>2, <1>5 DEF Account
  <2>5. QED
    BY <1>3, <2>3, <2>4 DEF User
<1>6. QED
  BY <1>4, <1>5

\* One turn of the loop over the lines, with the accounts read before.
Turn(lines, k, before) ==
  IF Fields(lines[k]) >= 6 /\ Len(before) < kMaxUsers
  THEN Append(before, Account(lines[k])) ELSE before

\* f[j] are the accounts after j lines, for the first k of them.
ReadUpTo(f, lines, k) ==
  /\ f \in [0 .. k -> Table] /\ f[0] = <<>>
  /\ \A j \in 1 .. k : f[j] = Turn(lines, j, f[j - 1])

(***************************************************************************)
(* A turn adds at most one account, and none to a full table               *)
(* (user_service.cpp:71-75).                                               *)
(***************************************************************************)
LEMMA TurnTyped ==
  ASSUME NEW lines \in Seq(Line), NEW k \in 1 .. Len(lines), NEW z \in Table
  PROVE  Turn(lines, k, z) \in Table
<1>1. PICK u \in User : u = Account(lines[k])
  BY AccountTyped
<1>2. z \in Seq(User) /\ Len(z) \in Nat /\ Len(z) <= kMaxUsers /\ kMaxUsers \in Nat
  BY UsersConstants DEF Table
<1>3. Append(z, u) \in Seq(User) /\ Len(Append(z, u)) = Len(z) + 1
  BY <1>2
<1>4. Len(z) < kMaxUsers => Append(z, u) \in Table
  BY <1>2, <1>3 DEF Table
<1>5. QED
  BY <1>1, <1>4 DEF Turn

(***************************************************************************)
(* The loop reads every line: what it has can be continued to the next.    *)
(***************************************************************************)
LEMMA ReadExists ==
  ASSUME NEW lines \in Seq(Line)
  PROVE  \E f : ReadUpTo(f, lines, Len(lines))
<1> DEFINE Can(k) == \E f : ReadUpTo(f, lines, k)
           T == {k \in 0 .. Len(lines) : ~Can(k)}
<1>1. PICK n \in Nat : n = Len(lines)
  OBVIOUS
<1>2. Can(0)
  <2>1. PICK f : f = [j \in 0 .. 0 |-> <<>>]
    OBVIOUS
  <2>2. <<>> \in Table
    BY UsersConstants DEF Table
  <2>3. f \in [0 .. 0 -> Table] /\ f[0] = <<>>
    BY <2>1, <2>2
  <2>4. ReadUpTo(f, lines, 0)
    BY <2>3 DEF ReadUpTo
  <2>5. QED
    BY <2>4
<1>3. ASSUME NEW k \in 1 .. n, Can(k - 1) PROVE Can(k)
  <2>1. PICK f : ReadUpTo(f, lines, k - 1)
    BY <1>3
  <2>2. /\ f \in [0 .. k - 1 -> Table] /\ f[0] = <<>>
        /\ \A j \in 1 .. k - 1 : f[j] = Turn(lines, j, f[j - 1])
    BY <2>1 DEF ReadUpTo
  <2>3. k \in Nat /\ k # 0 /\ k \in 1 .. Len(lines) /\ k - 1 \in 0 .. k - 1
    BY <1>1
  <2>4. PICK v \in Table : v = Turn(lines, k, f[k - 1])
    BY <2>2, <2>3, TurnTyped
  <2>5. PICK g : g = [j \in 0 .. k |-> IF j = k THEN v ELSE f[j]]
    OBVIOUS
  <2>6. \A j \in 0 .. k : j # k => j \in 0 .. k - 1
    BY <2>3
  <2>7. g \in [0 .. k -> Table] /\ g[k] = v /\ \A j \in 0 .. k - 1 : g[j] = f[j]
    BY <2>2, <2>3, <2>4, <2>5, <2>6, SMTT(30)
  <2>8. ASSUME NEW j \in 1 .. k PROVE g[j] = Turn(lines, j, g[j - 1])
    <3>1. CASE j = k
      BY <2>3, <2>4, <2>7, <3>1
    <3>2. CASE j # k
      <4>1. j \in 1 .. k - 1 /\ j - 1 \in 0 .. k - 1 /\ j \in 0 .. k - 1
        BY <2>3, <3>2
      <4>2. QED
        BY <2>2, <2>7, <4>1
    <3>3. QED
      BY <3>1, <3>2
  <2>9. g[0] = <<>>
    BY <2>2, <2>3, <2>7
  <2>10. ReadUpTo(g, lines, k)
    BY <2>7, <2>8, <2>9 DEF ReadUpTo
  <2>11. QED
    BY <2>10
<1> HIDE DEF Can
<1>4. T = {}
  <2> SUFFICES ASSUME T # {} PROVE FALSE
    OBVIOUS
  <2>1. T \subseteq Nat
    OBVIOUS
  <2>2. PICK m \in T : \A i \in T : m <= i
    BY <2>1, MinimumExists, Zenon
  <2>3. m # 0
    BY <1>2
  <2>4. m \in 1 .. n /\ m - 1 \in 0 .. Len(lines) /\ m - 1 \notin T
    BY <1>1, <2>2, <2>3
  <2>5. Can(m - 1)
    BY <2>4
  <2>6. QED
    BY <1>3, <2>4, <2>5
<1>5. Can(Len(lines))
  BY <1>1, <1>4
<1>6. QED
  BY <1>5 DEF Can

(***************************************************************************)
(* Start reads accounts, and no more than m_users holds                    *)
(* (user_service.cpp:38-77).                                               *)
(***************************************************************************)
LEMMA LoadedTyped ==
  ASSUME NEW lines \in Seq(Line)
  PROVE  Loaded(lines) \in Table
<1>1. PICK n \in Nat : n = Len(lines)
  OBVIOUS
<1> DEFINE Rec(f) == f = [k \in 0 .. n |->
                            IF k = 0 THEN <<>>
                            ELSE IF Fields(lines[k]) >= 6 /\ Len(f[k - 1]) < kMaxUsers
                                 THEN Append(f[k - 1], Account(lines[k]))
                                 ELSE f[k - 1]]
           found == CHOOSE f : Rec(f)
<1>2. PICK g : ReadUpTo(g, lines, n)
  BY <1>1, ReadExists
<1>3. /\ g \in [0 .. n -> Table] /\ g[0] = <<>>
      /\ \A k \in 1 .. n : g[k] = Turn(lines, k, g[k - 1])
  BY <1>2 DEF ReadUpTo
<1>4. Rec(g)
  <2>1. ASSUME NEW k \in 0 .. n
        PROVE  g[k] = IF k = 0 THEN <<>>
                      ELSE IF Fields(lines[k]) >= 6 /\ Len(g[k - 1]) < kMaxUsers
                           THEN Append(g[k - 1], Account(lines[k]))
                           ELSE g[k - 1]
    <3>1. k # 0 => k \in 1 .. n
      OBVIOUS
    <3>2. QED
      BY <1>3, <3>1 DEF Turn
  <2>2. g = [k \in 0 .. n |-> g[k]]
    BY <1>3
  <2>3. QED
    BY <2>1, <2>2
<1>5. Rec(found)
  BY <1>4
<1>6. Loaded(lines) = found[n]
  BY <1>1 DEF Loaded
<1> HIDE DEF found
<1>7. \A k \in 0 .. n : found[k] = g[k]
  <2> DEFINE T == {k \in 0 .. n : found[k] # g[k]}
  <2> SUFFICES ASSUME T # {} PROVE FALSE
    OBVIOUS
  <2>1. T \subseteq Nat
    OBVIOUS
  <2>2. PICK m \in T : \A i \in T : m <= i
    BY <2>1, MinimumExists, Zenon
  <2>3. m # 0
    BY <1>4, <1>5
  <2>4. m - 1 \in 0 .. n /\ m - 1 \notin T /\ m \in 0 .. n
    BY <2>2, <2>3
  <2>5. found[m - 1] = g[m - 1]
    BY <2>4
  <2>6. found[m] = g[m]
    BY <1>4, <1>5, <2>3, <2>4, <2>5
  <2>7. QED
    BY <2>2, <2>6
<1>8. n \in 0 .. n
  BY <1>1
<1>9. QED
  BY <1>3, <1>6, <1>7, <1>8

(***************************************************************************)
(* A save that fails leaves the file, another appends accounts to it       *)
(* (user_service.cpp:175-205).                                             *)
(***************************************************************************)
LEMMA SaveTyped ==
  ASSUME NEW f \in Seq(Line), NEW users \in Seq(User), NEW salted \in BOOLEAN,
         NEW g \in AfterSave(f, Lines(users, salted))
  PROVE  g \in Seq(Line)
<1>1. PICK z : z = Lines(users, salted)
  OBVIOUS
<1>2. PICK n \in Nat : n = Len(users) /\ DOMAIN users = 1 .. n
  OBVIOUS
<1>3. \A i \in 1 .. n : [user |-> users[i], salted |-> salted] \in Line
  BY <1>2 DEF Line
<1>4. z = [i \in 1 .. n |-> [user |-> users[i], salted |-> salted]]
  BY <1>1, <1>2 DEF Lines
<1>5. z \in Seq(Line)
  <2>1. z \in [1 .. n -> Line]
    BY <1>3, <1>4, Zenon
  <2>2. QED
    BY <2>1
<1>6. f \o z \in Seq(Line)
  BY <1>5
<1>7. g = f \/ g = f \o z
  BY <1>1 DEF AfterSave
<1>8. QED
  BY <1>6, <1>7

------------------------------------------------------------------------------
(***************************************************************************)
(* The accounts and the session.  Names may be there twice, but whoever is *)
(* logged in is so as the first account of a name.                         *)
(***************************************************************************)
AccountsInv == file \in Seq(Line) /\ m_users \in Table

CurrentFirst ==
  \A j \in 1 .. m_current_index : m_users[j].name = m_users[m_current_index].name => j = m_current_index

SessionInv ==
  /\ m_current_index \in 0 .. Len(m_users)
  /\ mode \in {"LoginUser", "LoginPass", "Normal"}
  /\ retries_left \in 1 .. Retries
  /\ ~graphics => (mode = "Normal" <=> m_current_index # 0)

UsersInv == AccountsInv /\ SessionInv /\ CurrentFirst

(***************************************************************************)
(* IndexOf (user_service.cpp:148-154) finds the first account of a name.   *)
(***************************************************************************)
LEMMA IndexOfIsFirst ==
  ASSUME m_users \in Seq(User), NEW name
  PROVE  /\ IndexOf(name) \in 0 .. Len(m_users)
         /\ IndexOf(name) # 0 => m_users[IndexOf(name)].name = name
         /\ \A j \in 1 .. IndexOf(name) : m_users[j].name = name => j = IndexOf(name)
<1>1. PICK n \in Nat : n = Len(m_users) /\ DOMAIN m_users = 1 .. n
  OBVIOUS
<1>2. PICK hits : hits = {i \in 1 .. n : m_users[i].name = name}
  OBVIOUS
<1>3. IndexOf(name) = IF hits = {} THEN 0 ELSE CHOOSE i \in hits : \A j \in hits : i <= j
  BY <1>1, <1>2 DEF IndexOf
<1>4. CASE hits = {}
  BY <1>1, <1>3, <1>4
<1>5. CASE hits # {}
  <2>1. hits \subseteq Nat
    BY <1>2
  <2>2. \E i \in hits : \A j \in hits : i <= j
    BY <1>5, <2>1, MinimumExists, Zenon
  <2>3. IndexOf(name) \in hits /\ \A j \in hits : IndexOf(name) <= j
    BY <1>3, <1>5, <2>2, Zenon
  <2>4. PICK k \in 1 .. n : k = IndexOf(name) /\ m_users[k].name = name /\ \A j \in hits : k <= j
    BY <1>2, <2>3
  <2>5. ASSUME NEW j \in 1 .. k, m_users[j].name = name PROVE j = k
    <3>1. j \in hits
      BY <1>1, <1>2, <2>5
    <3>2. QED
      BY <2>4, <3>1
  <2>6. QED
    BY <1>1, <2>4, <2>5
<1>6. QED
  BY <1>4, <1>5

(***************************************************************************)
(* After Start the accounts are those of the lines it could read, or the   *)
(* built-in ones or, when the service is not enabled, none                 *)
(* (user_service.cpp:18-128).                                              *)
(***************************************************************************)
LEMMA StartKeeps ==
  ASSUME UsersInv, Restart
  PROVE  file' \in Seq(Line) /\ m_users' \in Table
<1>1. file \in Seq(Line) /\ Len(file) \in Nat
  BY DEF UsersInv, AccountsInv
<1>2. Factory \in Table /\ Factory \in Seq(User) /\ <<Root>> \in Seq(User) /\ <<>> \in Table
  <2>1. <<>> \in Table
    BY UsersConstants DEF Table
  <2>2. QED
    BY <2>1, FactoryAccounts
<1>3. ASSUME NEW lines \in Readable(file) PROVE Loaded(lines) \in Table
  <2>1. PICK k \in 0 .. Len(file) : lines = SubSeq(file, 1, k)
    BY <1>3 DEF Readable
  <2>2. lines \in Seq(Line)
    BY <1>1, <2>1
  <2>3. QED
    BY <2>2, LoadedTyped
<1>4. ASSUME \E f \in AfterSave(file, Lines(<<Root>>, FALSE)) :
               \E g \in AfterSave(f, Lines(Factory, FALSE)) :
                 file' \in AfterSave(g, Lines(Factory, TRUE))
      PROVE  file' \in Seq(Line)
  <2>1. PICK f \in AfterSave(file, Lines(<<Root>>, FALSE)) :
               \E g \in AfterSave(f, Lines(Factory, FALSE)) :
                 file' \in AfterSave(g, Lines(Factory, TRUE))
    BY <1>4
  <2>2. PICK g \in AfterSave(f, Lines(Factory, FALSE)) : file' \in AfterSave(g, Lines(Factory, TRUE))
    BY <2>1
  <2>3. f \in Seq(Line)
    BY <1>1, <1>2, SaveTyped
  <2>4. g \in Seq(Line)
    BY <1>2, <2>3, SaveTyped
  <2>5. PICK h \in AfterSave(g, Lines(Factory, TRUE)) : h = file'
    BY <2>2
  <2>6. h \in Seq(Line)
    BY <1>2, <2>4, SaveTyped
  <2>7. QED
    BY <2>5, <2>6
<1>5. file' \in Seq(Line)
  BY <1>1, <1>4 DEF Restart, Start
<1>6. m_users' \in Table
  BY <1>2, <1>3 DEF Restart, Start
<1>7. QED
  BY <1>5, <1>6

(***************************************************************************)
(* A restart (kernel_main.cpp, user_service.cpp:18) keeps the invariant of *)
(* the users.                                                              *)
(***************************************************************************)
LEMMA RestartKeepsUsers ==
  ASSUME UsersInv, Restart
  PROVE  UsersInv'
<1>1. file' \in Seq(Line) /\ m_users' \in Table
  BY StartKeeps
<1>2. m_current_index' = 0 /\ mode' = "LoginUser" /\ retries_left' = Retries
  BY DEF Restart
<1>3. Retries \in 1 .. Retries /\ Len(m_users') \in Nat
  BY <1>1, UsersConstants DEF Table
<1>4. SessionInv'
  BY <1>2, <1>3 DEF SessionInv
<1>5. CurrentFirst'
  BY <1>2 DEF CurrentFirst
<1>6. QED
  BY <1>1, <1>4, <1>5 DEF UsersInv, AccountsInv

(***************************************************************************)
(* Login (user_service.cpp:284-289) makes the first account of a name the  *)
(* current one, or leaves the session as it was.                           *)
(***************************************************************************)
LEMMA LoginKeeps ==
  ASSUME UsersInv, NEW name, NEW pass, Login(name, pass), UNCHANGED m_users
  PROVE  /\ m_current_index' \in 0 .. Len(m_users) /\ CurrentFirst'
         /\ Authenticate(name, pass) => m_current_index' # 0
         /\ ~Authenticate(name, pass) => m_current_index' = m_current_index
<1>1. m_users \in Seq(User)
  BY DEF UsersInv, AccountsInv, Table
<1>2. CASE Authenticate(name, pass)
  <2>1. PICK k : k = IndexOf(name)
    OBVIOUS
  <2>2. m_current_index' = k /\ k # 0
    BY <1>2, <2>1 DEF Login, Authenticate
  <2>3. /\ k \in 0 .. Len(m_users) /\ m_users[k].name = name
        /\ \A j \in 1 .. k : m_users[j].name = name => j = k
    BY <1>1, <2>1, <2>2, IndexOfIsFirst
  <2>4. CurrentFirst'
    BY <2>2, <2>3 DEF CurrentFirst
  <2>5. QED
    BY <1>2, <2>2, <2>3, <2>4
<1>3. CASE ~Authenticate(name, pass)
  <2>1. m_current_index' = m_current_index
    BY <1>3 DEF Login
  <2>2. QED
    BY <1>3, <2>1 DEF UsersInv, SessionInv, CurrentFirst
<1>4. QED
  BY <1>2, <1>3

(***************************************************************************)
(* AddUser and SetPassword save what they changed                          *)
(* (user_service.cpp:155-205, 244-273).                                    *)
(***************************************************************************)
LEMMA SaveKeeps ==
  ASSUME AccountsInv, NEW users \in Table, Save(users)
  PROVE  AccountsInv'
<1>1. m_users' = users /\ (file' = file \/ file' \in AfterSave(file, Lines(users, FALSE)))
  BY DEF Save
<1>2. FALSE \in BOOLEAN /\ file \in Seq(Line) /\ users \in Seq(User)
  BY DEF AccountsInv, Table
<1>3. file' \in Seq(Line)
  BY <1>1, <1>2, SaveTyped
<1>4. QED
  BY <1>1, <1>3 DEF AccountsInv

\* Saves that change no name and leave the accounts in their places.
NamesStay == \A i \in 1 .. Len(m_users) : m_users'[i].name = m_users[i].name

(***************************************************************************)
(* While names and places stay, so does the first account of a name.       *)
(***************************************************************************)
LEMMA CurrentStaysFirst ==
  ASSUME UsersInv, NamesStay, UNCHANGED m_current_index
  PROVE  CurrentFirst'
<1>1. PICK c \in 0 .. Len(m_users) : c = m_current_index
  BY DEF UsersInv, SessionInv
<1>2. Len(m_users) \in Nat
  BY DEF UsersInv, AccountsInv, Table
<1>3. \A j \in 1 .. c : j \in 1 .. Len(m_users) /\ c \in 1 .. Len(m_users)
  BY <1>1, <1>2
<1>4. \A j \in 1 .. c : m_users'[j].name = m_users[j].name /\ m_users'[c].name = m_users[c].name
  BY <1>3 DEF NamesStay
<1>5. \A j \in 1 .. c : m_users[j].name = m_users[c].name => j = c
  BY <1>1 DEF UsersInv, CurrentFirst
<1>6. QED
  BY <1>1, <1>4, <1>5 DEF CurrentFirst

(***************************************************************************)
(* adduser (shell.cpp, user_service.cpp:155-205).                          *)
(***************************************************************************)
LEMMA AddUserKeeps ==
  ASSUME UsersInv, NEW name \in Name, NEW pass \in NewPassword, adduser(name, pass),
         UNCHANGED graphics
  PROVE  UsersInv'
<1>1. PICK n \in Nat : n = Len(m_users) /\ DOMAIN m_users = 1 .. n /\ n < kMaxUsers
  BY DEF UsersInv, AccountsInv, Table, adduser
<1>2. PICK u : u = [name |-> Kept[name], pass |-> pass, uid |-> 1000 + n]
  OBVIOUS
<1>3. Kept[name] \in Name
  BY NamesConstants
<1>4. u \in User
  BY <1>1, <1>2, <1>3 DEF User, Password
<1>5. PICK users : users = Append(m_users, u)
  OBVIOUS
<1>6. m_users \in Seq(User)
  BY DEF UsersInv, AccountsInv, Table
<1>7. users \in Seq(User) /\ Len(users) = n + 1
  BY <1>1, <1>4, <1>5, <1>6
<1>8. \A i \in 1 .. n : users[i] = m_users[i]
  BY <1>1, <1>4, <1>5, <1>6
<1>9. users \in Table
  BY <1>1, <1>7, UsersConstants DEF Table
<1>10. Save(users) /\ UNCHANGED <<m_current_index, prompt>>
  BY <1>1, <1>2, <1>5 DEF adduser
<1>11. AccountsInv'
  BY <1>9, <1>10, SaveKeeps DEF UsersInv
<1>12. m_users' = users /\ m_current_index' \in 0 .. Len(m_users')
  BY <1>1, <1>7, <1>10 DEF UsersInv, SessionInv, Save
<1>13. SessionInv'
  BY <1>10, <1>12 DEF UsersInv, SessionInv, prompt
<1>14. CurrentFirst'
  <2>1. NamesStay
    BY <1>1, <1>8, <1>12 DEF NamesStay
  <2>2. QED
    BY <1>10, <2>1, CurrentStaysFirst
<1>15. QED
  BY <1>11, <1>13, <1>14 DEF UsersInv

(***************************************************************************)
(* passwd (shell.cpp, user_service.cpp:244-273) changes the first account  *)
(* of a name, and no name.                                                 *)
(***************************************************************************)
LEMMA PasswdKeeps ==
  ASSUME UsersInv, NEW name \in Name, NEW pass \in NewPassword, passwd(name, pass),
         UNCHANGED graphics
  PROVE  /\ UsersInv'
         /\ \A i \in 1 .. Len(m_users) : i = IndexOf(name) \/ m_users'[i] = m_users[i]
<1>1. PICK n \in Nat : n = Len(m_users) /\ DOMAIN m_users = 1 .. n /\ n <= kMaxUsers
  BY DEF UsersInv, AccountsInv, Table
<1>2. m_users \in Seq(User) /\ \A i \in 1 .. n : m_users[i] \in User
  BY <1>1 DEF UsersInv, AccountsInv, Table
<1>3. PICK k : k = IndexOf(name) /\ Save([m_users EXCEPT ![k].pass = pass])
  BY DEF passwd
<1>4. k \in 1 .. n
  <2>1. IndexOf(name) \in 0 .. n /\ IndexOf(name) # 0
    BY <1>1, <1>2, IndexOfIsFirst DEF passwd
  <2>2. QED
    BY <1>3, <2>1
<1>5. PICK users : users = [m_users EXCEPT ![k].pass = pass]
  OBVIOUS
<1>6. [m_users[k] EXCEPT !.pass = pass] \in User
      /\ [m_users[k] EXCEPT !.pass = pass].name = m_users[k].name
  BY <1>2, <1>4 DEF User, Password
<1>7. users \in Seq(User) /\ Len(users) = n
  BY <1>1, <1>2, <1>4, <1>5, <1>6
<1>8. \A i \in 1 .. n : users[i].name = m_users[i].name /\ (i = k \/ users[i] = m_users[i])
  BY <1>1, <1>2, <1>4, <1>5, <1>6
<1>9. users \in Table
  BY <1>1, <1>7 DEF Table
<1>10. Save(users) /\ UNCHANGED <<m_current_index, prompt>>
  BY <1>3, <1>5 DEF passwd
<1>11. AccountsInv'
  BY <1>9, <1>10, SaveKeeps DEF UsersInv
<1>12. m_users' = users /\ Len(m_users') = n
  BY <1>7, <1>10 DEF Save
<1>13. SessionInv'
  BY <1>1, <1>10, <1>12 DEF UsersInv, SessionInv, prompt
<1>14. CurrentFirst'
  <2>1. NamesStay
    BY <1>1, <1>8, <1>12 DEF NamesStay
  <2>2. QED
    BY <1>10, <2>1, CurrentStaysFirst
<1>15. QED
  BY <1>1, <1>3, <1>8, <1>11, <1>12, <1>13, <1>14 DEF UsersInv

(***************************************************************************)
(* The prompt, the login screen, su and logout change the session and not  *)
(* the accounts (shell.cpp:128-185, user_service.cpp:284-300).             *)
(***************************************************************************)
LEMMA SessionStepsKeep ==
  ASSUME UsersInv, UNCHANGED graphics,
         \/ \E name \in Name : EnterUser(name)
         \/ \E pass \in Password : EnterPassword(pass)
         \/ \E name \in Name, pass \in Password : GraphicalLogin(name, pass)
         \/ \E name \in Name, pass \in Password : su(name, pass)
         \/ logout
  PROVE  UsersInv' /\ UNCHANGED m_users
<1>1. UNCHANGED <<m_users, file>>
  BY DEF EnterUser, EnterPassword, GraphicalLogin, su, logout, accounts
<1>2. AccountsInv'
  BY <1>1 DEF UsersInv, AccountsInv
<1>3. Len(m_users) \in Nat
  BY DEF UsersInv, AccountsInv, Table
<1>4. PICK R \in Nat \ {0} : R = Retries
  BY UsersConstants
<1>5. ASSUME NEW name \in Name, EnterUser(name) PROVE SessionInv' /\ CurrentFirst'
  BY <1>1, <1>5 DEF UsersInv, SessionInv, CurrentFirst, EnterUser, accounts
<1>6. ASSUME NEW pass \in Password, EnterPassword(pass) PROVE SessionInv' /\ CurrentFirst'
  <2>1. /\ m_current_index' \in 0 .. Len(m_users) /\ CurrentFirst'
        /\ Authenticate(loginUser, pass) => m_current_index' # 0
        /\ ~Authenticate(loginUser, pass) => m_current_index' = m_current_index
    BY <1>1, <1>6, LoginKeeps DEF EnterPassword
  <2>2. ~graphics /\ m_current_index = 0
    BY <1>6 DEF EnterPassword, UsersInv, SessionInv
  <2>3. CASE Authenticate(loginUser, pass)
    <3>1. mode' = "Normal" /\ retries_left' = retries_left
      BY <1>6, <2>3 DEF EnterPassword
    <3>2. QED
      BY <1>1, <2>1, <2>3, <3>1 DEF UsersInv, SessionInv
  <2>4. CASE ~Authenticate(loginUser, pass)
    <3>1. mode' = "LoginUser" /\ Refuse
      BY <1>6, <2>4 DEF EnterPassword
    <3>2. PICK r \in 1 .. R : r = retries_left
      BY <1>4 DEF UsersInv, SessionInv
    <3>3. r \in Nat /\ (r > 1 => r - 1 \in 1 .. R) /\ R \in 1 .. R
      BY <1>4
    <3>4. retries_left' \in 1 .. R
      BY <1>4, <3>1, <3>2, <3>3 DEF Refuse
    <3>5. QED
      BY <1>1, <1>4, <2>1, <2>2, <2>4, <3>1, <3>4 DEF UsersInv, SessionInv
  <2>5. QED
    BY <2>3, <2>4
<1>7. ASSUME NEW name \in Name, NEW pass \in Password, GraphicalLogin(name, pass)
      PROVE  SessionInv' /\ CurrentFirst'
  <2>1. m_current_index' \in 0 .. Len(m_users) /\ CurrentFirst'
    BY <1>1, <1>7, LoginKeeps DEF GraphicalLogin
  <2>2. QED
    BY <1>1, <1>7, <2>1 DEF UsersInv, SessionInv, GraphicalLogin, prompt
<1>8. ASSUME NEW name \in Name, NEW pass \in Password, su(name, pass)
      PROVE  SessionInv' /\ CurrentFirst'
  <2>1. /\ m_current_index' \in 0 .. Len(m_users) /\ CurrentFirst'
        /\ Authenticate(name, pass) => m_current_index' # 0
        /\ ~Authenticate(name, pass) => m_current_index' = m_current_index
    BY <1>1, <1>8, LoginKeeps DEF su
  <2>2. QED
    BY <1>1, <1>8, <2>1 DEF UsersInv, SessionInv, su, AtCommand, prompt
<1>9. ASSUME logout PROVE SessionInv' /\ CurrentFirst'
  <2>1. m_current_index' = 0
    BY <1>9 DEF logout
  <2>2. CurrentFirst'
    BY <2>1 DEF CurrentFirst
  <2>3. QED
    BY <1>1, <1>3, <1>4, <1>9, <2>2 DEF UsersInv, SessionInv, logout, AtCommand
<1>10. QED
  BY <1>1, <1>2, <1>5, <1>6, <1>7, <1>8, <1>9 DEF UsersInv

(***************************************************************************)
(* Every step keeps the invariant of the users.                            *)
(***************************************************************************)
LEMMA UsersKept ==
  ASSUME UsersInv, [Next]_vars
  PROVE  UsersInv'
<1>1. CASE UNCHANGED <<accounts, prompt>> /\ UNCHANGED graphics
  BY <1>1 DEF UsersInv, AccountsInv, SessionInv, CurrentFirst, accounts, prompt
<1>2. CASE UserNext /\ UNCHANGED manager
  <2>1. UNCHANGED graphics
    BY <1>2 DEF manager
  <2>2. QED
    BY <1>2, <2>1, SessionStepsKeep, AddUserKeeps, PasswdKeeps DEF UserNext
<1>3. CASE Restart
  BY <1>3, RestartKeepsUsers
<1>4. ManagerNext => UNCHANGED graphics
  BY DEF ManagerNext, TimerInterrupt, BeginPass, VisitNext
<1>5. QED
  BY <1>1, <1>2, <1>3, <1>4 DEF Next, vars, manager

(***************************************************************************)
(* The built-in accounts, nobody logged in: the invariant holds at first.  *)
(***************************************************************************)
LEMMA UsersStart ==
  ASSUME Init
  PROVE  UsersInv
<1>1. file \in Seq(Line) /\ m_users \in Table /\ Len(m_users) = 2
  BY FactoryAccounts DEF Init
<1>2. Retries \in 1 .. Retries
  BY UsersConstants
<1>3. SessionInv
  BY <1>1, <1>2 DEF Init, SessionInv
<1>4. CurrentFirst
  BY DEF Init, CurrentFirst
<1>5. QED
  BY <1>1, <1>3, <1>4 DEF UsersInv, AccountsInv

(***************************************************************************)
(* The invariant of the users holds in every reachable state.              *)
(***************************************************************************)
LEMMA UsersHold == Spec => []UsersInv
<1>1. Init => UsersInv
  BY UsersStart
<1>2. UsersInv /\ [Next]_vars => UsersInv'
  BY UsersKept
<1>3. QED
  BY <1>1, <1>2, PTL DEF Spec

(***************************************************************************)
(* passwd by somebody who is not the superuser changes the own account:    *)
(* the first of its name is the one that is logged in.                     *)
(***************************************************************************)
LEMMA PasswdIsOwn ==
  ASSUME UsersInv, NEW name \in Name, NEW pass \in NewPassword, passwd(name, pass),
         UNCHANGED graphics, ~IsSuperuser
  PROVE  \A i \in DOMAIN m_users : m_users'[i] = m_users[i] \/ i = m_current_index
<1>1. m_users \in Seq(User) /\ DOMAIN m_users = 1 .. Len(m_users) /\ Len(m_users) \in Nat
  BY DEF UsersInv, AccountsInv, Table
<1>2. PICK c \in 1 .. Len(m_users) : c = m_current_index
  BY <1>1 DEF passwd, AtCommand, UsersInv, SessionInv
<1>3. m_users[c].name = name
  BY <1>2 DEF passwd, CurrentUserName
<1>4. PICK k \in 1 .. Len(m_users) :
             /\ k = IndexOf(name) /\ m_users[k].name = name
             /\ \A j \in 1 .. k : m_users[j].name = name => j = k
  <2>1. IndexOf(name) # 0
    BY DEF passwd
  <2>2. QED
    BY <1>1, <2>1, IndexOfIsFirst
<1>5. k = c
  <2>1. c \in 1 .. k \/ k \in 1 .. c
    BY <1>1
  <2>2. \A j \in 1 .. c : m_users[j].name = m_users[c].name => j = c
    BY <1>2 DEF UsersInv, CurrentFirst
  <2>3. QED
    BY <1>3, <1>4, <2>1, <2>2
<1>6. QED
  BY <1>1, <1>2, <1>4, <1>5, PasswdKeeps

(***************************************************************************)
(* Whoever is not the superuser changes no account but the own one         *)
(* (shell.cpp:545, user_service.cpp:244), also when a name is there twice  *)
(* because it was cut or read back from the file.                          *)
(***************************************************************************)
THEOREM PasswordsAreOwn == Spec => OwnPasswordOnly
<1>1. ASSUME UsersInv, [Next]_vars, mode = "Normal", mode' = "Normal", NEW i \in DOMAIN m_users
      PROVE  m_users'[i] = m_users[i] \/ IsSuperuser \/ i = m_current_index
  <2>1. CASE UNCHANGED m_users
    BY <2>1
  <2>2. CASE UserNext /\ UNCHANGED manager
    <3>1. UNCHANGED graphics
      BY <2>2 DEF manager
    <3>2. ASSUME NEW name \in Name, NEW pass \in NewPassword, adduser(name, pass)
          PROVE  IsSuperuser
      BY <3>2 DEF adduser
    <3>3. ASSUME NEW name \in Name, NEW pass \in NewPassword, passwd(name, pass)
          PROVE  m_users'[i] = m_users[i] \/ IsSuperuser \/ i = m_current_index
      BY <1>1, <3>1, <3>3, PasswdIsOwn
    <3>4. QED
      BY <1>1, <2>1, <2>2, <3>1, <3>2, <3>3, SessionStepsKeep DEF UserNext
  <2>3. ~Restart
    BY <1>1 DEF Restart
  <2>4. QED
    BY <1>1, <2>1, <2>2, <2>3 DEF Next, vars, accounts
<1>2. UsersInv /\ [Next]_vars
        => [mode = "Normal" /\ mode' = "Normal"
              => \A i \in DOMAIN m_users :
                   m_users'[i] = m_users[i] \/ IsSuperuser \/ i = m_current_index]_vars
  BY <1>1
<1>3. QED
  BY <1>2, UsersHold, PTL DEF Spec, OwnPasswordOnly

(***************************************************************************)
(* In text mode somebody is logged in exactly when the shell takes         *)
(* commands (shell.cpp:128-185), and the accounts have their types,        *)
(* however long the session and however many restarts it has, whatever     *)
(* the file's lines are read as.                                           *)
(***************************************************************************)
THEOREM SessionFollowsPrompt == Spec => []SessionAtPrompt
<1>1. ManagerInv /\ UsersInv => SessionAtPrompt
  <2> SUFFICES ASSUME ManagerInv, UsersInv PROVE SessionAtPrompt
    OBVIOUS
  <2>2. PICK W \in Nat \ {0} : W = Word
    BY ServicesConstants
  <2>3. UptimeAt(W) \in Nat
    BY UptimeOf
  <2>4. ASSUME NEW s \in Service PROVE last_tick_ms[s] \in 0 .. UptimeAt(Word) + Word
    <3>1. tickedAt[s] \in Nat /\ last_tick_ms[s] = UptimeAt(tickedAt[s])
      BY DEF ManagerInv, TicksInv
    <3>2. last_tick_ms[s] \in Nat /\ last_tick_ms[s] < W
      BY <2>2, <3>1, UptimeOf
    <3>3. PICK v \in Nat, z \in Nat : v = last_tick_ms[s] /\ z = UptimeAt(W)
      BY <2>3, <3>2
    <3>4. v \in 0 .. z + W
      BY <3>2, <3>3
    <3>5. QED
      BY <2>2, <3>3, <3>4
  <2>5. last_tick_ms \in [Service -> 0 .. UptimeAt(Word) + Word]
    <3>1. last_tick_ms = [s \in Service |-> last_tick_ms[s]]
      BY DEF ManagerInv, TicksInv
    <3>2. QED
      BY <2>4, <3>1
  <2>6. TypeOK
    BY <2>5 DEF ManagerInv, ManagerTypes, UsersInv, AccountsInv, Table, SessionInv, TypeOK
  <2>7. QED
    BY <2>6 DEF UsersInv, AccountsInv, SessionInv, SessionAtPrompt
<1>2. QED
  BY <1>1, ManagerHolds, UsersHold, PTL

------------------------------------------------------------------------------
\* The milliseconds that passed from time a to time t.
Passed(a, t) == ((t - a) * Millis) \div Frequency

\* At time t a lock that began at time a is over, or the uptime wrapped since.
LockOver(a, t) == Passed(a, t) >= LockMs \/ Wraps(a) # Wraps(t)

(***************************************************************************)
(* The prompt's part of the invariant: lock_until_ms is the lock's end, or *)
(* was cleared once it was over.                                           *)
(***************************************************************************)
LockInv ==
  /\ lockedAt \in Nat /\ lockedAt <= time
  /\ mode # "LoginUser" => lock_until_ms = 0
  /\ lockedAt # 0 /\ UptimeAt(lockedAt) # 0
       => \/ lock_until_ms = UptimeAt(lockedAt) + LockMs
          \/ lock_until_ms = 0 /\ LockOver(lockedAt, time)

(***************************************************************************)
(* Time that passed only grows (service_manager.cpp:183).                  *)
(***************************************************************************)
LEMMA PassedGrows ==
  ASSUME NEW a \in Nat, NEW t \in Nat, NEW t2 \in Nat, a <= t, t <= t2
  PROVE  Passed(a, t) \in Nat /\ Passed(a, t2) \in Nat /\ Passed(a, t) <= Passed(a, t2)
<1>1. PICK M, F \in Nat \ {0} : M = Millis /\ F = Frequency
  BY ServicesConstants
<1>2. PICK d \in Nat, e \in Nat : d = t - a /\ t2 - a = d + e
  <2>1. t - a \in Nat /\ t2 - t \in Nat /\ t2 - a = (t - a) + (t2 - t)
    OBVIOUS
  <2>2. QED
    BY <2>1
<1>3. (d + e) * M = d * M + e * M /\ d * M \in Nat /\ e * M \in Nat
  BY <1>1
<1>4. PICK x \in Nat, y \in Nat : x = d * M /\ y = (d + e) * M
  BY <1>3
<1>5. x <= y
  BY <1>3, <1>4
<1>6. x \div F \in Nat /\ x \div F <= y \div F /\ y \div F \in Nat
  BY <1>1, <1>5, DivMonotone
<1>7. QED
  BY <1>1, <1>2, <1>4, <1>6 DEF Passed

(***************************************************************************)
(* A lock that is over stays over.                                         *)
(***************************************************************************)
LEMMA LockStaysOver ==
  ASSUME NEW a \in Nat, NEW t \in Nat, NEW t2 \in Nat, a <= t, t <= t2, LockOver(a, t)
  PROVE  LockOver(a, t2)
<1>1. CASE Passed(a, t) >= LockMs
  <2>1. PICK x \in Nat, y \in Nat : x = Passed(a, t) /\ y = Passed(a, t2) /\ x <= y
    BY PassedGrows
  <2>2. LockMs \in Nat
    BY UsersConstants
  <2>3. y >= LockMs
    BY <1>1, <2>1, <2>2
  <2>4. QED
    BY <2>1, <2>3 DEF LockOver
<1>2. CASE Wraps(a) # Wraps(t)
  BY <1>2, WrapStays DEF LockOver
<1>3. QED
  BY <1>1, <1>2 DEF LockOver

(***************************************************************************)
(* The prompt's test (shell.cpp:135): once it lets a key through, the lock *)
(* is over.                                                                *)
(***************************************************************************)
LEMMA TestEndsLock ==
  ASSUME NEW a \in Nat, NEW t \in Nat, a <= t, UptimeAt(a) # 0,
         UptimeAt(t) = 0 \/ ~(UptimeAt(t) < UptimeAt(a) + LockMs)
  PROVE  LockOver(a, t)
<1> SUFFICES ASSUME Wraps(a) = Wraps(t) PROVE Passed(a, t) >= LockMs
  BY DEF LockOver
<1>1. PICK u \in Nat, v \in Nat : u = UptimeAt(a) /\ v = UptimeAt(t)
  BY UptimeOf
<1>2. t <= t
  OBVIOUS
<1>3. PICK e \in Nat : e = Passed(a, t)
  BY <1>2, PassedGrows
<1>4. LockMs \in Nat /\ Millis % Frequency = 0
  BY UsersConstants, LockFits
<1>5. v = u + e
  BY <1>1, <1>3, <1>4, UptimeAdvances DEF Passed
<1>6. u # 0 /\ (v = 0 \/ ~(v < u + LockMs))
  BY <1>1
<1>7. e >= LockMs
  BY <1>4, <1>5, <1>6
<1>8. QED
  BY <1>3, <1>7

(***************************************************************************)
(* An uptime that is ahead again after a wrap: more than a whole turn of   *)
(* it, and so the lock's time, has passed (service_manager.cpp:183).       *)
(***************************************************************************)
LEMMA AheadAfterWrap ==
  ASSUME NEW a \in Nat, NEW t \in Nat, a <= t, LockOver(a, t), UptimeAt(t) > UptimeAt(a)
  PROVE  Passed(a, t) >= LockMs
<1> SUFFICES ASSUME Wraps(a) # Wraps(t) PROVE Passed(a, t) >= LockMs
  BY DEF LockOver
<1>1. PICK M, W, F \in Nat \ {0} : M = Millis /\ W = Word /\ F = Frequency
  BY ServicesConstants
<1>2. PICK d \in Nat : d = t - a
  OBVIOUS
<1>3. PICK x \in Nat, y \in Nat, e \in Nat : x = a * M /\ y = t * M /\ e = d * M
  BY <1>1
<1>4. y = x + e
  BY <1>1, <1>2, <1>3
<1>5. PICK k \in Nat, u \in Nat : k = x \div W /\ u = x % W
  BY <1>1
<1>6. PICK m \in Nat, v \in Nat : m = y \div W /\ v = y % W
  BY <1>1
<1>7. k < m
  <2>1. Wraps(a) \in Nat /\ Wraps(t) \in Nat /\ Wraps(a) <= Wraps(t)
    BY WrapsGrow
  <2>2. Wraps(a) = k /\ Wraps(t) = m
    BY <1>1, <1>3, <1>5, <1>6 DEF Wraps
  <2>3. QED
    BY <2>1, <2>2
<1>8. u < v
  <2>1. u \div F < v \div F /\ u \div F \in Nat /\ v \div F \in Nat
    BY <1>1, <1>3, <1>5, <1>6, UptimeOf
  <2>2. ASSUME v <= u PROVE FALSE
    <3>1. v \div F <= u \div F
      BY <2>2, <1>1, DivMonotone
    <3>2. QED
      BY <2>1, <3>1
  <2>3. QED
    BY <2>2
<1>9. x = k * W + u /\ y = m * W + v
  BY <1>1, <1>5, <1>6
<1>10. PICK g \in Nat : m = k + 1 + g
  BY <1>7
<1>11. m * W = k * W + W + g * W /\ k * W \in Nat /\ g * W \in Nat
  BY <1>1, <1>10
<1>12. PICK p \in Nat, q \in Nat : p = k * W /\ q = g * W
  BY <1>11
<1>13. W <= e
  BY <1>1, <1>4, <1>8, <1>9, <1>11, <1>12
<1>14. W \div F <= e \div F /\ W \div F \in Nat /\ e \div F \in Nat
  BY <1>1, <1>13, DivMonotone
<1>15. LockMs \in Nat /\ LockMs <= W \div F
  BY <1>1, UsersConstants, LockFits
<1>16. Passed(a, t) = e \div F
  BY <1>1, <1>2, <1>3 DEF Passed
<1>17. QED
  BY <1>14, <1>15, <1>16

(***************************************************************************)
(* A name or a password at the prompt, and the refusal that locks it       *)
(* (shell.cpp:132-179), keep the prompt's part of the invariant.           *)
(***************************************************************************)
LEMMA PromptKeepsLock ==
  ASSUME LockInv, time \in Nat, UNCHANGED time,
         (\E name \in Name : EnterUser(name)) \/ (\E pass \in Password : EnterPassword(pass))
  PROVE  LockInv'
<1>1. lockedAt \in Nat /\ lockedAt <= time /\ (mode # "LoginUser" => lock_until_ms = 0)
  BY DEF LockInv
<1>2. ~Locked
  BY DEF EnterUser, EnterPassword
<1>3. lockedAt # 0 /\ UptimeAt(lockedAt) # 0 => LockOver(lockedAt, time)
  <2>1. SUFFICES ASSUME lockedAt # 0, UptimeAt(lockedAt) # 0,
                        lock_until_ms = UptimeAt(lockedAt) + LockMs
                 PROVE  LockOver(lockedAt, time)
    BY DEF LockInv
  <2>2. PICK u \in Nat : u = UptimeAt(lockedAt)
    BY <1>1, UptimeOf
  <2>3. LockMs \in Nat \ {0}
    BY UsersConstants
  <2>4. lock_until_ms # 0
    BY <2>1, <2>2, <2>3
  <2>5. UptimeAt(time) = 0 \/ ~(UptimeAt(time) < UptimeAt(lockedAt) + LockMs)
    BY <1>2, <2>1, <2>4 DEF Locked, UptimeMs
  <2>6. QED
    BY <1>1, <2>1, <2>5, TestEndsLock
<1>4. CASE lock_until_ms' = 0 /\ UNCHANGED lockedAt
  BY <1>1, <1>3, <1>4 DEF LockInv
<1>5. CASE mode' = "LoginUser" /\ lock_until_ms' = (UptimeMs + LockMs) % Word /\ lockedAt' = time
  <2>1. PICK v \in Nat, W \in Nat \ {0}, L \in Nat :
          v = UptimeAt(time) /\ W = Word /\ L = LockMs
    BY UptimeOf, ServicesConstants, UsersConstants
  <2>2. PICK h \in Nat : h = Word \div Frequency
    BY ServicesConstants
  <2>3. v <= h /\ h + L < W
    BY <2>1, <2>2, UptimeOf, LockFits
  <2>4. (v + L) % W = v + L
    BY <2>1, <2>2, <2>3
  <2>5. lock_until_ms' = UptimeAt(lockedAt') + LockMs
    BY <1>5, <2>1, <2>4 DEF UptimeMs
  <2>6. lockedAt' \in Nat /\ lockedAt' <= time'
    BY <1>5
  <2>7. QED
    BY <1>5, <2>5, <2>6 DEF LockInv
<1>6. QED
  BY <1>4, <1>5 DEF EnterUser, EnterPassword, Refuse

(***************************************************************************)
(* Every step keeps the prompt's part of the invariant: the lock is set    *)
(* and cleared at the prompt only, and time does not undo it.              *)
(***************************************************************************)
LEMMA LockKept ==
  ASSUME LockInv, ManagerInv, [Next]_vars
  PROVE  LockInv'
<1>1. time \in Nat /\ MaxTime \in Nat
  BY ServicesConstants DEF ManagerInv, ManagerTypes
<1>2. lockedAt \in Nat /\ lockedAt <= time
  BY DEF LockInv
<1>3. CASE UNCHANGED <<mode, lock_until_ms, lockedAt>> /\ time' \in Nat /\ time <= time'
  <2>1. LockOver(lockedAt, time) => LockOver(lockedAt, time')
    BY <1>1, <1>2, <1>3, LockStaysOver
  <2>2. lockedAt <= time'
    BY <1>1, <1>2, <1>3
  <2>3. QED
    BY <1>2, <1>3, <2>1, <2>2 DEF LockInv
<1>4. CASE Restart
  <2>1. lock_until_ms' = 0 /\ lockedAt' = 0 /\ time' = 0
    BY <1>4 DEF Restart, InitAndStart
  <2>2. QED
    BY <2>1 DEF LockInv
<1>5. CASE logout /\ UNCHANGED time
  BY <1>5 DEF LockInv, logout, AtCommand
<1>6. CASE /\ UNCHANGED time
           /\ (\E name \in Name : EnterUser(name)) \/ (\E pass \in Password : EnterPassword(pass))
  BY <1>1, <1>6, PromptKeepsLock
<1>7. CASE ManagerNext /\ UNCHANGED <<accounts, prompt>>
  <2>1. time' = time \/ time' = time + 1
    BY <1>7 DEF ManagerNext, TimerInterrupt, BeginPass, VisitNext
  <2>2. QED
    BY <1>1, <1>3, <1>7, <2>1 DEF prompt
<1>8. CASE UserNext /\ UNCHANGED manager
  <2>1. UNCHANGED time /\ time <= time
    BY <1>1, <1>8 DEF manager
  <2>2. ASSUME NEW name \in Name, NEW pass \in Password,
               GraphicalLogin(name, pass) \/ su(name, pass)
        PROVE  LockInv'
    BY <1>1, <1>3, <2>1, <2>2 DEF GraphicalLogin, su, prompt
  <2>3. ASSUME NEW name \in Name, NEW pass \in NewPassword,
               adduser(name, pass) \/ passwd(name, pass)
        PROVE  LockInv'
    BY <1>1, <1>3, <2>1, <2>3 DEF adduser, passwd, prompt
  <2>4. QED
    BY <1>5, <1>6, <1>8, <2>1, <2>2, <2>3 DEF UserNext
<1>9. CASE UNCHANGED vars
  <2>1. UNCHANGED <<mode, lock_until_ms, lockedAt, time>> /\ time <= time
    BY <1>1, <1>9 DEF vars, manager, prompt
  <2>2. QED
    BY <1>1, <1>3, <2>1
<1>10. QED
  BY <1>4, <1>7, <1>8, <1>9 DEF Next

(***************************************************************************)
(* Once the prompt locked (shell.cpp:171), it checks no password before    *)
(* the lock's time has passed, until the uptime wraps.                     *)
(***************************************************************************)
THEOREM PromptStaysLocked == Spec => LockHolds
<1>1. Init => LockInv
  <2>1. Init => lockedAt = 0 /\ time = 0 /\ lock_until_ms = 0
    BY DEF Init
  <2>2. QED
    BY <2>1 DEF LockInv
<1>2. LockInv /\ ManagerInv /\ [Next]_vars => LockInv'
  BY LockKept
<1>3. LockInv /\ ManagerInv
        => (mode = "LoginPass" /\ lockedAt # 0 /\ UptimeMs > UptimeAt(lockedAt)
              /\ UptimeAt(lockedAt) # 0
            => ((time - lockedAt) * Millis) \div Frequency >= LockMs)
  <2> SUFFICES ASSUME LockInv, ManagerInv, mode = "LoginPass", lockedAt # 0,
                      UptimeMs > UptimeAt(lockedAt), UptimeAt(lockedAt) # 0
               PROVE  Passed(lockedAt, time) >= LockMs
    BY DEF Passed
  <2>1. lockedAt \in Nat /\ lockedAt <= time /\ time \in Nat
    BY ServicesConstants DEF LockInv, ManagerInv, ManagerTypes
  <2>2. UptimeAt(time) > UptimeAt(lockedAt)
    BY DEF UptimeMs
  <2>3. PICK u \in Nat, L \in Nat \ {0} : u = UptimeAt(lockedAt) /\ L = LockMs
    BY <2>1, UptimeOf, UsersConstants
  <2>4. lock_until_ms = 0
    BY DEF LockInv
  <2>5. lock_until_ms # UptimeAt(lockedAt) + LockMs
    BY <2>3, <2>4
  <2>6. LockOver(lockedAt, time)
    BY <2>5 DEF LockInv
  <2>7. QED
    BY <2>1, <2>2, <2>6, AheadAfterWrap
<1>4. LockInv /\ ManagerInv
        => [LET checked == mode = "LoginPass" /\ mode' # "LoginPass" /\ time' = time
                under == lockedAt # 0 /\ UptimeMs > UptimeAt(lockedAt) /\ UptimeAt(lockedAt) # 0
            IN checked /\ under
                 => ((time - lockedAt) * Millis) \div Frequency >= LockMs]_vars
  BY <1>3
<1>5. QED
  BY <1>1, <1>2, <1>4, ManagerHolds, PTL DEF Spec, LockHolds
=============================================================================

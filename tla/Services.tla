------------------------------ MODULE Services ------------------------------
(***************************************************************************)
(* The service manager (services/service_manager.cpp): the list of         *)
(* registered services, the configuration that enables them, their start   *)
(* at boot, and TickAll, which ticks every service whose interval has      *)
(* passed.  In text mode every third timer interrupt runs TickAll          *)
(* (process/timer.cpp); in graphics mode the kernel's main loop does, and  *)
(* timer interrupts fall between the services of one pass.                 *)
(*                                                                         *)
(* Time is the number of timer interrupts since boot.  The uptime that the *)
(* manager works with is what 32-bit arithmetic makes of it.               *)
(***************************************************************************)
EXTENDS Naturals, Sequences, SequencesExt

CONSTANTS
  List,            (* s_head and on: each new service is put in front      *)
  TickIntervalMs,  (* of every service; 0 for one that is not ticked       *)
  DefaultEnabled,  (* of every service                                     *)
  Millis,          (* milliseconds in a second: 1000                       *)
  Frequency,       (* timer interrupts in a second: 100                    *)
  Word,            (* unsigned arithmetic is modulo Word: 2^32             *)
  TickDivider,     (* timer interrupts for one TickAll in text mode: 3     *)
  MaxTime          (* timer interrupts in one boot (bounds the model)      *)

Service == Range(List)

ASSUME ServicesConstants ==
  /\ List \in Seq(Service) /\ IsInjective(List)
  /\ TickIntervalMs \in [Service -> Nat]
  /\ DefaultEnabled \in [Service -> BOOLEAN]
  /\ {Millis, Frequency, Word, TickDivider} \subseteq Nat \ {0}
  /\ MaxTime \in Nat

VARIABLES
  graphics,       (* g_display_mode is Graphics                            *)
  enabled,        (* of every service                                      *)
  last_tick_ms,   (* of every service; 0 before the first tick             *)
  time,
  tickDiv,        (* s_svc_tick_div                                        *)
  round,          (* TickAll in the main loop: the service it is at, or 0, *)
                  (* and the time when it read the uptime                  *)
  tickedAt,       (* history: the time when the uptime in last_tick_ms     *)
                  (* was read                                              *)
  passedOver      (* history: services left out although their interval    *)
                  (* had passed                                            *)

manager == <<graphics, enabled, last_tick_ms, time, tickDiv, round, tickedAt, passedOver>>

NoPass == [at |-> 0, read |-> 0]

UptimeAt(t) == (((t % Word) * Millis) % Word) \div Frequency

UptimeMs == UptimeAt(time)

\* Milliseconds that really passed since the uptime in last_tick_ms was read.
Elapsed(s, t) == ((t - tickedAt[s]) * Millis) \div Frequency

------------------------------------------------------------------------------
\* Faulty variant: the interval must be exceeded.
DueLate(s, now) ==
  last_tick_ms[s] = 0 \/ now = 0 \/ now - last_tick_ms[s] > TickIntervalMs[s]

Due(s, now) ==
  \/ last_tick_ms[s] = 0
  \/ now = 0
  \/ now >= last_tick_ms[s] /\ now - last_tick_ms[s] >= TickIntervalMs[s]

Periodic(s) == enabled[s] /\ TickIntervalMs[s] # 0

\* TickAll's work for the services in S, with the uptime read at time t.
Visit(S, t) ==
  LET now == UptimeAt(t)
      ticked == {s \in S : Periodic(s) /\ Due(s, now)}
      left == {s \in S : Periodic(s)} \ ticked
      kept == {s \in ticked : now > 0}
  IN /\ last_tick_ms' = [s \in Service |-> IF s \in kept THEN now ELSE last_tick_ms[s]]
     /\ tickedAt' = [s \in Service |-> IF s \in kept THEN t ELSE tickedAt[s]]
     /\ passedOver' = (passedOver \ ticked)
                        \cup {s \in left : Elapsed(s, t) >= TickIntervalMs[s]}

------------------------------------------------------------------------------
TimerInterrupt ==
  /\ time < MaxTime
  /\ time' = time + 1
  /\ \/ /\ graphics
        /\ UNCHANGED <<tickDiv, last_tick_ms, tickedAt, passedOver>>
     \/ /\ ~graphics /\ tickDiv + 1 < TickDivider
        /\ tickDiv' = tickDiv + 1
        /\ UNCHANGED <<last_tick_ms, tickedAt, passedOver>>
     \/ /\ ~graphics /\ tickDiv + 1 >= TickDivider
        /\ tickDiv' = 0
        /\ Visit(Service, time + 1)
  /\ UNCHANGED <<graphics, enabled, round>>

BeginPass ==
  /\ graphics /\ round.at = 0
  /\ round' = [at |-> 1, read |-> time]
  /\ UNCHANGED <<graphics, enabled, last_tick_ms, time, tickDiv, tickedAt, passedOver>>

VisitNext ==
  /\ round.at # 0
  /\ Visit({List[round.at]}, round.read)
  /\ round' = IF round.at = Len(List) THEN NoPass ELSE [round EXCEPT !.at = @ + 1]
  /\ UNCHANGED <<graphics, enabled, time, tickDiv>>

\* Register and InitAndStart: a service is enabled by default or as the
\* configuration file says, which is read when a file system is mounted.
InitAndStart(config) ==
  /\ graphics' \in BOOLEAN
  /\ enabled' = config
  /\ last_tick_ms' = [s \in Service |-> 0]
  /\ time' = 0 /\ tickDiv' = 0
  /\ round' = NoPass
  /\ tickedAt' = [s \in Service |-> 0]
  /\ passedOver' = {}

ManagerNext == TimerInterrupt \/ BeginPass \/ VisitNext

------------------------------------------------------------------------------
\* The uptime went back to a smaller number since last_tick_ms was set.
Wrapped(s, t) == (tickedAt[s] * Millis) \div Word # (t * Millis) \div Word

\* A service is left out of a pass although its interval has passed only
\* after the 32-bit uptime wrapped: until then TickAll
\* (service_manager.cpp:205) ticks it "when enough time passed per service
\* interval", however many timer interrupts fall within its pass.
PassedOverOnlyAfterWrap == \A s \in passedOver : Wrapped(s, time)
==============================================================================

------------------------------ MODULE MCQueues ------------------------------
(* Model checking of the message queue, the input event queue and the rings    *)
(* of the network adapter, which share no state: a behaviour follows one of    *)
(* them, and the others stay empty.                                            *)
EXTENDS MessageQueue, InputEventQueue, Network

VARIABLE part  (* the one the behaviour follows *)

QueuesInit ==
  /\ part \in {"messages", "events", "frames"}
  /\ Init /\ RingInit /\ NetInit

QueuesNext ==
  /\ part' = part
  /\ \/ part = "messages" /\ Next /\ UNCHANGED <<ringVars, netVars>>
     \/ part = "events" /\ RingNext /\ UNCHANGED <<vars, netVars>>
     \/ part = "frames" /\ NetNext /\ UNCHANGED <<vars, ringVars>>

QueuesSpec == QueuesInit /\ [][QueuesNext]_<<vars, ringVars, netVars, part>>
=============================================================================

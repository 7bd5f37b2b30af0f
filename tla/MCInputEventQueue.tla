------------------------- MODULE MCInputEventQueue -------------------------
(* One producer in the interrupts and one consumer, as event_queue.hpp:49 has *)
(* it: neither Clear nor a polled Enqueue.                                    *)
EXTENDS InputEventQueue

SingleSpec == RingInit /\ [][Enqueue \/ Dequeue]_ringVars
=============================================================================

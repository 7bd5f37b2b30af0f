---------------------------- MODULE MCScheduler ----------------------------
(* Model checking of Scheduler: two tasks with every priority and sleeping   *)
(* time of the .cfg file, a third one only among tasks of the lowest level.  *)
EXTENDS Scheduler

ThirdAtLowestLevel ==
  next_task_id > 3 => \A t \in Task : s.state[t] # "NONE" => s.priority[t] = 4

MCSpec == Init /\ [][Next /\ ThirdAtLowestLevel']_vars
=============================================================================

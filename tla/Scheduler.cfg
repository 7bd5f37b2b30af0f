SPECIFICATION MCSpec
CONSTANTS
  MaxTasks = 3
  Priorities = {3, 4}
  SleepTimes = {0}
  TickModulus = 2
INVARIANTS ListsIntact OneRunning
PROPERTIES RunQueuesButForDrops StrictPriority WokenGoFirst
CHECK_DEADLOCK FALSE

SPECIFICATION Spec
CONSTANTS
  MaxTasks = 2
  Priorities = {4}
  SleepTimes = {0}
  TickModulus = 2
PROPERTIES ImplementsRunQueues
CHECK_DEADLOCK FALSE

SPECIFICATION SingleSpec
CONSTANTS
  MAX_EVENTS = 3
  Accepted = 8
INVARIANTS CountExact
CHECK_DEADLOCK FALSE

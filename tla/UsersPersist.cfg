SPECIFICATION Spec
CONSTANTS
  List <- MCList
  TickIntervalMs <- MCInterval
  DefaultEnabled <- MCDefault
  Millis = 4
  Frequency = 2
  Word = 16
  TickDivider = 2
  MaxTime = 6
  UserSvc = "USER"
  NewName = {"ann", "an", "user:y"}
  Kept <- MCKept
  Parts <- MCParts
  Digits <- MCDigits
  NewPassword = {"new"}
  kMaxUsers = 4
  Retries = 2
  LockMs = 4
  ReadLines = 3
  MaxLines = 5
PROPERTIES AccountsPersist
CHECK_DEADLOCK FALSE

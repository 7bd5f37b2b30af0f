SPECIFICATION ServicesSpec
CONSTANTS
  List <- MCList
  TickIntervalMs <- MCInterval
  DefaultEnabled <- MCDefault
  Millis = 4
  Frequency = 2
  Word = 16
  TickDivider = 2
  MaxTime = 6
  UserSvc = "USER"
  NewName = {"ann", "an", "user:y"}
  Kept <- MCKept
  Parts <- MCParts
  Digits <- MCDigits
  NewPassword = {"new"}
  kMaxUsers = 4
  Retries = 2
  LockMs = 4
  ReadLines = 3
  MaxLines = 5
  MaxWindows = 4
  EventSlots = 7
  MaxComponents = 3
  MaxIds = 6
  Title <- MCTitle
  PostLogin <- MCPostLogin
INVARIANTS PassedOverOnlyAfterWrap SessionAtPrompt
           WindowTableSound LoginBlocksDesktop OneTerminalWindow NoEventDropped
PROPERTIES OwnPasswordOnly LockHolds LayersNeverCrossed
CHECK_DEADLOCK FALSE

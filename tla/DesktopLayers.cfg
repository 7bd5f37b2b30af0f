SPECIFICATION DesktopSpec
CONSTANTS
  MaxWindows = 4
  EventSlots = 7
  MaxComponents = 3
  MaxIds = 6
  Title <- MCTitle
  PostLogin <- MCPostLogin
INVARIANTS LayersOrdered
CHECK_DEADLOCK FALSE

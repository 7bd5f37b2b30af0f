SPECIFICATION KernelSpec
CONSTANTS
  FrameCap = 15
  Reserved = {0, 1, 2}
  IdLimit = 12
  TableSpan = 4
  PageCap = 24
  HeapBase = 9
  HeapCap = 16
  HeapInit = 1
  MaxGrow = 2
  UserPages = {7, 8}
  DevicePages = {17}
  UploadBase = 21
  UploadCap = 2
  HeaderSize = 24
  PointerSize = 4
  MIN_ALIGNMENT = 8
  SPLIT_THRESHOLD = 32
  PAGE_SIZE = 112
  Word = 65536
  Base = 4032
  InitialPages = 2
  MaxPages = 4
  Requests <- SmallRequests
  Thread = {1, 2}
  Member = {1}
  Name <- MCName
  NameSize = 2
  Size = {1, 3}
  MaxPipes = 2
  MaxMembers = 2
  buffer_size = 2
  max_messages = 2
  MaxCreated = 2
  MaxWrites = 2
INVARIANTS FreeCountExact FramesHaveOneOwner LowHeapOwned HeapConsistent NoFreeNeighbours
           AllocationsOwned GrowMakesRoom
           PipesConsistent OvershootBounded ReadInOrder DestroyReleasesCallers
CHECK_DEADLOCK FALSE

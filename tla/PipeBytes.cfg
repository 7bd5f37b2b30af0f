SPECIFICATION PipeSpec
CONSTANTS
  Thread = {1, 2}
  Member = {1}
  Name <- MCName
  NameSize = 2
  Size = {1, 3}
  MaxPipes = 2
  MaxMembers = 2
  buffer_size = 2
  max_messages = 2
  MaxCreated = 2
  MaxWrites = 2
INVARIANTS BytesBounded
CHECK_DEADLOCK FALSE

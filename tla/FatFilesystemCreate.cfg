SPECIFICATION Spec
CONSTANTS
  Format = {"FAT32", "FAT16"}
  Name = {"A", "AX", "D"}
  Short <- MCShort
  ImageDir = "D"
  Path <- MCPath
  Depth = 2
  Length = {2, 3}
  Cells = 2
  RootCells = 2
  LastCluster = 7
  Entries = 9
  MaxOps = 3
  MaxFaults = 1
PROPERTIES CreationReadable
CHECK_DEADLOCK FALSE

SPECIFICATION Spec
CONSTANTS
  x = x
  y = y
  NFatEnt = 6
  PerSector = 3
  NFats = 1
  Fat32 = FALSE
  NoSector = NoSector
  PerTable = 3
  RootTables = 2
  Data = {x, y}
  Leftover = Leftover
  LongNames <- OneLong
  Parts <- GParts
  Base <- GBase
  UnitsPerSector = 2
  Commands <- FewCommands
  BufferSize = 2
  FirstImages <- Fresh
  MaxCommands = 4
  MaxFaults = 1
  MaxAccess = 12
  FaultKinds = {"read", "write", "crash"}
INVARIANTS
  NoCrossLink
PROPERTIES
  ImplementsFileTree
CHECK_DEADLOCK FALSE

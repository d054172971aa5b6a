SPECIFICATION Spec
CONSTANTS
  x = x
  y = y
  NFatEnt = 7
  PerSector = 3
  NFats = 2
  Fat32 = TRUE
  NoSector = NoSector
  PerTable = 3
  RootTables = 0
  Data = {x, y}
  Leftover = Leftover
  LongNames <- TwoLong
  Parts <- TwoParts
  Base <- TwoBase
  UnitsPerSector = 2
  Commands <- MoreCommands
  BufferSize = 2
  FirstImages <- Fresh
  MaxCommands = 5
  MaxFaults = 0
  MaxAccess = 0
  FaultKinds = {}
INVARIANTS
  NamesWhole
PROPERTIES
  LostOnlyWhenRefused
  ImplementsFileTree
CHECK_DEADLOCK FALSE

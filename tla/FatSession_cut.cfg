SPECIFICATION Spec
CONSTANTS
  x = x
  y = y
  z = z
  NFatEnt = 6
  PerSector = 3
  NFats = 1
  Fat32 = FALSE
  NoSector = NoSector
  PerTable = 4
  RootTables = 1
  Data = {x, y, z}
  Leftover = Leftover
  LongNames <- LongG
  Parts <- GParts
  Base <- GBase
  UnitsPerSector = 2
  Calls <- CutCalls
  FirstCalls <- CutCalls
  Objects = {1, 2}
  NotOpen = NotOpen
  FirstImages <- OneFile
  MaxCalls = 7
  MaxAccess = 8
  FaultKinds = {}
PROPERTIES
  OthersKept
CHECK_DEADLOCK FALSE

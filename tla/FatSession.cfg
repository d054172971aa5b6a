SPECIFICATION Spec
CONSTANTS
  x = x
  y = y
  z = z
  NFatEnt = 6
  PerSector = 3
  NFats = 1
  Fat32 = FALSE
  NoSector = NoSector
  PerTable = 4
  RootTables = 1
  Data = {x, y, z}
  Leftover = Leftover
  LongNames <- LongG
  Parts <- GParts
  Base <- GBase
  UnitsPerSector = 2
  Calls <- AllCalls
  FirstCalls <- OpenF
  Objects = {1, 2}
  NotOpen = NotOpen
  FirstImages <- OneFile
  MaxCalls = 5
  MaxAccess = 8
  FaultKinds = {"read", "write"}
INVARIANTS
  PositionCached
  ChainFitsSize
PROPERTIES
  NothingLost
  ShortOnlyWhenFull
  StopKeepsSynced
  ImplementsOpenFiles
CHECK_DEADLOCK FALSE

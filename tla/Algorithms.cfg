SPECIFICATION Spec
CONSTANTS
  MantissaBits = 3
  ExponentBits = 3
  MaskBits = 8
  ClockBits = 13
  SectorSize = 4
  MaxCpus = 2
  MaxIoApics = 2
  MaxPin <- SomeMaxPin
  SelfId = 0
  DefaultAddr = 1
  Lengths <- SomeLengths
  Periods <- AllPeriods
  Clocks <- SomeClocks
  Memories <- SomeMemories
  Addresses <- SomeAddresses
  Lens <- SomeLens
  Values <- SomeValues
  Tables <- SomeTables
  FatEntries <- SomeFatEntries
  Links <- SomeLinks
  Images <- SomeImages
  Madts <- SomeMadts
INVARIANTS
  MadeIsClose
  AbsoluteReplaces
  BytesExact
  EntriesApart
  MountsAsFormatted
  PinsAsListed
CHECK_DEADLOCK FALSE

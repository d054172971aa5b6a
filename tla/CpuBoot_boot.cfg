\* A boot processor and three others, of which CpuList holds two.
CONSTANTS
  bsp = bsp
  a1 = a1
  a2 = a2
  a3 = a3
  p1 = p1
  p2 = p2
  p3 = p3
  p4 = p4
  Apics <- FourApics
  Bsp = bsp
  MaxCpus = 3
  Pages <- FourPages
  Rate = Rate
  None = None
SPECIFICATION FairSpec
INVARIANTS
  TypeOK
  SipiFindsProcessorWaiting
  NoProcessorCrashes
  UnmapAfterAllUp
  OwnStack
  TimersCalibrated
PROPERTIES
  BootCompletes
CHECK_DEADLOCK FALSE

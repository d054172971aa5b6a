\* A root directory and two clusters, in two sectors of two FATs, two faults.
SPECIFICATION Spec
CONSTANTS
  NFatEnt = 5
  PerSector = 2
  NFats = 2
  Fat32 = TRUE
  NoSector = NoSector
  MaxChains = 3
  MaxFaults = 2
  MaxAccess = 2
  InfoKnown = {TRUE, FALSE}
  FaultKinds = {"read", "write", "crash"}
INVARIANTS
  ChainsIntact
  NoSharing
  EveryClusterCounted
  NoSpaceOnlyWhenFull
  CopiesAgree
PROPERTIES
  ImplementsClusterPool

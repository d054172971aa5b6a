SPECIFICATION Spec
CONSTANTS
  NFatEnt = 5
  PerSector = 2
  NFats = 1
  Fat32 = TRUE
  NoSector = NoSector
  MaxChains = 3
  MaxFaults = 1
  MaxAccess = 1
  InfoKnown = {TRUE}
  FaultKinds = {"read"}
INVARIANTS
  FollowedIsFollowed

\* Two processors over two pages: contention for the lock and exhaustion.
CONSTANTS
  c1 = c1
  c2 = c2
  CPUs = {c1, c2}
  NumPages = 2
  Junk = Junk
SPECIFICATION FairSpec
INVARIANTS
  StackIsFreePages
  ZeroedOnReturn
PROPERTIES
  OwnedPagesUntouched
  ImplementsPool
  LockHandedOn

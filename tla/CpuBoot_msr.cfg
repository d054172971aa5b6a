\* SYSCALL registers once a processor is up.
CONSTANTS
  bsp = bsp
  a1 = a1
  a2 = a2
  a3 = a3
  p1 = p1
  p2 = p2
  p3 = p3
  p4 = p4
  Apics <- ThreeApics
  Bsp = bsp
  MaxCpus = 3
  Pages <- ThreePages
  Rate = Rate
  None = None
SPECIFICATION Spec
CHECK_DEADLOCK FALSE
INVARIANTS
  SyscallMasksFlags

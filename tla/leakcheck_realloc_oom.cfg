SPECIFICATION Spec
CONSTANTS
  NULL = NULL
  a1 = a1
  a2 = a2
  a3 = a3
  Addr <- TwoAddrs
  MaxBlocks = 2
  MaxFaultCalls = 3
  NoMemSites <- AllocSites
  LegalUse = TRUE
INVARIANTS
  FreeableOwnsHeap
CHECK_DEADLOCK FALSE

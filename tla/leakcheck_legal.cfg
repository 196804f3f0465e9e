SPECIFICATION Spec
CONSTANTS
  NULL = NULL
  a1 = a1
  a2 = a2
  a3 = a3
  Addr <- ThreeAddrs
  MaxBlocks = 3
  MaxFaultCalls = 4
  NoMemSites <- NoMemBeforeMove
  LegalUse = TRUE
SYMMETRY AddrSymmetry
INVARIANTS
  NeverCrashes
  NeverAccused
CHECK_DEADLOCK FALSE

SPECIFICATION Spec
CONSTANTS
  NULL = NULL
  a1 = a1
  a2 = a2
  a3 = a3
  Addr <- TwoAddrs
  MaxBlocks = 3
  MaxFaultCalls = 4
  NoMemSites <- AllocSites
  LegalUse = FALSE
PROPERTIES
  ReportCountsLeaks
CHECK_DEADLOCK FALSE

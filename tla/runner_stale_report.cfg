SPECIFICATION Spec
CONSTANTS
  FuzzIterations = 2
  Uses <- Leaks
  MaxTests = 2
  MaxSuites = 0
  MaxNesting = 0
  MaxSteps = 1
INVARIANTS
  ReportReadsOwnData
CHECK_DEADLOCK FALSE

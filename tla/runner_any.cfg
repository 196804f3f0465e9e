SPECIFICATION FairSpec
CONSTANTS
  FuzzIterations = 2
  Uses <- AllUses
  MaxTests = 2
  MaxSuites = 1
  MaxNesting = 1
  MaxSteps = 2
INVARIANTS
  TypeOK
  FaultShape
  FuzzReportOwn
PROPERTIES
  ImplementsTally
  FaultRunsMade
  FuzzRunsMade
  SuiteVerdict
  TestEnds
CHECK_DEADLOCK FALSE

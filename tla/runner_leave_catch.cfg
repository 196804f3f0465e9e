SPECIFICATION Spec
CONSTANTS
  FuzzIterations = 2
  Uses <- LeavesCatch
  MaxTests = 2
  MaxSuites = 0
  MaxNesting = 0
  MaxSteps = 1
INVARIANTS
  AccidentalAssertCaught
CHECK_DEADLOCK FALSE

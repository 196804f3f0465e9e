SPECIFICATION Spec
CONSTANTS
    BufSize = 3
    OtherTable <- MCOtherTable
    Given <- FewGiven
    Stray <- NoStray
    TestNames <- MCTests
    SuiteNames <- MCSuites
    MaxSessions = 1
    MaxLater = 1
INVARIANT TableKept
CHECK_DEADLOCK FALSE

SPECIFICATION Spec
CONSTANTS
    BufSize = 3
    OtherTable <- MCOtherTable
    Given <- MCGiven
    Stray <- MCStray
    TestNames <- MCTests
    SuiteNames <- MCSuites
    MaxSessions = 2
    MaxLater = 1
INVARIANTS TypeOK ArgumentsHonoured MessageWhole SessionFollowsArguments
CHECK_DEADLOCK FALSE

SPECIFICATION Spec
CONSTANTS
    ShortMax = 2
    Chunk = 2
    HexLimit = 3
    DecLimit = 3
    CheckTexts <- FewTexts
    MakeTexts <- FewTexts
    UserTokens <- MCUserTokens
    MaxNodes = 1
    MaxSteps = 1
INVARIANT OutOfMemoryReported
CHECK_DEADLOCK FALSE

SPECIFICATION FairSpec
CONSTANTS
    ShortMax = 2
    Chunk = 2
    HexLimit = 3
    DecLimit = 3
    CheckTexts <- MCCheckTexts
    MakeTexts <- MCMakeTexts
    UserTokens <- MCUserTokens
    MaxNodes = 4
    MaxSteps = 3
INVARIANTS TypeOK NeverReadsPast TreeFollowsText EscapeIsUtf8
    CheckVerdict WalkVisitsKids SymsReleased
PROPERTIES BuildersImplementTree ParseEnds
CHECK_DEADLOCK FALSE

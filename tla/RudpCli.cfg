SPECIFICATION CliLiveSpec
CONSTANTS
    SACK_WINDOW = 2
    MaxSeq = 3
    BATCH_SIZE = 2
    TokenCap = 2
    MaxChunk = 2
    SackCap = 1
    CmdCap = 1
    DataCap = 1
    FinCopies = 2
    ProbeTicks = 2
INVARIANTS
    NeverDrains
    OkMeansAllTaken
PROPERTY
    CommandReturns

SPECIFICATION CliSpec
CONSTANTS
    SACK_WINDOW = 2
    MaxSeq = 2
    BATCH_SIZE = 2
    TokenCap = 2
    MaxChunk = 2
    SackCap = 1
    CmdCap = 1
    DataCap = 1
    FinCopies = 2
    ProbeTicks = 2
INVARIANT
    ReceivesAll

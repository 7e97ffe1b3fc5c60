SPECIFICATION Spec
CONSTANTS
    SACK_WINDOW = 2
    MaxSeq = 3
    BATCH_SIZE = 2
    TokenCap = 1
    MaxChunk = 2
    SackCap = 1
INVARIANTS
    NoLoss
    CleanShutdown
    IndInv
PROPERTIES
    AckedForever
    ImplementsTransfer

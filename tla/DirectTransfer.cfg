SPECIFICATION LiveSpec
CONSTANTS
    BLOCK_SIZE = 2
    NFiles = 3
    NBlocks = 3
    Sizes = {0, 1, 2, 3, 5}
    MaxFaults = 1
    MAX_PAYLOAD = 3
    IoCap = 1
    RawCap = 1
    BlockCap = 1
    FinCopies = 2
    Content = 1
INVARIANTS
    WholeBlocksInOrder
    PacksEverything
    FilesArrive
PROPERTY
    ReceiverReturns

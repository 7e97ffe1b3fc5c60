SPECIFICATION LiveSpec
CONSTANTS
    SACK_WINDOW = 2
    MaxSeq = 2
    BATCH_SIZE = 1
    TokenCap = 2
    MaxChunk = 2
    SackCap = 1
PROPERTIES
    EventuallyDelivered
    EventuallyDrained

SPECIFICATION LiveSpec
CONSTANTS
    NFiles = 3
    BigParts = 2
    MaxBlocks = 4
    ReqCap = 1
    ResCap = 2
INVARIANTS
    WindowBounded
    NeverStuck
    OkMeansWritten
PROPERTIES
    CallReturns
    ThreadEnds

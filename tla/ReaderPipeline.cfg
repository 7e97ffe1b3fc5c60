SPECIFICATION LiveSpec
CONSTANTS
    MaxFiles = 3
    MaxCalls = 2
    ReqCap = 2
    ResCap = 2
INVARIANTS
    SubmitNeverStuck
    OwnResultsInOrder
PROPERTIES
    CallReturns
    ThreadEnds

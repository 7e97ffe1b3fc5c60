SPECIFICATION LiveSpec
CONSTANTS
    MaxFiles = 4
    MaxCalls = 1
    ReqCap = 1
    ResCap = 1
PROPERTY
    CallReturns
CHECK_DEADLOCK FALSE

SPECIFICATION LiveSpec
CONSTANTS
    Steps = 3
    MaxBytes = 2
INVARIANTS
    PacerAgrees
    BestOfRound
PROPERTIES
    ClimbsByOne
    NeverStays

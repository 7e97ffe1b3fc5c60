SPECIFICATION Spec
CONSTANTS
    SACK_WORDS = 3
    WORD_BITS = 2
    MaxSeq = 8
    MaxArrivals = 4
    MaxTicks = 3
    SCALE = 53760
INVARIANTS
    RoundTrip
    SlotsCountedOnce
PROPERTIES
    ImplementsWindow
    BaseIsLowestGap
    HurryNeedsHeavyLoss

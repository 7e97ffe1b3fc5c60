SPECIFICATION LiveSpec
CONSTANTS
    a = a
    b = b
    Peers = {a, b}
    NServers = 1
    Attempts = 2
    TurnPeers = {a}
    MaxRepeats = 1
INVARIANTS
    BestPathWins
    RelayIsGranted
    DirectIsGenuine
PROPERTY
    PunchEnds

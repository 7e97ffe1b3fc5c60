SPECIFICATION Spec
CONSTANTS
    c1 = c1
    c2 = c2
    Calls = {c1, c2}
    IdSpace = 2
    session_ttl = 2
    token_ttl = 1
    MaxSessions = 2
    MaxClients = 2
    MaxTime = 2
    MaxRestarts = 1
SYMMETRY Symmetry
INVARIANTS
    UniqueIds
    EndedOnce
    ClientKeepsSession
    RefusalIsFinal

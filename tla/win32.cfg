SPECIFICATION FairSpec
CONSTANTS
    OpenMax = 4
    Clients = {2, 8, 12}
    HListen = 3
    MaxHeld = 4
    MaxOps = 3
INVARIANTS
    HandlesMatch
    MutexWhileAccepting
    CalledOnce
PROPERTIES
    ShutdownEnds
    Answered
CHECK_DEADLOCK FALSE

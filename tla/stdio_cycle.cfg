SPECIFICATION FairSpec
CONSTANTS
    MaxRequests = 2
    MaxConns = 2
    Files = {"f"}
    Uses = {"stdin", "stdout"}
    Careless = {}
INVARIANTS
    NoFreedUse
    OneReply
    ConnectionsAccounted

    
CHECK_DEADLOCK FALSE

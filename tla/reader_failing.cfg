SPECIFICATION Spec
CONSTANTS
    HeaderLen = 2
    BodyLen = 2
    PairLen = 2
    BuffLen = 3
    Wants = {1, 4}
    Connections <- FailingConnections
    MaxConns = 2
    MayCrash = TRUE
    MayFail = TRUE
    EarlyFinish = TRUE
INVARIANTS
    OwnInputInOrder
PROPERTIES
    DataAfterStdin
CHECK_DEADLOCK FALSE

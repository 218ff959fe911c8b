SPECIFICATION FairSpec
CONSTANTS
    HeaderLen = 2
    BodyLen = 2
    PairLen = 2
    BuffLen = 3
    Wants = {1, 4}
    Connections <- ServerConnections
    MaxConns = 1
    MayCrash = FALSE
    MayFail = FALSE
    EarlyFinish = FALSE
INVARIANTS
    OwnInputInOrder
    Answers
PROPERTIES
    NoFalseError
    EveryRequestServed
CHECK_DEADLOCK FALSE

SPECIFICATION FairSpec
CONSTANTS
    Fds = {0, 1, 4}
    TableSize = 2
    MaxOps = 4
    CloseOutside = TRUE
    CloseInside = FALSE
INVARIANTS
    Accounted
PROPERTIES
    Dispatched
CHECK_DEADLOCK FALSE

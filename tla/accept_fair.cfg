SPECIFICATION FairSpec
CONSTANTS
    Workers = {"a", "b", "c"}
    ProcOf <- ThreadsAndProc
    Conns = {"c1", "c2"}
    Kind <- Inet
    Fds = {0}
    UseLocking = TRUE
    FailOnIntr = TRUE
    MaxSignals = 1
    MayCrash = TRUE
PROPERTIES
    ShutdownReturns
    BacklogDrained
CHECK_DEADLOCK FALSE

SPECIFICATION Spec
CONSTANTS
    Workers = {"a", "b"}
    ProcOf <- TwoProcs
    Conns = {"c1", "c2", "c3"}
    Kind <- AllKinds
    Fds = {0, 1}
    UseLocking = TRUE
    FailOnIntr = FALSE
    MaxSignals = 2
    MayCrash = TRUE
INVARIANTS
    OwnConnection
    NoLeak
    OneAcceptor
CHECK_DEADLOCK FALSE

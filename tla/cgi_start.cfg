SPECIFICATION FairSpec
CONSTANTS
    Bridges = {"a", "b"}
    ArgLists <- AllCommands
    CmdFiles <- CommandFiles
    Tcp = FALSE
    Backlog = 2
    MaxServers = 2
    MaxFaults = 2
INVARIANTS
    StartedCanConnect
PROPERTIES
    BridgesEnd
CHECK_DEADLOCK FALSE

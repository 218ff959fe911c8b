SPECIFICATION Spec
CONSTANTS
    Bridges = {"a"}
    ArgLists <- StartCommand
    CmdFiles <- CommandFiles
    Tcp = FALSE
    Backlog = 2
    MaxServers = 2
    MaxFaults = 0
INVARIANTS
    StartLeavesServers
CHECK_DEADLOCK FALSE

SPECIFICATION FairSpec
CONSTANTS
    Fds = {0, 3}
    TableSize = 2
    HeaderLen = 4
    BodyLen = 3
    BuffLen = 10
    Lengths = {0, 1, 3}
    StdinLens = {2}
    Answers <- MCAnswers
    CutRecords = FALSE
    MayDie = TRUE
    IgnoresInput = FALSE
INVARIANTS
    PendingMatchesTable
    StdinRelayed
    OutputRelayed
    ExitTruthful
PROPERTIES
    AlwaysExits
CHECK_DEADLOCK FALSE

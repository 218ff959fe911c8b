SPECIFICATION MCSpec
CONSTANTS
    Source <- TwoLines
    MaxFill = 2
    BufSize = 2
    MaxRoom = 2
    MaxCalls = 7
    ReadsPastEof = FALSE
    Conversions <- EdgeConversions
    MaxItems = 2
    Names <- ShortNames
    ValueLens = {0, 127, 128, 65536, 2147483646}
    MaxPairs = 2
    Length = 2
INVARIANTS
    OutputAccounted
    PrintfFits
    EnvironmentArrives
PROPERTIES
    ReadsAsOneSequence
CHECK_DEADLOCK FALSE

SPECIFICATION ResponseSpec
CONSTANTS
    BuffLen <- MCBuffLen
    Chunks = {17}
    MaxBytes = 17
    MaxRequests = 2
    Statuses = {7}
    KeepConns = {TRUE, FALSE}
    Rooms <- BrokenRooms
    Plenty = 100000
    Transient = FALSE
    MayClear = TRUE
INVARIANTS
    BufferFits
    WritersCounted
    NoEarlyEnd
    WellFramed
    NothingLostOrRepeated
    FinishedMeansSent
PROPERTIES
    ImplementsResponseStream
CHECK_DEADLOCK FALSE

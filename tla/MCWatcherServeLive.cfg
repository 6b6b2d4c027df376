SPECIFICATION FairSpec
CONSTANTS
    c1 = c1
    c2 = c2
    Clients <- OneClient
    Tracked <- OneClient
    Settings <- HistorySettings
    MaxHeight = 2
    ChanCap = 2
    NilServed = FALSE
    MaxServed = 2
    MaxFaults = 1
INVARIANTS NoHole InRange CompleteIsLast
PROPERTIES FeedEnds StopEndsStreams
CHECK_DEADLOCK FALSE

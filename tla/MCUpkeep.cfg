SPECIFICATION UpkeepSpec
CHECK_DEADLOCK FALSE
CONSTANTS
    Kinds = {"motion", "person"}
    Plates = {"p"}
    MsPerSec = 2
    DayMs = 6
    MaxEventMs = 4
    MaxTime = 7
    MaxEdges = 4
    MaxUnwritten = 1
    SegSecs = 2
    SegSize = 2
    MaxSegs = 3
    Cap = 2
    KeepAllSecs = 1
    KeepEventSecs = 2
    IdxCap = 1
    Gap = 0
    MaxFailures = 1
    MaxCrashes = 1
    MaxReads = 2
    Budget = 4
    Channels = {ch1}
    Viewers = {v1}
    Operator = operator
    Configurer = configurer
    Orders = {o1, o2}
    Qualities = {q1}
    MaxWalls = 2
    MaxPosts = 1
    MaxConfigs = 1
    Grace = 1
INVARIANTS
    EventsAreFound DeletesWhatItMust ListingsAreRight EncoderIsListed
PROPERTIES
    OpenIsFiled OverCapIsCleared IdleIsReaped

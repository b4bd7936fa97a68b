CONSTANTS
    k1 = k1
    s1 = s1
    e1 = e1
    src1 = src1
    src2 = src2
    bd1 = bd1
    bd2 = bd2
    Key = {k1}
    Stream = {s1}
    Event = {e1}
    MaxCopies = 2
    Lag = 1
    MaxExpired = 1
    MaxChannel = 1
    SeenCapacity = 4
    Source = {src1, src2}
    AggLag = 2
    MaxFeed = 4
    StreamBoard = {bd1, bd2}
    NewsLag = 1
    MergeRoom = 1
    ChildNews = 1
    AccessChanges = 3
SPECIFICATION StreamsSpec
CHECK_DEADLOCK FALSE
INVARIANTS
    StreamsTypeOK
    MergeKeepsSources
    ProjectIsFollowed
    RechecksInTime
PROPERTIES
    CatchesUp
    StreamsEnd

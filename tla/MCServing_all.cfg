CONSTANTS
    key1 = key1
    key2 = key2
    m1 = m1
    m2 = m2
    m3 = m3
    w1 = w1
    w2 = w2
    w3 = w3
    EventId = {m1, m2, m3}
    SeenCapacity = 2
    MaxSeq = 4
    MaxInserts = 4
    Key = {key1, key2}
    Stream = {w1, w2, w3}
    MaxChannel = 3
    Calls = 2
    Subjects = 3
    TuplePage = 1
    MaxRetries = 2
    MaxErrors = 2
    Arrivals = 2
    ReqObject = {"x", "y"}
    NamespaceOf <- MCNamespaceOf
    MaxRotations = 2
    MaxFaults = 1
    MaxTurns = 1
    ServerPods = 2
    Migrations = 2
    MaxRows = 3
    DrainBatch = 2
    MaxStops = 1
    ReleaseOf <- MCReleaseOf
    AttCard = {"c1", "c2"}
    AttLimit = 2
    AttRequests = 2
    MaxPuts = 2
    IndexedCards = 2
    OldCard = {1}
    IndexPods = 1
    CardChanges = 2
    HitLimit = 2
    FoundCards = 5
    FoundBoard = {"a", "b"}
    SearchChanges = 1
    BoardOfFound <- MCBoardOfFound
    PagedRows = 5
    PageLimit = 2
    PageChanges = 2
SYMMETRY MCSymmetry
SPECIFICATION ServingSpec
CHECK_DEADLOCK FALSE
INVARIANTS
    ServingTypeOK
    TrackerIsSound
    OnlyReplacingBreaks
    RequestsAreChecked
    BootIsSound
    PodsHandOver
    IndexFollows
PROPERTIES
    AnswersAreTrue
    AttachmentsAreWhole
    PagesAreSound

CONSTANTS
    m1 = m1
    m2 = m2
    m3 = m3
    q1 = q1
    q2 = q2
    c1 = c1
    c2 = c2
    c3 = c3
    b1 = b1
    b2 = b2
    b3 = b3
    k1 = k1
    k2 = k2
    k3 = k3
    owner = owner
    member = member
    LayCard = {c1, c2, c3}
    LayBoard = {b1, b2, b3}
    LayColumn = {k1, k2, k3}
    LayRequest = {m1, m2, m3}
    LayRaces = 2
    LayMaxPos = 2
    Gone = Gone
    TupCards = 2
    TupBoard = {b1, b2, b3}
    TupRequest = {q1, q2}
    NoHome = NoHome
    Member = {owner, member}
    Owner = owner
    MemRequest = {m1, m2, m3}
    SourceBoard = {"a", "b", "c"}
    SourceRequests = 2
    MaxSourcePos = 2
    VisBoard = {"a", "b"}
    VisCard = {"c"}
    VisReader = {1}
    ExpandLimit = 1
    VisChanges = 2
    CatItem = {"i", "j"}
    CatProject = {"p", "q"}
    CatCard = {1, 2}
    CatChanges = 2
    EveryProject = "tenant"
    NoneOfThem = "none"
    SetRequest = {1, 2}
    SetSubject = {"x"}
    SetObject = {"p", "q"}
    SetChanges = 1
    Tenant = "tenant"
    Initial = 0
    GhRequest = {m1, m2, m3}
    GhBoard = {"a", "b"}
    MaxIssue = 1
    MaxCardMoves = 1
    NoBoard = "none"
SYMMETRY MCSymmetry
SPECIFICATION BoardsSpec
CHECK_DEADLOCK FALSE
INVARIANTS
    BoardsTypeOK
    LayoutHolds
    SourcesAreInOrder
    TuplesFollowCards
    MembersAreBacked
    ShowsWhatIsOpen
    CatalogueIsWhole
    UpdatesAreKept
PROPERTIES
    LinksAreFresh

CONSTANTS
    b1 = b1
    b2 = b2
    b3 = b3
    j1 = j1
    j2 = j2
    m1 = m1
    m2 = m2
    m3 = m3
    q1 = q1
    q2 = q2
    c1 = c1
    c2 = c2
    i1 = i1
    i2 = i2
    NoBoard = NoBoard
    NoRequest = NoRequest
    Request = {m1, m2}
    Board = {b1, b2, b3}
    Project = {j1, j2}
    Home <- MCHome
    Card = {q1, q2}
    Columns = 2
    MaxEvents = 3
    PartCard = {c1, c2}
    PartBoard = {b1, b2}
    Person = {p1}
    Item = {i1, i2}
    Comment = {k1}
    PartRequest = {q1, q2}
    MaxItemPos = 1
    NoPartBoard = NoPartBoard
    NoCard = NoCard
    RefCard = {"c1", "c2", "c3"}
    RefProject = {"p", "q"}
    RefRequests = 3
    TieProject = {"P", "Q"}
    Milestone = {"mP", "mQ"}
    Label = {"lP", "lQ", "lG"}
    TieRequests = 3
    NoProject = "-"
    MilestoneOf <- MCMilestoneOf
    LabelOf <- MCLabelOf
    MaxEdits = 2
    IdemRequests = 3
SPECIFICATION CardsSpec
CHECK_DEADLOCK FALSE
PROPERTIES
    WriteIsLogged

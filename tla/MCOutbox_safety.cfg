CONSTANTS
    b1 = b1
    b2 = b2
    j1 = j1
    p1 = p1
    p2 = p2
    NoScope = NoScope
    Board = {b1}
    Project = {j1}
    Home <- MCHome1
    Pod = {p1, p2}
    MaxRow = 2
    BatchSize = 2
    MaxLapse = 1
SYMMETRY MCPods
SPECIFICATION Spec
INVARIANTS
    TypeOK
    MarkedIsStored
    OneCopyPerWindow
    DrainedIsComplete
PROPERTIES
    FeedSafety

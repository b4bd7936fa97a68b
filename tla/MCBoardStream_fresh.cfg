CONSTANTS
    k1 = k1
    s1 = s1
    s2 = s2
    e1 = e1
    e2 = e2
    Key = {k1}
    Stream = {s1, s2}
    Event = {e1, e2}
    MaxCopies = 1
    Lag = 1
    MaxExpired = 1
    MaxChannel = 2
    SeenCapacity = 4
SYMMETRY MCSymmetry
SPECIFICATION Spec
INVARIANTS
    OverlapIsHarmless

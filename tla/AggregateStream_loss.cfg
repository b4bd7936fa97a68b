CONSTANTS
    Source = {src1, src2}
    AggLag = 2
    MaxFeed = 2
    SeenCapacity = 2
SPECIFICATION AggSpec
CHECK_DEADLOCK FALSE
INVARIANTS
    MergeLosesNothing

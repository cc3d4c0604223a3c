CONSTANTS
    MaxItems = 4
    QueueLength = 3
    BatchSize = 2
    PrefetchCnt = 1
    Promises = {p1, p2}
    Futures = {f1, f2, f3}
    Conts = {c1, c2}
    MaxCells = 3
    MaxCalls = 3
    MaxTakers = 2
SPECIFICATION MCSpec
INVARIANTS
    StartedInOrder
    ExactlyOnePlace
    QueueLengthExact
    FuturesExact
    LoopsExact
PROPERTIES
    Answered

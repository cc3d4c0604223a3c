CONSTANTS
    InitialSize = 1
    Growth = 2
    MaxObjectSize = 2
    MaxPages = 2
    Keys = {1, 2, 3}
    Never = 9
    Conns = {"here", "there"}
    Remote = {"there"}
    Sizes = {1, 2}
    Lifetimes = {1}
    Limits = {0, 1}
    MaxRequests = 3
    Horizon = 2
SPECIFICATION Spec
INVARIANTS CacheExact
PROPERTY ImplementsMap
CHECK_DEADLOCK FALSE

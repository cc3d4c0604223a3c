SPECIFICATION FairSpec
CONSTANTS
    Classes = {hot, cold}
    Capacity = 4
    MaxAio = 2
    BatchLimit = 2
    MaxRequests = 5
    BadRequests = {2}
    QueueLength = 2
    Objects = {f1, f2}
    MaxOpens = 3
    Accepted = {1, 2}
    MaxCalls = 3
INVARIANTS
    RequestsExact
    IssuedInOrder
    NoSleepOverIo
    CallsExact
    ClosedByTheLast
PROPERTY
    Served
CHECK_DEADLOCK FALSE

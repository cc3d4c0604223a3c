CONSTANTS
    MaxItems = 6
    QueueLength = 3
    BatchSize = 2
    PrefetchCnt = 1
SPECIFICATION Spec
INVARIANT FillInArray
CHECK_DEADLOCK FALSE

CONSTANTS
    QueueMax = 1
    BufferSize = 2
    NrShards = 2
    NrConnections = 2
    MaxDemand = 3
SPECIFICATION Spec
INVARIANTS StreamExact ServerExact
PROPERTY EverythingEnds
CHECK_DEADLOCK FALSE

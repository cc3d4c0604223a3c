CONSTANTS
    NrPages = 6
    NrLists = 3
    PoolSpan = 2
    MaxFree = 2
    MinFreePages = 2
    r1 = r1
    r2 = r2
    Remotes <- MCRemotes
    LargeSizes = {1, 3}
    Alignment = 2
    MaxLive = 3
    MaxCached = 1
    MaxBlocks = 6
    MaxNodes = 6
    InternalSize = 2
    DefaultFrags = 1
    MaxLen = 3
    PacketSlots = {1, 2}
    BufferSlots = {1, 2}
    NewSizes = {2, 3}
    HeaderSizes = {1}
    MaxCalls = 5
    FileSize = 5
    ReadAlignment = 2
    BufferSize = 4
    MinBufferSize = 2
    WindowSize = 6
    Offsets = {1}
    Lengths = {3, 10}
    ReadAheads = {0, 2}
    Amounts = {3, 6}
    MaxInputs = 3
    Reads = {1, 2, 3, 4, 5, 6}
    StreamSize = 4
    WriteAlignment = 2
    WriteBehinds = {0, 1, 2}
    Sizes = {1, 6}
    MaxOutputs = 3
    Writes = {1, 2, 3, 4, 5, 6, 7}
    Listings <- MCListings
    TouchPaths <- MCTouchPaths
    Touchers = {1, 2}
SYMMETRY Symmetry
SPECIFICATION MCSpec
INVARIANTS MemoryExact BuffersExact StreamsAreExact
CHECK_DEADLOCK FALSE

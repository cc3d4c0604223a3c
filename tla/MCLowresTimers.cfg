CONSTANTS
    Timers = {t1, t2, load}
    Periodic = {t2, load}
    LoadTimer = load
    Period = 2
    CallbacksDrop = TRUE
    Bits = 3
    Horizon = 4
    Fibers = {u1, u2, u3}
    Grouped = {u1, u2}
    MaxWaits = 2
    Slots = {s1, s2}
    MaxFns = 5
    Cpus = 3
    MachineMemory = 12
    DefaultReserve = 3
    MinMemory = 2
    Alignment = 2
    DefaultRequests = 4
    Cores = {0, 1}
    Kinds = {"tracked", "gated", "bare"}
    Callers = {1}
    MaxStarts = 2
    MaxUdpCalls = 3
    MaxDatagrams = 2
    Room = 1
    MaxParts = 2
SPECIFICATION MCSpec
INVARIANTS TimersInPlace TimeoutNotLate ThreadsExact PollersExact StartupExact ShardedExact DatagramsExact
PROPERTIES ExpiresExactlyTheDue

CONSTANTS
    r1 = r1
    r2 = r2
    Reactors = {r1, r2}
    Sleepers = {r1, r2}
    Routes <- AllRoutes
    Sockets = {s1}
    Listener = l1
    MaxUnits = 2
    MaxBacklog = 1
SPECIFICATION MCSpec
INVARIANTS
    NoLostWakeup
    ClearedMeansNotified
    SignalsSeenBeforeSleep
    WaitersWatched
PROPERTIES
    Noticed

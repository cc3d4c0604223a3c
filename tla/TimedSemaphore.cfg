CONSTANTS
    Timers = {t1, t2}
    Periodic = {t2}
    Period = 2
    CallbacksDrop = FALSE
    Bits = 3
    Horizon = 3
    Urgent = {t1}
    Patient = {c3}
    MaxUnits = 2
    MaxWaiters = 3
SPECIFICATION MCSpec
INVARIANTS AlarmCovers SemaphoreExact
PROPERTIES FiresWhenDue EveryTimerFires
CHECK_DEADLOCK FALSE

CONSTANTS
    Timers = {t1, t2}
    Periodic = {}
    Period = 2
    CallbacksDrop = TRUE
    Bits = 3
    Horizon = 4
SPECIFICATION Spec
INVARIANT ExpirySignals
CHECK_DEADLOCK FALSE

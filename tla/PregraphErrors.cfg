SPECIFICATION Spec
CONSTANTS
    Turns = {t1, t2}
    Messages = {m1, m2}
    FAILS_THRESHOLD = 2
    RATE_MAX = 2
    MaxEvents = 0
    MaxFaults = 2
INVARIANTS ErrorsEscalate
CHECK_DEADLOCK FALSE

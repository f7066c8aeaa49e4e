SPECIFICATION FairSpec
CONSTANTS
    Turns = {t1, t2}
    Messages = {m1, m2}
    FAILS_THRESHOLD = 2
    RATE_MAX = 1
    MaxEvents = 1
    MaxFaults = 2
INVARIANTS TypeOK AnsweredOnce SilentUnderTakeover MuteNeedsCall CountersExpire ThresholdIsCarried
PROPERTIES PromiseKept
CHECK_DEADLOCK FALSE

SPECIFICATION FairSpec
CONSTANTS
    Appts = {a1}
    Dates = {d1}
    Times = {t1}
    Keys = {k1, k2}
    MAX_ATTEMPTS = 2
    MaxOptions = 1
    MaxEvents = 0
PROPERTIES FlowEnds
CHECK_DEADLOCK FALSE

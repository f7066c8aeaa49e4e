SPECIFICATION Spec
CONSTANTS
    Requests = {r1, r2}
    Messages = {m1, m2}
    Keyed = {m1}
    MAX_RETRIES = 2
    MaxPosts = 2
    MaxFaults = 0
    r1 = r1
    r2 = r2
    m1 = m1
    m2 = m2
PROPERTIES DuplicateWasSent
CHECK_DEADLOCK FALSE

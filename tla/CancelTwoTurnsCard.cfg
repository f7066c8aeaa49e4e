SPECIFICATION Spec
CONSTANTS
    Appts = {a1, a2}
    Runs = {r1, r2}
    MAX_ATTEMPTS = 1
    MaxKeys = 2
    MaxFaults = 0
    MaxEvents = 0
SYMMETRY ApptSymmetry
INVARIANTS CommitMatchesCard
CHECK_DEADLOCK FALSE

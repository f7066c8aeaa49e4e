SPECIFICATION FairSpec
CONSTANTS
    Appts = {a1, a2}
    Runs = {r1}
    MAX_ATTEMPTS = 1
    MaxKeys = 3
    MaxFaults = 1
    MaxEvents = 1
INVARIANTS TypeOK CommitMatchesCard SuccessIsTrue CommitOnlyOnTap NeverSilent KeyNamesOneAppt
PROPERTIES FlowEnds TurnEnds
CHECK_DEADLOCK FALSE

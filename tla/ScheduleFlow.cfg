SPECIFICATION Spec
CONSTANTS
    Services = {s1}
    Staff = {p1, p2}
    Busy = p2
    Dates = {d1}
    Times = {t1, t2}
    Clients = {c1}
    Agenda <- MCAgenda
    Keys = {k1, k2}
    MAX_ATTEMPTS = 1
    MaxOptions = 1
    MaxEvents = 1
INVARIANTS TypeOK CommitMatchesCard GatedWasVouched RetriedOnce BookedOnce NeverSilent
PROPERTIES CommitOnlyOnTap RefinesGatedCommit TurnShrinks
SYMMETRY Symmetry
CHECK_DEADLOCK FALSE

SPECIFICATION Spec
CONSTANTS
    Appts = {a1, a2}
    Dates = {d1}
    Times = {t1, t2}
    Keys = {k1, k2}
    MAX_ATTEMPTS = 2
    MaxOptions = 1
    MaxEvents = 1
INVARIANTS TypeOK GatedWasVouched RetriedOnce
PROPERTIES CommitOnlyOnTap RefinesGatedCommit SilentOnlyUnread
SYMMETRY Symmetry
CHECK_DEADLOCK FALSE

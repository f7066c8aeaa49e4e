SPECIFICATION Spec
CONSTANTS
    Sqls <- MCSqls
    Identities <- MCIdentities
    OtherFlows = {"cancel"}
    Appts = {a1, a2}
    judge = TRUE
    CONFIRM_MAX_ATTEMPTS = 1
    MaxEvents = 1
PROPERTIES TapNeverElsewhere
CHECK_DEADLOCK FALSE

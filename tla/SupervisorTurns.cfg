SPECIFICATION Spec
CONSTANTS
    Sqls <- MCSqls
    Identities <- MCIdentities
    OtherFlows = {"cancel"}
    Appts = {a1, a2}
    judge = TRUE
    CONFIRM_MAX_ATTEMPTS = 1
    MaxEvents = 1
INVARIANTS TypeOK ExecutedWasValidated OnlyApprovedTold FlowIsCoherent AskedIsAllowed ConfirmedIsTrue NeverIgnored
PROPERTIES AnswersThisMessage NeverOneAmongSeveral TurnEnds
CHECK_DEADLOCK FALSE

SPECIFICATION Spec
CONSTANTS
    Words <- FewWords
    MaxWords = 3
    Instants <- SomeInstants
    Zones <- Local
INVARIANTS NoHourUnmentioned
CHECK_DEADLOCK FALSE

SPECIFICATION Spec
CONSTANT MaxAttempts = 2
CONSTRAINT SomethingToCheck
INVARIANTS
    NoMisuse
    GlobalsOwnAll
    OwnSession
    NothingLeft
CHECK_DEADLOCK FALSE

SPECIFICATION Spec
CONSTANTS
    MaxAttempts = 2
    Fingerprints = {k1, k2}
    NoFp = NoFp
    EventCap = 16
SYMMETRY KeySymmetry
INVARIANTS
    TypeOK
    SoleWorker
    NoEventDropped
    ScreenMatchesAttempt
    WaitingHasCause
    SessionsClosed
PROPERTY HostKeysChecked
CHECK_DEADLOCK FALSE

SPECIFICATION FairSpec
CONSTANTS
    MaxAttempts = 1
    Fingerprints = {k1}
    NoFp = NoFp
    EventCap = 16
PROPERTY CancelIsFinal
CHECK_DEADLOCK FALSE

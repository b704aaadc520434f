SPECIFICATION FairSpec
CONSTANTS
    MaxAttempts = 2
    Fingerprints = {k1}
    NoFp = NoFp
    EventCap = 16
PROPERTY DequesReplacedAfterStop
CHECK_DEADLOCK FALSE

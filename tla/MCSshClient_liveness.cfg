SPECIFICATION FairSpec
CONSTANTS
    MaxAttempts = 1
    Fingerprints = {k1}
    NoFp = NoFp
    EventCap = 16
PROPERTIES
    AttemptSettles
    StoppedThreadEnds
    StaleSessionLeaves
CHECK_DEADLOCK FALSE

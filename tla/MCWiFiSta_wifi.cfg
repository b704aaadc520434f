SPECIFICATION FairSpec
CONSTANTS
    Ssids = {home, cafe}
    NoSsid = NoSsid
INVARIANTS
    TypeOK
    FailHasReason
PROPERTIES
    
    AnswersOnce
    ConnectEnds
CHECK_DEADLOCK FALSE

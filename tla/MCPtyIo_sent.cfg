SPECIFICATION FairSpec
CONSTANTS
    KeyLens <- MCKeyLens
    KeyCap = 4
    OutCap = 3
    ReadMax = 2
    TxCap = 2
    RxCap = 2
INVARIANT EmptyMeansSent
CHECK_DEADLOCK FALSE

SPECIFICATION FairSpec
CONSTANTS
    KeyLens <- MCKeyLens
    KeyCap = 4
    OutCap = 3
    ReadMax = 2
    TxCap = 2
    RxCap = 2
INVARIANTS
    TypeOK
    NewestKept
PROPERTIES
    KeysPiped
    OutputPiped
    OutputShown
    KeysLeave
    DisconnectEnds
CHECK_DEADLOCK FALSE

SPECIFICATION Spec
CONSTANTS
    Cols = 2
    Rows = 2
    MaxLines = 3
    EchoBuf = 2
    Keys <- MCKeys
    Outputs <- MCOutputs
    MaxTyped = 3
    MaxOutput = 1
INVARIANTS
    OnlyEchoesSkipped
    EchoesMatched
    DrawnOnce
    SequencesHidden
PROPERTIES
    EnterKeepsView
CHECK_DEADLOCK FALSE

SPECIFICATION Spec
CONSTANTS
    Hosts = {"h1", "h2"}
    Fps = {"f1", "f2"}
    NoFp = "none"
    MaxTrusts = 4
INVARIANTS
    OneLineEach
PROPERTIES
    StoreIsTable
CHECK_DEADLOCK FALSE

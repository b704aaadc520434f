SPECIFICATION Spec
CONSTANTS
    KeyFiles <- MCKeyFiles
    HostTexts <- MCHostTexts
    SavedHosts <- MCSavedHosts
    PortTexts <- MCPortTexts
    UserTexts = {"u"}
    PasswordTexts = {"", "p"}
    KeyTexts = {""}
    SsidTexts = {"w"}
    WifiPasswordTexts = {"q"}
    NoNumber = NoNumber
INVARIANTS
    
    OneCredential
CHECK_DEADLOCK FALSE

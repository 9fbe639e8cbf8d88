SPECIFICATION Spec
CONSTANTS
    Verbs <- MixedVerbs
    Args = {"none", "word", "LIST"}
    Window = 2
    MaxCmds = 5
    MaxEntries = 1
    SockBuf = 2
    Clients = {"any"}
INVARIANTS
    OneDataConnection
    TransfersNeedLogin
    RepliesAccounted
CHECK_DEADLOCK FALSE

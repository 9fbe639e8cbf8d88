SPECIFICATION FairSpec
CONSTANTS
    Verbs <- TransferVerbs
    Args = {"word"}
    Window = 1
    MaxCmds = 2
    MaxEntries = 1
    SockBuf = 1
    Clients = {"any"}
PROPERTIES
    LoginReadEnds
CHECK_DEADLOCK FALSE

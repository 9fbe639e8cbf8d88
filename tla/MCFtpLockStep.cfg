SPECIFICATION FairSpec
CONSTANTS
    Verbs <- AllVerbs
    Args = {"none", "word"}
    Window = 1
    MaxCmds = 6
    MaxEntries = 1
    SockBuf = 2
    Clients = {"careful", "patient"}
INVARIANTS
    NoCrash
    StuckOnlyWhereSilent
PROPERTIES
    EveryCommandAnswered
    GoneClientEndsSession
CHECK_DEADLOCK FALSE

SPECIFICATION FairSpec
CONSTANTS
    Requests <- WrittenFiles
    lineMax = 12
    dataMax = 12
    Answers = {1, 3}
    NetMax = 4
    Window = 2
INVARIANTS
    MutualWaitOnlyWithoutEnd
    LostOnlyIfUnread
    BlockedOnlyIfUnread
PROPERTIES
    WellFormedServed
    SendingEnds
CHECK_DEADLOCK FALSE

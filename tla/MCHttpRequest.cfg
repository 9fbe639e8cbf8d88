SPECIFICATION FairSpec
CONSTANTS
    Requests <- AllRequests
    dataMax = 22
INVARIANTS
    TypeOK
    OwnClientUnderstood
    MissesOnlyCutEnd
    StopsEarlyOnlyOnBareLineEnd
    OverrunOnlyWithoutLine
PROPERTIES
    OwnClientServed
CHECK_DEADLOCK FALSE

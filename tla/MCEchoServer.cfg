SPECIFICATION FairSpec
CONSTANTS
    BufSize = 2
    InWindow = 2
    OutWindow = 2
    MaxSent = 6
    MaxConns = 2
INVARIANTS
    StuckOnlyBeyondWindows
    KilledOnlyByDeserter
PROPERTIES
    ImplementsDelivery
    EchoReturns
CHECK_DEADLOCK FALSE

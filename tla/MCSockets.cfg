SPECIFICATION Spec
CONSTANTS
    ServerObjs = {srv}
    ConnectObjs = {con}
    NewsslObjs = {new}
    IOObjs = {io1, io2}
    Fds = {f1, f2, f3}
    Ssls = {s1, s2}
    invalidSocket = invalidSocket
    nullSSL = nullSSL
SYMMETRY MCSymmetry
INVARIANTS
    SingleOwner
    NothingStray
    TlsOnOwnSocket
PROPERTY
    NeverClosedInUse
CHECK_DEADLOCK FALSE

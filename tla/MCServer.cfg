SPECIFICATION ServerFairSpec
CONSTANTS
    t1 = t1 t2 = t2 a1 = a1 a2 = a2 p1 = p1 p2 = p2 c1 = c1 c2 = c2
    ServerObjs = {server}
    ConnectObjs = {c1, c2}
    NewsslObjs = {newssl}
    IOObjs = {accept, a1, a2, p1, p2}
    Fds = {f1, f2, f3, f4}
    Ssls = {s1, s2}
    invalidSocket = invalidSocket
    nullSSL = nullSSL
    Threads = {t1, t2}
    server = server
    newssl = newssl
    accept = accept
    arg <- MCArg
    par <- MCPar
    con <- MCCon
INVARIANTS
    ObjectsFitTheCalls
    ServesOwnConnection
    DescriptorsAccounted
    MainNeverWaitsForGoodbye
PROPERTIES
    MainComesBack
CHECK_DEADLOCK FALSE

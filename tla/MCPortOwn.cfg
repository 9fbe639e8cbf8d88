SPECIFICATION Spec
CONSTANTS
    Sessions = {s1, s2, s3}
    Hosts = {h1, h2, bad}
    BadHosts = {bad}
    none = none
INVARIANT
    PortTargetsOwnHost
CHECK_DEADLOCK FALSE

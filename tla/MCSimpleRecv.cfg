SPECIFICATION Spec
CONSTANTS
    FirstCapacity = 3
    Slacks = {0, 3}
    MaxSent = 7
INVARIANTS
    ReturnsWhole
PROPERTY
    ImplementsDelivery
CHECK_DEADLOCK FALSE

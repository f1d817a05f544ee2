CONSTANTS
    MaxData <- EachTwo
    MaxCtrl <- EachOne
    MaxConn = 3
    MaxPack = 2
    Budgets = {1, 9}
    AckThresh = 2
    Base = 65535
    Serial = 65536
    Window = 1
    Faults = {"ctrl_armed"}

SPECIFICATION Spec

INVARIANTS
    ExactlyOnce
    NothingLost
    NoFalseReset
    LogInvariant

PROPERTIES
    ImplementsLink

CHECK_DEADLOCK FALSE
CONSTRAINT OneSided

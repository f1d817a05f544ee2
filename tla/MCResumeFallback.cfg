CONSTANTS
    MaxData <- EachOne
    MaxCtrl <- None
    MaxConn = 3
    MaxPack = 2
    Budgets = {1, 9}
    AckThresh = 2
    Base = 65535
    Serial = 65536
    Window = 1
    Faults = {"expire", "reorder"}

SPECIFICATION Spec

INVARIANTS
    ExactlyOnce
    StallExact

PROPERTIES
    ImplementsLink

CHECK_DEADLOCK FALSE

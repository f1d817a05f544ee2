CONSTANTS
    MaxData <- ClientOne
    MaxCtrl <- ClientOne
    MaxConn = 2
    MaxPack = 2
    Budgets = {1, 9}
    AckThresh = 2
    Base = 65535
    Serial = 65536
    Window = 2
    Faults = {"ctrl_armed", "expire"}

SPECIFICATION Spec

INVARIANTS
    ExactlyOnce

CHECK_DEADLOCK FALSE

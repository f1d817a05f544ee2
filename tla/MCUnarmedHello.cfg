CONSTANTS
    MaxData <- None
    MaxCtrl <- ClientOne
    MaxConn = 2
    MaxPack = 2
    Budgets = {1, 9}
    AckThresh = 2
    Base = 65535
    Serial = 65536
    Window = 2
    Faults = {"ctrl_unarmed"}

SPECIFICATION Spec

INVARIANTS
    HelloFirst

CHECK_DEADLOCK FALSE

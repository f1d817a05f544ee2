CONSTANTS
    MaxData <- ServerTwo
    MaxCtrl <- None
    MaxConn = 4
    MaxPack = 2
    Budgets = {1, 9}
    AckThresh = 2
    Base = 65535
    Serial = 65536
    Window = 2
    Faults = {"reorder"}

SPECIFICATION Spec

INVARIANTS
    NoFalseReset

CHECK_DEADLOCK FALSE

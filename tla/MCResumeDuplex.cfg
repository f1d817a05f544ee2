CONSTANTS
    MaxData <- EachOne
    MaxCtrl <- EachOne
    MaxConn = 2
    MaxPack = 2
    Budgets = {1, 9}
    AckThresh = 2
    Base = 65535
    Serial = 65536
    Window = 2
    Faults = {"ctrl_armed"}

SPECIFICATION Spec

INVARIANTS
    TypeOK
    NoFalseReset
    HelloFirst
    WriteArmed
    LogInvariant

CHECK_DEADLOCK FALSE

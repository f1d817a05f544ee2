CONSTANTS
    Unit = 2
    MaxPayload = 2
    MaxCredit = 100
    MaxExtra = 65535
    PipeCap = 3
    Ids = {1, 2, 3}
    Big = 100
    Scenarios <- HalfOpenGrow

SPECIFICATION Spec

INVARIANT CreditReturned

CHECK_DEADLOCK FALSE

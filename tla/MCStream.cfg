CONSTANTS
    Unit = 2
    MaxPayload = 2
    MaxCredit = 100
    MaxExtra = 65535
    PipeCap = 3
    Ids = {1, 2, 3}
    Big = 100
    Scenarios <- Most

SPECIFICATION Spec

INVARIANTS
    CreditConserved
    GrantFitsWindow
    FlagsAccepted
    QueuesAgree
    NoUseAfterFree
    NoStreamForgotten
    CreditReturned
    WriteArmed
    QuietMeansDone

PROPERTIES
    RstOnce
    HeldNotFreed
    ByteStreamSpec

CHECK_DEADLOCK FALSE

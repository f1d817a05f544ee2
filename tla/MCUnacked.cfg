SPECIFICATION Spec
CONSTANTS
    MaxFrames = 6
    MaxEntry = 3
    MaxCapture = 2
INVARIANTS
    TypeOK
    CountersAgree
    ConformantPeerAccepted
    Retained
    WireContiguous
CHECK_DEADLOCK FALSE

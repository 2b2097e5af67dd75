CONSTANTS
    N = 9
    M = 3
    Msg <- ThreeBytes
    WMin = 0
    WMax = 1
    PMax = 2
    CMin = 1
    CMax = 2
    SMin = 1
    SMax = 2
    TMin = 1
    TMax = 1
SPECIFICATION Spec
INVARIANTS Intact
PROPERTIES OnItsBit Received

CONSTANTS
    CQ_N = 4
    Width = 16
    Value = {1, 2}
    MaxN = 2
SPECIFICATION Spec
INVARIANTS AssertsHold PeekSeesFront
PROPERTIES Implements PopReturns
CHECK_DEADLOCK FALSE

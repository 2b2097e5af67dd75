CONSTANTS
    Size = 3
    Root = 0
    NCalls = 4
    Prog <- MatMul
    Count = 2
    Data <- MCData
    Delay = 7
    Timeout = 20
    GetTimeout = 50000
    MaxCompute = 24
    Garbage <- MCGarbage
    Prompt = FALSE
SPECIFICATION Spec
INVARIANTS Delivered OnlyRequestsLost AnswerInWindow NeverBlowsUp InductiveInv
PROPERTIES Implements Termination

CONSTANTS
    Size = 3
    Root = 0
    NCalls = 1
    Prog <- JustBarrier
    Count = 2
    Data <- MCData
    Delay = 7
    Timeout = 20
    GetTimeout = 50000
    MaxCompute = 24
    Garbage <- MCGarbage
    Prompt = FALSE
SPECIFICATION Spec
INVARIANTS BarrierHolds

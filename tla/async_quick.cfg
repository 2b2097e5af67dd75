CONSTANTS
    Size = 3
    NOps = 4
    Ops <- Program
    Addresses <- Addresses2
    Memory <- Zeros
    Delay = 2
    Timeout = 10
    SyncWait = 100
    GetTimeout = 50000
    MaxThink = 12
    Garbage <- MCGarbage
    Quick = TRUE
SPECIFICATION Spec
INVARIANTS NoPanic
PROPERTIES Completes

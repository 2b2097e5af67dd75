CONSTANTS
    Size = 2
    NOps = 4
    Ops <- Program
    Addresses <- Addresses2
    Memory <- Zeros
    Delay = 2
    Timeout = 10
    SyncWait = 5
    GetTimeout = 8
    MaxThink = 12
    Garbage <- MCGarbage
    Quick = FALSE
SPECIFICATION Spec
INVARIANTS OnlySyncLost
PROPERTIES Implements

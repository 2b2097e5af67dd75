CONSTANTS
    NumPis = 2
    Output <- MCOutput
    FifoSize = 1
    ImageSize = 2
    Keys <- MCKeys
    MaxUnplugged = 1
SPECIFICATION Spec
INVARIANTS BytesIntact CleanExit
PROPERTIES EchoEnds
CHECK_DEADLOCK FALSE

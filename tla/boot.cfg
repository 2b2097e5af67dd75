CONSTANTS
    NPis = 3
    Rest = 2
    Fits = TRUE
    MaxJunk = 7
    MaxQueue = 16
    MaxFaults = 1
SPECIFICATION Spec
INVARIANTS TypeOK
PROPERTIES Implements QuietWhenPrinting AllBooted

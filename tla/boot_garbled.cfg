CONSTANTS
    NPis = 1
    Rest = 2
    Fits = TRUE
    MaxJunk = 0
    MaxQueue = 12
    MaxFaults = 1
SPECIFICATION Spec
PROPERTIES HostEnds

\* Random: the calls are bounded; Timeouts: time stops.
CONSTANTS
    e1 = e1  e2 = e2  e3 = e3  e4 = e4
    Elements = {e1, e2, e3, e4}
    Null = Null
    Width = 3
    Thousand = 3
    Gap = 3
    Arguments = {0, 1, 3, 6, 11}
    LastUsec = 28
    Devices = {1, 2, 3, 4, 5}
    Ttys <- MCTtys
    CommandLines <- MCArguments
    MaxAttempts = 2
    Granule = 2
    BootTime = 1
    MaxNow = 8
    MaxRuns = 2
    Files = {"f1", "f2", "other"}
    Interesting = {"f1", "f2"}
    LastSecond = 3
    Few = 2
    Many = 4
    N = 4
    Length = 16
    Rows = 2
    Share = 8
    Shapes <- MCShapes
SPECIFICATION SpecAll
INVARIANTS Represents StreamsRight TimeoutsExact LibraryRight RootHasResult ToolsRight
PROPERTIES AllEnd
CHECK_DEADLOCK FALSE

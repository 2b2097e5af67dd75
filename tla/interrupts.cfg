CONSTANTS
    Width = 6
    Load = 3
    N = 2
    HandlerTime = 1
    SendTime = 3
    MaxClock = 10
    Pulses = 3
SPECIFICATION MCSpec
INVARIANTS NoStray EventsCounted
PROPERTIES Elapsed NothingElseTouched ProgramsEnd
CHECK_DEADLOCK FALSE

SPECIFICATION Spec
CONSTANTS
    Positions = {1, 2}
    MaxSecond = 0
    StreamMayEnd = FALSE
INVARIANTS
    StopNeverStarts

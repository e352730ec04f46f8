CONSTANTS
    Writers = {v, w}
    Retain = 1
    Keep = 1
    Tolerance = 1
    MaxWall = 3
    MaxSequence = 3
    MaxGeneration = 2
SPECIFICATION Spec
INVARIANT ContiguousAtRest
CHECK_DEADLOCK FALSE

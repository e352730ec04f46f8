CONSTANTS
    Writers = {v, w}
    Retain = 1
    Keep = 1
    Tolerance = 1
    MaxWall = 3
    MaxSequence = 3
    MaxGeneration = 2
SYMMETRY Symmetry
SPECIFICATION Spec
INVARIANTS TypeOK ReadableAtRest
PROPERTIES TimeAdvances RollbackRejected
CHECK_DEADLOCK FALSE

CONSTANTS
    Worlds = {w1}
    MaxOperations = 3
    MaxToken = 0
    MixUnleased = FALSE
SPECIFICATION Spec
INVARIANT AckedStoreLoads
CHECK_DEADLOCK FALSE

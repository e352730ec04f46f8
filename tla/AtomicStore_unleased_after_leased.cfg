CONSTANTS
    Worlds = {w1}
    MaxOperations = 3
    MaxToken = 1
    MixUnleased = TRUE
SPECIFICATION Spec
INVARIANT CommittedHeadLoads
CHECK_DEADLOCK FALSE

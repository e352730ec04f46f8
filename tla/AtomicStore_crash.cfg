CONSTANTS
    Worlds = {w1, w2}
    MaxOperations = 4
    MaxToken = 2
    MixUnleased = FALSE
SYMMETRY Symmetry
SPECIFICATION Spec
INVARIANTS TypeOK NoGenerationConflict AckedSurvives LineageReconcilable
PROPERTY ImplementsRegister
CHECK_DEADLOCK FALSE

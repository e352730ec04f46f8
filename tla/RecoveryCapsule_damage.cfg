CONSTANTS
    Worlds = {w1, w2}
    MaxOperations = 5
    MaxToken = 0
    MaxCorruptions = 2
    MixUnleased = FALSE
SYMMETRY Symmetry
SPECIFICATION CapsuleSpec
INVARIANTS OneGenerationLoss LineageReconcilable RestoreResumable
PROPERTIES RestoreOverwritesNothing RestoreEndsLoadable
CHECK_DEADLOCK FALSE

CONSTANTS
    Cells = {1, 2}
    a = a
    b = b
    Keys = {a, b}
    WorkingBudget = 1
    CompressedBudget = 1
    GivenUp = GivenUp
    Preset = 2
    MaxRetained = 4
    MaxDamage = 2
SYMMETRY Symmetry
SPECIFICATION Spec
INVARIANTS TypeOK Conserved ReceiptsNumbered WakeFitsRepair InterruptedCompletes
PROPERTIES FailClosed ImplementsRetained
CHECK_DEADLOCK FALSE

CONSTANTS
    Processes = {p1, p2}
    None = None
    Worlds = {w1}
    MaxToken = 3
    MaxSaves = 3
    SharedHandle = TRUE
SYMMETRY Symmetry
SPECIFICATION Spec
INVARIANTS TypeOK AckedSurvives NoGenerationConflict 
PROPERTY HeadMoves
CHECK_DEADLOCK FALSE

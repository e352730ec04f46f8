CONSTANTS
    Writers = {v, w}
    LeaseDuration = 3
    ProvisionalDuration = 2
    RetainRecent = 1
    MaxToken = 3
    MaxTime = 6
SYMMETRY Symmetry
SPECIFICATION Spec
INVARIANTS TypeOK TokensUnique OrderlyExclusion ArchivedStaysOut
PROPERTY OrderlySuccession
CHECK_DEADLOCK FALSE

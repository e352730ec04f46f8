CONSTANTS
    Writers = {v, w}
    LeaseDuration = 9
    ProvisionalDuration = 5
    RetainRecent = 1
    MaxToken = 2
    MaxTime = 8
SPECIFICATION Spec
PROPERTY OldHandlesFail
CHECK_DEADLOCK FALSE

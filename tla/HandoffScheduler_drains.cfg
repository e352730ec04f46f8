CONSTANTS
    Jobs = {1, 2}
    Causes = {1, 2}
    Origin <- Corners
    Width = 2
    Height = 2
    HopLimit = 2
    MaxMailbox = 1
    MaxRetries = 2
    Ttl = 3
    ArrivalModes = {TRUE, FALSE}
    QueueSizes = {2, 3}
    Budgets = {2}
    BusyCells = {1}
    MaxRevision = 1
SPECIFICATION Spec
INVARIANTS TypeOK Bounded Accounted OneEntry NothingVanishes LossReported WaveComplete
PROPERTIES AcceptedOnce ResumedEnds

CONSTANTS
    Jobs = {1}
    Causes = {1}
    Origin <- Corners
    Width = 2
    Height = 2
    HopLimit = 2
    MaxMailbox = 1
    MaxRetries = 2
    Ttl = 2
    ArrivalModes = {TRUE}
    QueueSizes = {3}
    Budgets = {2}
    BusyCells = {1}
    MaxRevision = 1
SPECIFICATION Spec
INVARIANT NoFalseBreach

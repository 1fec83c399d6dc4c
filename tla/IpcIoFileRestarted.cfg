SPECIFICATION Spec
CONSTANTS
    QueueCapacity = 1
    PageCount = 1
    IdLimit = 4
    RequestLimit = 2
    WorkerKills = 1
    DiskerKills = 0
    KillLimit = 1
    LossLimit = 0
INVARIANT LateMeansCompleted
CHECK_DEADLOCK FALSE

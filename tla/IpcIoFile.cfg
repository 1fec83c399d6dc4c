SPECIFICATION FairSpec
CONSTANTS
    QueueCapacity = 1
    PageCount = 1
    IdLimit = 3
    RequestLimit = 3
    WorkerKills = 1
    DiskerKills = 1
    KillLimit = 1
    LossLimit = 1
INVARIANT TypeOK
INVARIANT EachCompletedOnce
INVARIANT AnswersMatch
INVARIANT DiskerIsAwake
INVARIANT TimeoutIsScheduled
INVARIANT PagesAreReturned
PROPERTY EveryRequestEnds
CHECK_DEADLOCK FALSE

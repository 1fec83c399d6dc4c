CONSTANTS
    WriterCount = 2
    Capacity = 2
    IndexLimit = 4
    ReaderCrash = {"start", "clear", "next", "block", "recheck", "unblock", "copy", "idle"}
    WriterCrash = {"blocked", "signal"}
    RestartLimit = 1
    PopLimit = 2
    RetryLimit = 0
SPECIFICATION FairSpec
INVARIANTS
    TypeOK
    PopsWhatWasPushed
    NoLostWakeup
PROPERTIES
    ImplementsChannels
    EveryQueueIsServed
\* A lost notification lets the reader sleep until it is restarted, and the
\* writers overflow: the system stops.
CHECK_DEADLOCK FALSE

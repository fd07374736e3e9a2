SPECIFICATION FairSpec
CONSTANTS
    t1 = t1
    t2 = t2
    t3 = t3
    Threads <- TwoThreads
    MaxCalls = 2
    MaxCount = 2
    MaxGroup = 2
    write_buffer_size = 0
    kL0_CompactionTrigger = 1
    kL0_SlowdownWritesTrigger = 1
    kL0_StopWritesTrigger = 2
    ReuseChoices <- Either
    Faults <- DiskFaults
    MaxFaults = 1
    MaxCrashes = 1
INVARIANT NoHalfBatch
PROPERTY RefinesDurableStore
PROPERTY EveryWriteReturns
CHECK_DEADLOCK FALSE

SPECIFICATION Spec
CONSTANTS
    t1 = t1
    t2 = t2
    t3 = t3
    Threads <- TwoThreads
    MaxCalls = 3
    MaxCount = 1
    MaxGroup = 2
    write_buffer_size = 1
    kL0_CompactionTrigger = 1
    kL0_SlowdownWritesTrigger = 1
    kL0_StopWritesTrigger = 2
    ReuseChoices <- Never
    Faults <- Tears
    MaxFaults = 0
    MaxCrashes = 2
SYMMETRY Symmetry
INVARIANT TypeOK
INVARIANT SyncedWritesSurvive
INVARIANT AnsweredWritesRemain
INVARIANT SequenceFollowsQueue
INVARIANT LiveFilesExist
CHECK_DEADLOCK FALSE

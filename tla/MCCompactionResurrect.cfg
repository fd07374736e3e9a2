SPECIFICATION Spec
CONSTANTS
    MaxKey = 3
    MaxSequence = 5
    NumLevels = 4
    MaxMemCompactLevel = 2
    L0_CompactionTrigger = 2
    MaxBytesForLevel = 3
    TargetFileSize = 2
    MaxGrandParentOverlap = 3
    ExpandedCompactionLimit = 4
    AllowedSeeks = 1
    ManualRanges <- NeighbourRange
    Starts <- DeepStart
INVARIANT ReadsAgree
CHECK_DEADLOCK FALSE

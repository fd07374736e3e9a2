SPECIFICATION StorageSpec
CONSTANTS
    StorageParts = {"repair"}
    r1 = r1
    r2 = r2
    t1 = t1
    t2 = t2
    p1 = p1
    p2 = p2
    kBlockSize = 8
    kHeaderSize = 3
    RecordSizes = {0, 2, 5, 9}
    MaxRecords = 3
    InitialOffsets = {0, 1, 6, 8}
    Layouts <- LayoutsMC
    MaxIterWrites = 1
    MaxIterFaults = 1
    TableKeys <- TableKeysMC
    LookupKeys <- LookupKeysMC
    MaxByte = 3
    MaxSeq = 9
    BlockSize = 7
    RestartInterval = 2
    FilterBase = 6
    BitsPerKey = 4
    MinBits = 8
    Probes = 2
    HashWidth = 6
    Strings <- StringsMC
    Half = 3
    VarintBytes = 4
    Numbers = {1, 20}
    EditLevels = {0, 6}
    kNumLevels = 7
    MaxOps = 2
    MaxFields = 2
    Radix = 3
    MaxUint = 16
    MaxDigits = 4
    Readers <- TwoReaders
    Files = {1, 3}
    Capacities = {0, 1, 2}
    FirstLength = 1
    MaxHandles = 3
    MemUserKeys = {1, 2}
    kMaxHeight = 2
    MaxMemEntries = 3
    MaxMemReads = 2
    Openers <- TwoReaders
    MaxMmaps = 1
    MaxOpenFiles = 1
    MaxOpenTables = 2
    Processes <- TwoProcesses
    LockThreads <- TwoThreads
    BufferSize = 3
    AppendSizes = {1, 3, 5}
    MaxAppends = 3
    MaxWork = 3
    RepairDirs <- RepairDirsMC
    MaxRepairs = 1
    MaxRepairFaults = 2
INVARIANT LastSequenceCovers
CHECK_DEADLOCK FALSE

\* The main model with one restart: the usage table a crash leaves.
CONSTANTS
    SegmentSize = 4
    FirstSegment = 1
    FlashSize = 7
    CheckpointInterval = 2
    LiveMod = 256
    CacheSize = 1
    BlockSize = 2
    InodeSize = 1
    IndirectEntries = 2
    CleanStart = 1
    CleanEnd = 2
    MaxINodes = 2
    MaxDataBlocks = 2
    MaxOps = 5
    MaxRestarts = 1
    v1 = v1
    v2 = v2
    z = z
    rootdata = rootdata
    Zero <- z
    RootData <- rootdata
    Vals <- MCVals
SPECIFICATION SpecRestarts
INVARIANT UsageCoversLive
CHECK_DEADLOCK FALSE

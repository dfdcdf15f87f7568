\* Files of five blocks (the fifth behind an indirect block of one
\* entry): the summary a rewritten indirect block is logged with.
CONSTANTS
    SegmentSize = 4
    FirstSegment = 1
    FlashSize = 10
    CheckpointInterval = 2
    LiveMod = 256
    CacheSize = 1
    BlockSize = 2
    InodeSize = 1
    IndirectEntries = 1
    CleanStart = 1
    CleanEnd = 2
    MaxINodes = 2
    MaxDataBlocks = 5
    MaxOps = 3
    MaxRestarts = 0
    v1 = v1
    v2 = v2
    z = z
    rootdata = rootdata
    Zero <- z
    RootData <- rootdata
    Vals <- MCVals
SPECIFICATION Spec
INVARIANT SummariesNameOwners

\* A two-entry segment cache.
CONSTANTS
    SegmentSize = 4
    FirstSegment = 1
    FlashSize = 7
    CheckpointInterval = 2
    LiveMod = 256
    CacheSize = 2
    BlockSize = 2
    InodeSize = 1
    IndirectEntries = 2
    CleanStart = 1
    CleanEnd = 2
    MaxINodes = 2
    MaxDataBlocks = 2
    MaxOps = 5
    MaxRestarts = 0
    v1 = v1
    v2 = v2
    z = z
    rootdata = rootdata
    Zero <- z
    RootData <- rootdata
    Vals <- MCVals
SPECIFICATION Spec




PROPERTY FileLayerImplementsAbstract

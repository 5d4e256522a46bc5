\* The heap of 12 units and the requests leave room for every order of up to five blocks;
\* the slab's three bins have 4, 8 and 16 bytes, with requests at and past their limits; the
\* volume has three inodes and four blocks, one of them taken by a pointer block.
CONSTANTS
    Shapes <- MCShapes
    Kinds = {"dlist", "slist", "ring", "fifo", "stack", "bitset", "hash"}
    Cap = 3
    Vals = {1, 2}
    NBits = 5
    WordBits = 2
    HKeys = {1, 2, 3, 5, 6}
    Hash <- MCHash
    InitBuckets = 2
    HeapUnits = 12
    L2Sizes = {1, 2, 3}
    L2Aligns = {1, 2}
    SlabBits = 6
    MinLog = 2
    HeaderSize = 1
    Bucket <- MCBucket
    Requests = {4, 8, 9}
    BumpRegion = {7}
    BumpSizes = {2, 3}
    Alignments = {1, 4}
    InodeCount = 3
    BlockCount = 4
    Direct = 1
    PtrsPerBlock = 2
    BlockSize = 3
    DirentSize = 2
    PathDepth = 2
    MaxFiles = 2
    MaxMounts = 1
    MountNames = {"t"}
    Paths <- MCPaths
    FlagSets <- MCFlagSets
    Counts = {2}
    Seeks <- MCSeeks
    MaxPos = 4
SPECIFICATION Spec
CONSTRAINT Followed
VIEW View
CHECK_DEADLOCK FALSE
INVARIANTS
    ContainersExact
    
    SlabExact
    VolumeConsistent

    

SPECIFICATION DiskSpec
CONSTANTS
    h1 = h1
    h2 = h2
    Harts = {1}
    Paths <- TreePaths
    Offsets = {2}
    NInodes = 3
    InosPerBlock = 2
    NBlocks = 6
    NDirect = 1
    PerBlock = 2
    MaxLen = 2
    MaxCalls = 4
    MaxCuts = 1
    BlkHarts = {h1, h2}
    Capacity = 3
    NSlot = 2
    MaxTimeouts = 1
    MaxBlkCalls = 3
SYMMETRY Symmetry
INVARIANTS
    TreeIsSound
    ReadBack
    CacheIsTrue
    DriverAnswers
CHECK_DEADLOCK FALSE

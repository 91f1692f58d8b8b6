SPECIFICATION MemSpec
CONSTANTS
    Tasks = {1, 2}
    task0 = 1
    Harts = {1, 2}
    NFrames = 18
    NPages = 4
    TableSpan = 2
    MaxCalls = 3
    HeapCells = 13
    HeapSizes = {1, 2, 3}
    Procs = {"p", "q"}
    proc0 = "p"
    FdMax = 5
    Names = {1, 2}
    SockSlots = 2
    PipeCap = 2
    Chunks <- MCChunks
    MaxPipes = 1
    MaxSent = 3
    MaxLen = 1
INVARIANTS
    MemoryIsOwned
    CellsAndDescriptorsHold
PROPERTIES
    LendsCells
CHECK_DEADLOCK FALSE

SPECIFICATION CtSpec
CONSTANTS
    p1 = p1
    p2 = p2
    p3 = p3
    Procs = {p1, p2, p3}
    first = p1
    MaxCg = 2
    Limits = {0}
    Busy = 2
    MaxFrames = 1
    MaxCreates = 3
    MaxPid = 4
    MaxNs = 1
    MaxLpid = 3
    LogLen = 1
    MaxCalls = 3
    NsBusy = 2
    Names = {"a", "aa"}
    Splits <- MCSplits
    MaxDepth = 2
    MaxMounts = 1
SYMMETRY Symmetry
INVARIANTS
    GroupsHold
    Confined
PROPERTIES
    StaysPut
CHECK_DEADLOCK FALSE

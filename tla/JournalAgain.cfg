SPECIFICATION AgainSpec
CONSTANTS
    x = x
    y = y
    h1 = h1
    h2 = h2
    Harts = {h1}
    Data = {x}
    Sb = Sb
    Bitmap = Bitmap
    MountReads = {x}
    NRec = 6
    Chunk = 2
    Rebuilds = 7
    Calls <- OneCall
    MaxCalls = 2
    MaxCuts = 3
    MaxGen = 1
INVARIANT AckedSurvive

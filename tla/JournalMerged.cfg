SPECIFICATION MergedSpec
CONSTANTS
    x = x
    y = y
    h1 = h1
    h2 = h2
    Harts = {h1, h2}
    Data = {x, y}
    Sb = Sb
    Bitmap = Bitmap
    MountReads = {x}
    NRec = 5
    Chunk = 2
    Rebuilds = 6
    Calls <- OneOrNone
    MaxCalls = 3
    MaxCuts = 1
    MaxGen = 1
INVARIANT AckedSurvive

SPECIFICATION JournalSpec
CONSTANTS
    x = x
    y = y
    h1 = h1
    h2 = h2
    Harts = {h1}
    Data = {x, y}
    Sb = Sb
    Bitmap = Bitmap
    MountReads = {x}
    NRec = 6
    Chunk = 2
    Rebuilds = 7
    Calls <- SomeCalls
    MaxCalls = 3
    MaxCuts = 3
    MaxGen = 2
INVARIANTS
    CallsSurvive
    RecordsHold
PROPERTIES
    KeepsThePromise

SPECIFICATION MachSpec
CONSTANTS
    Harts = {1, 2, 3}
    Late = FALSE
    Cpus = {1, 2}
    LineLen = 2
    MaxLines = 2
    TxCap = 1
    RxCap = 2
    Typed <- MCTyped
    t1 = t1
    t2 = t2
    t3 = t3
    g1 = g1
    g2 = g2
    NHarts = 1
    Tasks = {t1, t2, t3}
    NoTask = NoTask
    Groups = {g1, g2}
    NoGroup = NoGroup
    GroupOf <- TwoAndOne
    Window = 2
    StashCap = 1
    Uncapped = Uncapped
    Caps = {50, 200}
    Shares = {2}
    UseCap = 3
INVARIANTS
    UseIsElapsed
    MachineHolds
PROPERTIES
    SharesDecide
    TurnsAreTaken
    HartsComeUp
    OutputIsSent
CHECK_DEADLOCK FALSE

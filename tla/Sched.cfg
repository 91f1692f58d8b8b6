SPECIFICATION MCSpec
CONSTANTS
    h1 = h1
    h2 = h2
    init = init
    p1 = p1
    p2 = p2
    NoTask = NoTask
    NoGroup = NoGroup
    Uncapped = Uncapped
    Harts = {h1, h2}
    Pids = {init, p1, p2}
    NoPid = NoPid
    KernelRoot = KernelRoot
    WaitTargets <- AnyOrOne
    RxCap = 2
    NHarts = 2
    Tasks = {t1, t2}
    Groups = {g1, g2}
    GroupOf <- GroupEach
    Window = 2
    StashCap = 0
    Caps = {50}
    Shares = {}
    UseCap = 3
SYMMETRY Symmetry
INVARIANTS
    TypeOK
    ExclusiveOwnership
    NoTaskLost
    HartHoldsWhatItRuns
    UserRunsOwnSpace
    EveryProcessHasAParent
    NoLostWaitWakeup
    FreedOnce
    NobodyForgotten
PROPERTIES
    DeadStayDead
    CapsComeFirstAnywhere

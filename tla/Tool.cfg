SPECIFICATION ToolSpec
CONSTANTS
    c1 = c1
    c2 = c2
    Cmds = {c1, c2}
    Cts = {"web"}
    Quotas = {1}
    MaxPid = 2
    MaxGroup = 2
    MaxBoot = 2
    MaxCmds = 3
    MaxTries = 2
    Procs = {1}
    Pkgs = {"a", "b"}
    Names = {"x", "y", "z"}
    MaxVer = 2
    Bins <- MCBins
    DepChoices <- MCAllDeps
    MaxRuns = 3
    TarNames = {"a", "b", "d", "x", "../x"}
    Unsafe = {"../x"}
    LayerSets <- MCLayerSets
    MaxList = 2
SYMMETRY CmdSymmetry
INVARIANTS
    ContainersTracked
    PackagesHold
CHECK_DEADLOCK FALSE

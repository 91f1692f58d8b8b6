SPECIFICATION ShellSpec
CONSTANTS
    MaxPid = 5
    NJobs = 2
    MaxCmds = 4
    Keys = {"a", "b"}
    LineCap = 2
    HistCap = 2
    MaxPast = 3
    MaxLen = 4
    VarValue <- MCValue
    TokCap = 2
    MaxToks = 2
    GlobCap = 1
    Files <- MCFiles
    Letters = {"a", "b"}
    MaxPat = 4
    MaxName = 4
    EnvNames = {"x", "y", "z"}
    EnvVals = {"1", "2"}
    EnvCap = 2
    Replies <- MCReplies
    BufCap = 3
    OutCap = 3
    SpinCap = 1
    Servers <- MCServers
    Body <- MCBody
    CertLen = 2
    StageCap = 9
    HeadCap = 3
    MinEpoch = 1
    Slop = 1
    MaxTlsRuns = 2
    MaxTlsFaults = 1
INVARIANTS
    JobsAreChildren
    LineIsUnderstood
    DownloadsAreWhole
    FailsForCause
PROPERTIES
    PromptComesBack
CHECK_DEADLOCK FALSE

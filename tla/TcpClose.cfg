SPECIFICATION OneConnection
CONSTANTS
    Buffers = {1, 2}
    Stations = {"a", "b", "c"}
    ArpSlots = 2
    MaxTimeouts = 1
    MaxFrames = 3
    MaxSends = 1
    NSock = 3
    Owners = {"a", "b"}
    owner0 = "a"
    NFds = 2
    Fixed = {80}
    Ephemeral = {1}
    MaxTaken = 4
    DgSlots = {1, 2}
    DgPorts = {1, 2}
    StageCap = 2
    MaxPackets = 3
    RxCap = 1
    UnackCap = 2
    MaxRetry = 2
    MaxSend = 2
    MaxPeer = 2
PROPERTY CloseDrains
CHECK_DEADLOCK FALSE

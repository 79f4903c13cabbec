CONSTANTS
    Work <- TwoLogs
    Providers <- OneProvider
    ProviderOf <- BothClaude
    RunOf <- ThreeRecords
    BadChoices <- ThirdMayNotParse
    InitLen <- ThreeAndNone
    Controller = Controller
    None = None
    MaxLen = 3
    Chunk = 1
    LaneCapacity = 1
    ChannelCapacity = 1
    MaxAppends = 1
    MaxReplacements = 1
    MaxFaults = 1
    MaxRestarts = 1
    MaxOverflows = 1
    MaxControllerEvents = 1
    MaxDisturbances = 1
    a1 = a1
    a2 = a2
    claude = claude
    r1 = r1
    r2 = r2
CHECK_DEADLOCK FALSE
SPECIFICATION Spec
INVARIANT FinalizedCoversManifest
INVARIANT NoEarlyPublication
INVARIANT BarrierAccounted
PROPERTY DrainSettles

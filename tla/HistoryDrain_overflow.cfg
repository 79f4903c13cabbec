CONSTANTS
    Work <- TwoLogs
    Providers <- OneProvider
    ProviderOf <- BothClaude
    RunOf <- SharedRun
    BadChoices <- AllParse
    InitLen <- OneAndTwo
    Controller = Controller
    None = None
    MaxLen = 2
    Chunk = 2
    LaneCapacity = 1
    ChannelCapacity = 1
    MaxAppends = 1
    MaxReplacements = 0
    MaxFaults = 0
    MaxRestarts = 0
    MaxOverflows = 1
    MaxControllerEvents = 0
    MaxDisturbances = 2
    a1 = a1
    a2 = a2
    claude = claude
    r1 = r1
    r2 = r2
SPECIFICATION Spec
INVARIANT NoBarrierLost

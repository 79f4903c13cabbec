SPECIFICATION SubscriptionsSpec
CONSTANTS
    Capacity = 1
    Attempts = 1
    Ambiguous <- AmbiguousFirst
    MaxChanges = 2
    MaxNoise = 1
    MaxFaults = 1
    first = first
    second = second
    Addresses = {first, second}
    NoPane = NoPane
    PayloadQueue = 1
    MaxTurns = 3
    MaxBreaks = 1
INVARIANTS LiveCoversWorld DiscardsLeaveTraces StatusCovered
PROPERTIES TopologyConverges StatusFollows

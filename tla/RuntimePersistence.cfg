SPECIFICATION RSpec
CONSTANTS
    Ids = {c1, c2, c3, stop}
    ShutdownId = stop
    Events = {}
    Capacity = 2
    Retention = 0
    MaxTime = 1
    MaxFaults = 3
INVARIANTS ReportsTruthful
PROPERTY DegradedRecovers OutageLeavesTrace

SPECIFICATION Spec
CONSTANTS
    Ids = {c1, c2, stop}
    ShutdownId = stop
    Events = {e1}
    Capacity = 1
    Retention = 0
    MaxTime = 2
    MaxFaults = 2
INVARIANT MirrorCoversAdmitted
PROPERTY FirstFailureKept CallsReturn

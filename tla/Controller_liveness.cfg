SPECIFICATION Spec
CONSTANTS
    first = first
    retry = retry
    other = other
    e1 = e1
    e2 = e2
    Attempts = {first, other}
    Events = {e1, e2}
    EventOf <- Independent
    MaxConnections = 1
    QueueCapacity = 1
    MaxSeq = 2
    MaxFaults = 2
PROPERTY RequestSettles

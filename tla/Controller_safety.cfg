SPECIFICATION Spec
CONSTANTS
    first = first
    retry = retry
    other = other
    e1 = e1
    e2 = e2
    Attempts = {first, retry, other}
    Events = {e1, e2}
    EventOf <- RetryOfFirst
    MaxConnections = 2
    QueueCapacity = 2
    MaxSeq = 2
    MaxFaults = 2
INVARIANTS AppliedOnceInOrder AnswersTruthful GracefulExitKeepsAccepted

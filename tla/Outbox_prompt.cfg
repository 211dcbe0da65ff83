CONSTANTS
    Events = {e1, e2}
    Workers = {w1, w2}
    BatchSize = 2
    MaxAttempts = 2
    LockTimeout = 2
    NoOne = NoOne
    NoEvent = NoEvent
    FaultKinds = {"crash", "kafka"}
    MaxFaults = 3
SPECIFICATION Spec
INVARIANT Exclusive
PROPERTY KeepsPromise

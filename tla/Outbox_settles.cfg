CONSTANTS
    Events = {e1, e2}
    Workers = {w1, w2}
    BatchSize = 2
    MaxAttempts = 2
    LockTimeout = 1
    NoOne = NoOne
    NoEvent = NoEvent
    FaultKinds = {"crash", "kafka", "db", "slow"}
    MaxFaults = 3
SPECIFICATION FairSpec
INVARIANTS TypeOK Truthful FailuresAccount
PROPERTIES Settles

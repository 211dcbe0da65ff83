SPECIFICATION FairSpec
CONSTANTS
    w1 = w1
    w2 = w2
    Workers = {w1, w2}
    Input <- Events
    None = None
    QueueSize = 1
    CacheSize = 2
    KeepVersions = 2
    MaxFiles = 2
    MaxRetries = 3
    MaxFaults = 1
INVARIANTS Inv AnalysedOnce 
PROPERTIES Settled
CHECK_DEADLOCK FALSE

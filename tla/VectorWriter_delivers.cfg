SPECIFICATION FairSpec
CONSTANTS
    s1 = s1
    s2 = s2
    s3 = s3
    Symbols = {s1, s2, s3}
    Topic <- Events
    None = None
    BatchSize = 3
    MaxRetries = 2
    MaxFaults = 5
INVARIANT Inv
PROPERTIES NeverBackwards Delivered
CHECK_DEADLOCK FALSE

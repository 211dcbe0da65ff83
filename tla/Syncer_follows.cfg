SPECIFICATION FairSpec
CONSTANTS
    Packages = {a, b}
    Dependents = {a}
    Embedded = {a}
    Limit = 1
    BatchSize = 2
    MaxRetries = 2
    MaxClock = 2
    MaxChanges = 4
    MaxFaults = 2
INVARIANT Inv
PROPERTIES NeverBackwards Follows
CHECK_DEADLOCK FALSE

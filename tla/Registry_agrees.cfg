SPECIFICATION FairSpec
CONSTANTS
    Packages = {p1, p2}
    Versions = {v1}
    None = None
    BatchSize = 2
    MaxChanges = 3
    MaxFaults = 1
INVARIANTS Resumable 
PROPERTIES Agrees
CHECK_DEADLOCK FALSE

CONSTANTS
    Callers = {c1, c2, c3}
    FailureThreshold = 2
    SuccessThreshold = 1
    HalfOpenRequests = 2
    WordSize = 8
    MaxErrors = 3
    MaxDrops = 1
SPECIFICATION FairSpec
INVARIANTS Armed Probed
 

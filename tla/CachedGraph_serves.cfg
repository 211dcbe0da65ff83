SPECIFICATION FairSpec
CONSTANTS
    Requests = {r1, r2, r3}
    Refreshers = {b1}
    Keys = {k1}
    None = None
    Error = Error
    StaleAfter = 1
    ExpireAfter = 2
    DepthTtl = 2
    NegativeTtl = 1
    MaxUpdates = 1
    MaxFaults = 1
INVARIANTS Inv NoSpuriousError
PROPERTIES Converges Answered
CHECK_DEADLOCK FALSE

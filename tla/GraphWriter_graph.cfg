SPECIFICATION Spec
CONSTANTS
    p1 = p1
    p2 = p2
    v1 = v1
    v2 = v2
    events = events
    others = others
    Packages = {p1, p2}
    Versions = {v1, v2}
    PackageOf <- VersionsOfOne
    Partitions = {events, others}
    Log <- MixedLog
    Writers = {w1, w2}
    FaultKinds = {"crash", "rebalance", "memgraph", "dlq", "commit"}
    MaxFaults = 2
INVARIANT TypeOK Consistent
CHECK_DEADLOCK FALSE

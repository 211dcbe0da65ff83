SPECIFICATION FairSpec
CONSTANTS
    p1 = p1
    p2 = p2
    v1 = v1
    v2 = v2
    events = events
    others = others
    Packages = {p1, p2}
    Versions = {v1, v2}
    PackageOf <- VersionsOfTwo
    Partitions = {events, others}
    Log <- NpmLog
    Writers = {w1, w2}
    FaultKinds = {"crash", "memgraph", "commit"}
    MaxFaults = 3
INVARIANT CommittedHandled Converges
PROPERTY AllHandled
CHECK_DEADLOCK FALSE

CONSTANTS
    None = None
    RateInstances = {i1}
    Requests <- Headers
    TierOfKey <- KeyOfPro
    PerMinute <- LimitsOfTiers
    RateWindow = 2
    FallbackLimit = 2
    AllowOnRedisFailure = TRUE
    CleanupEvery = 2
    Draws = {1, 2}
    MaxTime = 5
    MaxCollisions = 1
    Connections = {w1, w2}
    IpOf <- OneAddress
    MaxConnectionsPerIp = 1
    MaxSubscriptions = 2
    MaxMessages = 2
    MessageWindow = 2
    MaxIdle = 1
    MaxForgets = 1
    BreakerCallers = {b1, b2}
    FailurePercent = 50
    BreakerSuccesses = 2
    MinRequests = 2
    BreakerSlots = 1
    OpenTime = 1
    ErrorWindow = 1
    MaxRecent = 3
    MaxDropped = 1
    BulkheadCallers = {c1, c2, c3}
    BulkheadPermits = 1
    MaxRetries = 2
    BaseDelay = 1
    MaxDelay = 1
    ApiInstances = {j1, j2}
    EventPartitions = {p1}
    EventLog <- LogOfUpserts
    Subscribers = {s1}
    Filter <- NewVersions
    Capacity = 1
    MaxApiFaults = 1
SPECIFICATION GuardsFairSpec
INVARIANTS  HeldCounted StreamsKept
PROPERTIES GuardsRecover
CHECK_DEADLOCK FALSE

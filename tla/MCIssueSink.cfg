\* Three events, two merges, and deliveries that fail.
SPECIFICATION SinkLiveSpec
CONSTANTS
    p1 = p1  w1 = w1  w2 = w2
    None = None  Nothing = Nothing
    Fingerprint <- MCFingerprint
    MaxFrames = 2
    NormalSymbol <- MCNormalSymbol
    NormalMessage <- MCNormalMessage
    NormalPath <- MCNormalPath
    LibraryPath = {"lib"}
    LibraryModule = {"lib"}
    GlobMatch <- MCGlobMatch
    Project <- MCProject
    Worker = {w1, w2}
    Rule <- MCRule
    Condition <- MCCondition
    Threshold = 0
    QueueDepth = 1
    MaxAttempts = 2
    BreakerFails = 2
    MaxHits = 3
    MaxMerges = 2
INVARIANTS OneHop NoneLost AlertsFire Accounted GroupsByCause
PROPERTIES HitShows DeliveryEnds
CHECK_DEADLOCK FALSE

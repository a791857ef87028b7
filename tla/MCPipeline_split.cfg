\* An ingest and a worker process share the directory; clients resend; either
\* process is killed.
SPECIFICATION LiveSpec
CONSTANTS
    Event <- MCEvent
    Part <- MCPart
    Ts <- MCTs
    Bodies <- MCBodies
    Bad = {}
    NoId = {"e4"}
    MaxItems = 2
    MaxItemBytes = 3
    NormalId <- MCNormalId
    MaxWritten = 3
    MaxBody = 5
    MaxBufferRows = 2
    FlushRows = 2
    FlushFaults = FALSE
    MaxFlushCount = 2
    MaxLag = 0
    CommitEvery = 2
    DedupeCap = 1
    Split = TRUE
    DistinctStamps = FALSE
    CommitFaults = TRUE
    IssueFaults = FALSE
    ReadFaults = FALSE
    Shutdown = FALSE
    MaxLog = 3
    MaxReboots = 1
INVARIANTS EffectivelyOnce CommittedCounted
PROPERTIES EventuallyCommitted SheddingEnds
CHECK_DEADLOCK FALSE

\* One crash, a shutdown, and failing segment writes, reads and commits.
SPECIFICATION Spec
CONSTANTS
    Event <- MCEvent
    Part <- MCPart
    Ts <- MCTs
    Bodies <- MCBodies
    Bad = {"e4"}
    NoId = {}
    MaxItems = 2
    MaxItemBytes = 3
    NormalId <- MCNormalId
    MaxWritten = 3
    MaxBody = 5
    MaxBufferRows = 2
    FlushRows = 2
    FlushFaults = TRUE
    MaxFlushCount = 2
    MaxLag = 1
    CommitEvery = 2
    DedupeCap = 2
    Split = FALSE
    DistinctStamps = TRUE
    CommitFaults = TRUE
    IssueFaults = TRUE
    ReadFaults = TRUE
    Shutdown = TRUE
    MaxLog = 2
    MaxReboots = 1
INVARIANTS CommittedStored ParseExact
CHECK_DEADLOCK FALSE

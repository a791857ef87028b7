\* A client resends an event after a restart.
SPECIFICATION Spec
CONSTANTS
    Event <- MCEvent
    Part <- MCPart
    Ts <- MCTs
    Bodies <- MCBodies
    Bad = {"e4"}
    NoId = {}
    MaxItems = 2
    MaxItemBytes = 3
    NormalId <- MCNormalId
    MaxWritten = 3
    MaxBody = 5
    MaxBufferRows = 2
    FlushRows = 2
    FlushFaults = FALSE
    MaxFlushCount = 2
    MaxLag = 1
    CommitEvery = 2
    DedupeCap = 2
    Split = FALSE
    DistinctStamps = FALSE
    CommitFaults = FALSE
    IssueFaults = FALSE
    ReadFaults = FALSE
    Shutdown = FALSE
    MaxLog = 3
    MaxReboots = 1
INVARIANT CommittedStored
CHECK_DEADLOCK FALSE

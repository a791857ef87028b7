\* The process is killed, the machine loses power, fsync and roll fail, at any
\* point; Close is called.
SPECIFICATION LiveSpec
CONSTANTS
    c1 = c1  c2 = c2  
    Client = {c1, c2}
    Torn = Torn
    Policy = "batched"
    SegRecords = 1
    MaxBatch = 2
    MaxPending = 1
    WriteFaults = FALSE
    SyncFaults = TRUE
    PowerLoss = TRUE
    CloseCalled = TRUE
    Retention = FALSE
    MaxCrashes = 2
INVARIANT NeverRefuses
PROPERTIES Implements AppendReturns CloseReturns AckedDelivered
CHECK_DEADLOCK FALSE

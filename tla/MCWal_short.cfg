\* Writes fail short, fsync fails or is skipped, the process is killed, Close is
\* called.
SPECIFICATION Spec
CONSTANTS
    c1 = c1  c2 = c2  c3 = c3
    Client = {c1, c2, c3}
    Torn = Torn
    Policy = "interval"
    SegRecords = 1
    MaxBatch = 2
    MaxPending = 1
    WriteFaults = TRUE
    SyncFaults = TRUE
    PowerLoss = FALSE
    CloseCalled = TRUE
    Retention = TRUE
    MaxCrashes = 1
SYMMETRY Symmetry
INVARIANTS DeliveredStable NeverOvertaken
CHECK_DEADLOCK FALSE

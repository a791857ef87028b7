\* Four records and two crashes, of the owner or of the process that tails it.
SPECIFICATION LiveSpec
CONSTANTS
    MaxRecords = 4
    MaxCrashes = 2
    MaxView = 3
INVARIANTS NoFalseCorruption ViewOnDisk
PROPERTY CatchesUp
CHECK_DEADLOCK FALSE

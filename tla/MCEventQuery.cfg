\* Readers against a flushing worker whose disk may fail, and may crash once.
SPECIFICATION Spec
CONSTANTS
    e1 = e1  e2 = e2  e3 = e3
    u = u  v = v  NoUser = NoUser
    Event <- MCEvent
    Part <- MCPart
    Ts <- MCTs
    Project <- MCProject
    User <- MCUser
    Arrivals <- MCArrivals
    Queries <- MCQueries
    MaxBufferRows = 3
    FlushRows = 2
    FlushFaults = TRUE
    MaxFlushCount = 1
    MaxCrashes = 1
INVARIANTS ReadExact UsersExact NodeComplete
CHECK_DEADLOCK FALSE

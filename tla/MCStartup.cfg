\* An ingest node and two query nodes, killed and started again.
SPECIFICATION LiveSpec
CONSTANTS
    Process = {ingest, query, query2}
    Serving = {query, query2}
    SchemaVersion = 2
    StartFaults = TRUE
    MaxKills = 2
INVARIANTS ReadyComplete CreatedOnce
PROPERTY AllServe
CHECK_DEADLOCK FALSE

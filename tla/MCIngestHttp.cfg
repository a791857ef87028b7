\* Room for two keys in the cache and one bucket in the limiter, one restart.
SPECIFICATION Spec
CONSTANTS
    h1 = h1  h2 = h2  k1 = k1  k2 = k2  k3 = k3  p1 = p1  p2 = p2  None = None
    Handler = {h1, h2}
    Key = {k1, k2, k3}
    Project = {p1, p2}
    Revocable = {k2}
    ProjectOf <- MCProjectOf
    MaxBytes = 2
    TTL = 1
    Slow = 1
    Rate = 1
    Burst = 1
    MaxProjects = 1
    MaxRequests = 3
    MaxTime = 3
    MaxRestarts = 1
    Never = 9
SYMMETRY Symmetry
INVARIANTS QuotaHolds CacheExact RevocationBounded
CHECK_DEADLOCK FALSE

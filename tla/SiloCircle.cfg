SPECIFICATION SiloSpec
CONSTANTS
    None = None
    Closed = Closed
    Grains = {u, v, w}
    Persistent = {u}
    Callers = {c1, c2}
    Lives = 1
    Acts <- MCActs
    GrainOf <- MCGrainOf
    MaxSends = 0
    Capacity = 1
    Limit = 1
    Evictors = {}
    ChainEntries <- MCChainEntries
    Reentrant = {"b"}
    MaxFrames = 4
    MaxRoots = 1
    MaxAsks = 2
    PoolSize = 2
    Handles = {h1}
    MaxPools = 3
    MaxQueued = 1
INVARIANT CircleDetected
SYMMETRY Symmetry
CHECK_DEADLOCK FALSE

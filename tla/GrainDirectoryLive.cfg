SPECIFICATION FairSpec
PROPERTIES AskReturns NoLeakedTask DrainReturns
CONSTANTS
    None = None
    Closed = Closed
    Grains = {p}
    Persistent = {p}
    Callers = {c1}
    Lives = 2
    Acts <- MCActs
    GrainOf <- MCGrainOf
    MaxSends = 1
    Capacity = 1
    Limit = 1
    Evictors = {"drain", "rebalancer"}
CHECK_DEADLOCK FALSE

SPECIFICATION Spec
INVARIANTS TypeOK SingleActivation NoStaleEntry AskOutcome
SYMMETRY Symmetry
CONSTANTS
    None = None
    Closed = Closed
    Grains = {v}
    Persistent = {}
    Callers = {c1, c2}
    Lives = 2
    Acts <- MCActs
    GrainOf <- MCGrainOf
    MaxSends = 1
    Capacity = 1
    Limit = 0
    Evictors = {"drain", "rebalancer"}
CHECK_DEADLOCK FALSE

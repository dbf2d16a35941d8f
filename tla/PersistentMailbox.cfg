SPECIFICATION Spec
INVARIANTS NoTornState WriteThroughDurable VersionInStep
SYMMETRY Symmetry
PROPERTY SavedIsKept
CONSTANTS
    Messages = {m1, m2}
    MaxActs = 2
    MaxFaults = 3
    MaxCrashes = 1
    Builds = {1, 2}
    NoState = NoState
CHECK_DEADLOCK FALSE

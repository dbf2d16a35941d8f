SPECIFICATION FairSpec
CONSTANTS
    Silos = {a, b, c}
    Founders = {a, b}
    Seeds = {a}
    Probers = {b}
    Fanout = 2
    MaxPending = 3
    PingReqCount = 1
    MaxLosses = 2
    MaxCrashes = 1
    MaxLeaves = 1
    None = None
INVARIANTS MembersRouted IncarnationOwned
PROPERTIES NoFalseDeath CrashedForgotten
CHECK_DEADLOCK FALSE

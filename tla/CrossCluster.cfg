\* Three clusters, one grain: claims, calls and competing promotion sweeps.
SPECIFICATION Spec
CONSTANTS
    Clusters = {c1, c2, c3}
    Hub = c1
    Banned = c3
    Peers <- HubPeers
    Grains = {g}
    Allowed <- MCAllowed
    Calls = {r1, r2}
    None = None
    Flaky = TRUE
    LiveHealth = TRUE
    MaxEpoch = 3
    MaxErrors = 1
    MaxCrashes = 1
    MaxReleases = 1
SYMMETRY Symmetry
INVARIANTS
    UniqueOwner
    
PROPERTY TakesOnlyFromSwept

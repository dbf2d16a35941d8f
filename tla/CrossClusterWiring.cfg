\* Two clusters that watch each other: the failover as serve wires it.
SPECIFICATION FairSpec
CONSTANTS
    Clusters = {c1, c2}
    Hub = c1
    Banned = None
    Peers <- AllPeers
    Grains = {g}
    Allowed <- MCAllowed
    Calls = {r1}
    None = None
    Flaky = FALSE
    LiveHealth = FALSE
    MaxEpoch = 3
    MaxErrors = 0
    MaxCrashes = 1
    MaxReleases = 0
PROPERTY FailoverHappens

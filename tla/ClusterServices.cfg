SPECIFICATION ServicesSpec
CONSTANTS
    Silos = {1, 2, 3}
    Newcomer = 3
    Gossiped = {2}
    TcpPeers = {2}
    Mixes <- MCMixes
    MaxRetries = 1
    MaxHops = 3
    MaxFaults = 1
    Names = {"a"}
    Periods = {1, 2}
    MaxLag = 2
    MaxChanges = 3
    MaxSFaults = 2
INVARIANTS OwnAnswer RunPerAttempt 
PROPERTIES CallReturns TicksSpaced ReminderFires
CHECK_DEADLOCK FALSE

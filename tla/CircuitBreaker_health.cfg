SPECIFICATION FairSpec
CONSTANTS
    Configs <- TwoConfigs
    Quarantine = {2, 3}
    MaxLevel = 2
    Doubling <- TwoPowers
    MaxTrips = 4
    MaxRecent = 3
    Horizon = 9
    MaxClock = 12
INVARIANTS TypeOK NoLockout
PROPERTIES TripJustified NoEarlyRelease BackoffEscalates Recovers
CHECK_DEADLOCK FALSE

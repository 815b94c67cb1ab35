SPECIFICATION Spec
CONSTANTS
    c1 = c1
    c2 = c2
    c3 = c3
    o1 = o1
    o2 = o2
    o3 = o3
    Caller = {c1, c2, c3}
    Modes <- Races
    None = None
    NoFile = NoFile
    Torn = Torn
    MaxCrashes = 2
    Op = {o1, o2}
    Mixtures <- ResetRace
    Free = Free
INVARIANTS ResetEndsSessions
CHECK_DEADLOCK FALSE

SPECIFICATION FairSpec
CONSTANTS
    Tx = {t1, t2, t3}
    None = None
    NoRow = NoRow
    Caps <- PairCap
    Quarantine = {2}
    RowExists = FALSE
    MaxReserve = 1
    MaxClock = 2
PROPERTIES RequestsEnd
CHECK_DEADLOCK FALSE

SPECIFICATION Spec
CONSTANTS
    Tx = {t1, t2, t3}
    None = None
    NoRow = NoRow
    Caps <- PairCap
    Quarantine = {2}
    RowExists = FALSE
    MaxReserve = 1
    MaxClock = 2
INVARIANTS WindowCap
CHECK_DEADLOCK FALSE

SPECIFICATION Spec
CONSTANTS
    Tx = {t1, t2, t3}
    None = None
    NoRow = NoRow
    Caps <- TwoCaps
    Quarantine = {2}
    RowExists = TRUE
    MaxReserve = 2
    MaxClock = 4
SYMMETRY TxSymmetry
INVARIANTS TypeOK Serialized WindowCap QuarantineRespected
PROPERTIES ImplementsLimiter
CHECK_DEADLOCK FALSE

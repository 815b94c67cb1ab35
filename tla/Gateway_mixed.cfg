SPECIFICATION FairSpec
CONSTANTS
    r1 = r1
    r2 = r2
    r3 = r3
    k1 = k1
    p1 = p1
    p2 = p2
    Req = {r1, r2, r3}
    Key = {k1}
    Jwt = Jwt
    Nobody = Nobody
    None = None
    Provider = {p1, p2}
    Loads <- Mixes
    Pool = 2
    RequireAuth = FALSE
    Rpm = 2
    Window = 0
    MaxClock = 1
INVARIANTS TypeOK ServedIsCounted AccountsMatch
PROPERTIES ImplementsLimiter RequestsEnd
CHECK_DEADLOCK FALSE

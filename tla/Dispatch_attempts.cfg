SPECIFICATION Spec
CONSTANTS
    r1 = r1
    r2 = r2
    pa = pa
    pb = pb
    pz = pz
    m1 = m1
    m2 = m2
    Request = {r1}
    Provider = {pa, pb}
    Model = {m1, m2}
    None = None
    Rankings <- OneRanking
    Chain <- ChainOfTwo
    PerModel = {pa}
    Pin = m1
    Pinning = {}
    Foreign = {}
    NoFallback = {r1}
    StreamSets = {{}}
    Kinds = {"auth", "network"}
    MaxRetries = 0
INVARIANTS AttemptsLand
CHECK_DEADLOCK FALSE

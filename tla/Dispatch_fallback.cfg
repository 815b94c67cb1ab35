SPECIFICATION Spec
CONSTANTS
    r1 = r1
    r2 = r2
    pa = pa
    pb = pb
    pz = pz
    m1 = m1
    m2 = m2
    Request = {r1}
    Provider = {pa, pb, pz}
    Model = {m1, m2}
    None = None
    Rankings <- ThreeRankings
    Chain <- ChainOfTwo
    PerModel = {pa}
    Pin = m1
    Pinning = {r1}
    Foreign = {}
    NoFallback = {}
    StreamSets = {{}, {r1}}
    Kinds = {"client_error", "model_unavailable", "network", "empty_response"}
    MaxRetries = 1
INVARIANTS TwoAgree AllOrNothing
CHECK_DEADLOCK FALSE

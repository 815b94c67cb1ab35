SPECIFICATION FairSpec
CONSTANTS
    r1 = r1
    r2 = r2
    pa = pa
    pb = pb
    pz = pz
    m1 = m1
    m2 = m2
    Request = {r1, r2}
    Provider = {pa, pb}
    Model = {m1, m2}
    None = None
    Rankings <- TwoRankings
    Chain <- ChainOfTwo
    PerModel = {pa}
    Pin = m1
    Pinning = {r1}
    Foreign = {r2}
    NoFallback = {}
    StreamSets = {{r1}}
    Kinds = {"model_unavailable"}
    MaxRetries = 0
INVARIANTS InFlightExact WorkUnderLock OneVoice
PROPERTIES RequestsEnd
CHECK_DEADLOCK FALSE

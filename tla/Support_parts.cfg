SPECIFICATION Spec
CONSTANTS
    e1 = e1
    e2 = e2
    a = a
    b = b
    Pod = {p1, p2}
    UsageEvent = {e1, e2}
    Accounts <- Grouped
    Unknown = "null"
    Unnamed = "empty"
    KeepEvents = 2
    KeepRollups = 3
    MaxDay = 4
    Process = {p1}
    AdminProcess = {p1, p2}
    Lookup = {l1, l2}
    Definition = {d1}
    NoStrategy = NoStrategy
    NoEntry = NoEntry
    TTL = 2
    MaxNow = 3
    Piece = {a, b}
    MaxChunks = 3
    Outputs <- Complete
    Response = {1, 2, 3}
    Instructed = {1}
    MaxMessages = 5
    MaxInput <- InputSizes
    Answered = {1, 2}
    MaxLost = 1
    Calls = {c1, c2}
    HttpResponses <- Answers
    DefaultWait = 1
    EscalationMax = 4
    DailyWait = 2
    BillingWait = 3
    AuthWait = 4
    MaxTime = 8
    MaxStreak = 4
    MaxParseErrors = 5
    RefusalKinds = {"auth", "rate_limited"}
    MaxTurns = 5
    SignatureMax = 1
    Fleets <- TwoVendors
    ChatRequests <- SomeRequests
    Drafts <- SomeDrafts
    Foreign = {"gpt-5"}
INVARIANTS CountedStays OnePassPerDay FreshWithinTTL ConversationKept ChainFound HalfToldIsKept ToolTurnsKept RoutedRight
PROPERTIES ImplementsProtocol LeftAlone
CHECK_DEADLOCK FALSE

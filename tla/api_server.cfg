\* Two requests with one correlation id, a case of two documents, two lifespans.
SPECIFICATION FairSpec
CONSTANTS
    r1 = r1  r2 = r2  id1 = id1
    Requests = {r1, r2}
    Endpoints = {"document", "open", "review", "ready"}
    CorrelationIds = {id1}
    Documents = 2
    MaxStarts = 2
INVARIANTS
    TypeOK
    SpansFormCallTree
    NoTraceLeak
    ErrorsReachHandler
    MetricsAgree
    OneOpenStore
    ReadyTellsTruth
PROPERTY EveryRequestAnswered
CHECK_DEADLOCK FALSE

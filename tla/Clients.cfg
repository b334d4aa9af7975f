CONSTANTS
    b1 = b1
    q1 = q1
    q2 = q2
    k1 = k1
    k2 = k2
    t1 = t1
    f1 = f1
    Clients = {k1, k2}
    CdpTabs = {t1}
    Kids = {f1}
    MaxSessions = 2
    MaxAsked = 2
    NoTab = NoTab
    NoClient = NoClient
    Pages = {b1}
    MaxRenders = 3
    MaxTries = 1
    MaxTaken = 1
    MaxDropped = 1
    ListReads = {q1, q2}
    MaxWorld = 2
    MaxAsking = 1
    MaxHeard = 1
    MaxFailed = 1
SPECIFICATION ClientsSpec
INVARIANTS
    OneView
    EndpointAgrees
PROPERTIES
    FalseClaimEnds
    ListsKeepUp
CHECK_DEADLOCK FALSE

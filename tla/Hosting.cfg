CONSTANTS
    w1 = w1
    w2 = w2
    t1 = t1
    s1 = s1
    s2 = s2
    b1 = b1
    b2 = b2
    p1 = p1
    p2 = p2
    o1 = o1
    l1 = l1
    l2 = l2
    l3 = l3
    j1 = j1
    h1 = h1
    h2 = h2
    WorkerHosts = {w1}
    MaxFaults = 2
    MaxMoves = 2
    Tabs = {t1}
    Sockets = {s1, s2}
    NoSocket = NoSocket
    MaxDrops = 1
    MaxSleeps = 1
    MaxSaid = 0
    Browsers = {b1, b2}
    Seeds = {p1}
    Origins = {o1}
    MaxSaves = 2
    AgentCap = 1
    MaxBreaks = 1
    Nobody = Nobody
    Launches = {l1, l2, l3}
    NoLaunch = NoLaunch
    MaxHurts = 2
    Pairings = {p1, p2}
    JoinTokens = {j1}
    Processes = {h1, h2}
    NoName = NoName
    MaxLosses = 1
    MaxPolls = 2
SPECIFICATION HostingSpec
INVARIANTS
    ProfileKept
    MirrorAgrees
    SnapshotsStand
    FlushedInItsDisplay
    KeptCredentialWorks
PROPERTIES
    BeliefsMeet
    LinkEnds
CHECK_DEADLOCK FALSE

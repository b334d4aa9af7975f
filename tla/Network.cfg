CONSTANTS
    b1 = b1
    b2 = b2
    a1 = a1
    a2 = a2
    t1 = t1
    t2 = t2
    x1 = x1
    s1 = s1
    s2 = s2
    d1 = d1
    c1 = c1
    c2 = c2
    l1 = l1
    l2 = l2
    w1 = w1
    w2 = w2
    i1 = i1
    i2 = i2
    Browsers = {b1}
    Agents = {a1, a2}
    Admin = "admin"
    Borrowers = {a1}
    Lenders = {a1, a2}
    MaxRequests = 2
    MaxPending = 1
    Tunnels = {t1, t2}
    Addresses = {x1}
    Sockets = {s1, s2}
    Dials = {d1}
    PerBrowser = 1
    MaxStreams = 1
    MaxIds = 2
    StreamLimit = 2
    Window = 2
    Clients = {c1, c2}
    Links = {l1, l2}
    Users = {b1}
    MaxCuts = 2
    NoTunnel = NoTunnel
    NoSocket = NoSocket
    NoBrowser = NoBrowser
    NoAddress = NoAddress
    NoAgent = NoAgent
    NoLink = NoLink
    NoClient = NoClient
    Seekers = {a1}
    BridgeHosts = {w1, w2}
    Bridges = {i1, i2}
    Room = 1
    MaxMishaps = 2
    NoBridge = NoBridge
    NoHost = NoHost
    NoSeeker = NoSeeker
SPECIFICATION NetworkSpec
INVARIANTS
    LentWithoutTunnel
    GrantsAreAnswers
    OneRouteOut
PROPERTIES
    PeersReleased
    GatewayComesBack
    BridgesEnd
CHECK_DEADLOCK FALSE

CONSTANTS
    g1 = g1
    h1 = h1
    h2 = h2
    b1 = b1
    a1 = a1
    s1 = s1
    c1 = c1
    c2 = c2
    Grants = {g1}
    Holders = {h1, h2}
    MaxChain = 3
    MaxIssued = 2
    MaxBoots = 1
    Keyed = TRUE
    McpBrowsers = {b1}
    Callers = {a1}
    Sessions = {s1}
    Who <- Only
    Calls = {c1, c2}
    MaxBindings = 2
    Nobody = Nobody
SPECIFICATION AgentsSpec
INVARIANTS
    NoOrphanBridge
PROPERTIES
    ActsWithinLevel
    RevokedForGood
    LostAnswerForgiven
    CallsAnswered
CHECK_DEADLOCK FALSE

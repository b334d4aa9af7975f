CONSTANTS
    g1 = g1
    g2 = g2
    a1 = a1
    a2 = a2
    v1 = v1
    v2 = v2
    t1 = t1
    t2 = t2
    Admin = Admin
    Guests = {g1, g2}
    Agents = {a1, a2}
    Sockets = {v1, v2}
    Ttl = 1
    MaxHold = 3
    Cooldown = 2
    Budget = 9
    MaxStarts = 2
    Rooms = {t1, t2}
    Home = t1
    NoRoom = NoRoom
    OldPlaces = 3
    MaxPlaces = 4
    MaxAttach = 2
    MaxAsked = 2
SPECIFICATION ControlSpec
INVARIANTS
    HoldBounded
    InputOnlyFromHolder
    RevokedIsOut
    RecordsFitBudget
PROPERTIES
    LeaseRefined
    NotBeforeItCame
CHECK_DEADLOCK FALSE

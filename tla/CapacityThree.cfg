CONSTANTS
    b1 = b1
    b2 = b2
    b3 = b3
    Browsers = {b1, b2, b3}
    Sizes = {1}
    Flat = 1
    Ceiling = 2
    Headroom = 0
    Pinnable = {b1}
    Watched = {b1}
    Closable = {}
SPECIFICATION CrowdSpec
SYMMETRY Same
PROPERTY PinnedRoomKept

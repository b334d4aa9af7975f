CONSTANTS
    b1 = b1
    b2 = b2
    b3 = b3
    Browsers = {b1, b2}
    Sizes = {1, 2}
    Flat = 1
    Ceiling = 2
    Headroom = 0
    Pinnable = {}
    Watched = {}
    Closable = {b1}
SPECIFICATION FairSpec
PROPERTIES
    PromisesKept
    AdmissionEnds

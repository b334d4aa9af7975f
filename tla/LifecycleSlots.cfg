CONSTANTS
    b1 = b1
    b2 = b2
    Browsers = {b1, b2}
    Temporary = {}
    Workers = {}
    Cap = 1
SPECIFICATION SlotSpec
SYMMETRY BrowserSymmetry
PROPERTY SlotsRefined
CHECK_DEADLOCK FALSE

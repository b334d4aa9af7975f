CONSTANTS
    Pages = {b1}
    MaxRenders = 3
    MaxTries = 1
    MaxTaken = 1
    MaxDropped = 1
SPECIFICATION PageSpec
PROPERTIES
    OnlyLeavingHandsBack
CHECK_DEADLOCK FALSE

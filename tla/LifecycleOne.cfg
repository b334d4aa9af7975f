CONSTANTS
    Browsers = {b1}
    Temporary = {b1}
    Workers = {w1}
    Cap = 1
SPECIFICATION FairSpec
INVARIANTS
    OneChromePerProfile
    ExportFrozen
PROPERTIES
    OperationsEnd
CHECK_DEADLOCK FALSE

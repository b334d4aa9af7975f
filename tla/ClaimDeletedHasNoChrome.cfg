CONSTANTS
    Browsers = {b1}
    Temporary = {}
    Workers = {}
    Cap = 1
SPECIFICATION Spec
INVARIANT DeletedHasNoChrome
CHECK_DEADLOCK FALSE

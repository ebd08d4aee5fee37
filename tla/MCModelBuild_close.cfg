CONSTANTS
    Build = {b1}
    None = None
    AutoStart = FALSE
    MaxTries = 2
    MaxCancels = 0
SPECIFICATION Spec
CHECK_DEADLOCK FALSE
INVARIANT
    EarlyCloseTerminates

SPECIFICATION FairSpec
CONSTANTS
    Gui = gui
    Probe = probe
    None = none
    Conn <- MCConn
    Modes <- HastyModes
    Faults = {}
INVARIANT ListenerLives
CHECK_DEADLOCK FALSE

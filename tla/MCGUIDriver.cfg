SPECIFICATION FairSpec
CONSTANTS
    Gui = gui
    Probe = probe
    None = none
    Conn <- MCConn
    Modes <- PatientModes
    Faults = {"gui.listen", "gui.start", "lp.start"}
INVARIANT ListenerLives
INVARIANT SendsOnOpenConnection
INVARIANT ExitAfterSession
PROPERTY ClosedSessionEnds
PROPERTY EndedGuiEndsDriver
PROPERTY BuildIsAnswered
CHECK_DEADLOCK FALSE

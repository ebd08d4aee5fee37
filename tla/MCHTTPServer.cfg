CONSTANTS
    Client = {c1, c2}
    Server = {s1, s2}
    Startable = {s1}
    None = None
    Modes = {"steady", "nocache", "ending", "failing", "closing"}
    MaxTries <- Rounds
    Limit = 1
    MaxEnds = 1
SPECIFICATION FairSpec
CHECK_DEADLOCK FALSE
INVARIANTS
    
    SteadyExclusive
    DeniedAfterTries
PROPERTIES
    ClientsLeave

CONSTANTS
    MaxCommands = 2
    Group = {11, 12}
    None = None
    Scenarios <- Circumstances
    Filter <- Lowering
    Said = {2, 3}
SPECIFICATION FairSpec
CHECK_DEADLOCK FALSE
INVARIANTS
    
    ShownIsWorst
    SeverityRises
    TrackIsThere
PROPERTY
    DoneArrives

CONSTANTS
    Build = {b1, b2}
    None = None
    AutoStart = TRUE
    MaxTries = 2
    MaxCancels = 1
SPECIFICATION FairSpec
\* The driver exits, or nobody presses a button.
CHECK_DEADLOCK FALSE
INVARIANTS
    OneBuild
    DoneMeansOver
    

    

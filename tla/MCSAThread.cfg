CONSTANTS
    Client = {c1, c2}
    Proc = {p1, p2}
    None = None
    MaxEvents = 5
    Modes = {"any", "disciplined"}
SPECIFICATION FairSpec
\* A thread may wait for itself, or for a lock that nobody gives back.
CHECK_DEADLOCK FALSE
INVARIANTS
    GuardOutlivesUse
    JoinedWhenLocked
    NoLeak
PROPERTIES
    NoWriteAfterDelete
    ImplementsThreadLock
    CallsReturn

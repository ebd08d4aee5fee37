CONSTANTS
    Thread = {t1, t2, t3, t4}
    NoThread = NoThread
SPECIFICATION MonitorSpec
SYMMETRY Symmetry
\* Every thread may wait with nobody left to notify, or hang on a double lock.
CHECK_DEADLOCK FALSE
INVARIANTS
    ExactRecord
    HeldNotifyWakesAll
    WokenAfterNotify
PROPERTY
    ImplementsMesa

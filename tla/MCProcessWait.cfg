CONSTANTS
    c1 = c1
    c2 = c2
    c3 = c3
    Thread = {t1, t2, t3}
    Child = {c1, c2, c3}
    Init1 = init
    None = None
    Status = {ok, bad, eintr}
    Ok = ok
    Eintr = eintr
    MaxWakes = 1
    Scenarios <- AnyOrPlain
SPECIFICATION FairSpec
\* Waiting for a process that cannot be waited for never ends.
CHECK_DEADLOCK FALSE
INVARIANTS
    StatusIsOwn
    HandoffHasTaker
PROPERTY
    PlainWaitReturns

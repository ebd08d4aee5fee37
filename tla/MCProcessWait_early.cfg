CONSTANTS
    c1 = c1
    c2 = c2
    c3 = c3
    Thread = {t1, t2}
    Child = {c1, c2, c3}
    Init1 = init
    None = None
    Status = {ok, bad, eintr}
    Ok = ok
    Eintr = eintr
    MaxWakes = 0
    Scenarios <- Early
SPECIFICATION FairSpec
CHECK_DEADLOCK FALSE
PROPERTY
    WaitReturns

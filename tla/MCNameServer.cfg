CONSTANTS
    root = root
    leaf = leaf
    s1 = s1
    s2 = s2
    c1 = c1
    c2 = c2
    n1 = n1
    n2 = n2
    Host = {root, leaf}
    Proc = {s1, s2, c1, c2}
    Name = {n1, n2}
    HostOf <- Placed
    NameOf <- Named
    Parent <- OneRoot
    None = None
    Loopback = Loopback
    Scenarios <- Circumstances
SPECIFICATION FairSpec
\* Everybody may have left.
CHECK_DEADLOCK FALSE
INVARIANTS
    FoundReaches
    ReadYourWrites
    RegistrationKept
PROPERTIES
    AskReturns

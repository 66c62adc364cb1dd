SPECIFICATION FairSpec
CONSTANTS
    Users = {u1}
    Closers = {c1}
    Objects = {o1, o2}
    Timeouts = TRUE
    MaxFaults = 0
    None = None
    Failure = Failure
PROPERTIES DrainEnds
CHECK_DEADLOCK FALSE

SPECIFICATION FairSpec
CONSTANTS
    Users = {u1, u2}
    Closers = {c1}
    Objects = {o1}
    Timeouts = FALSE
    MaxFaults = 0
    None = None
    Failure = Failure
PROPERTIES CallsReturn
CHECK_DEADLOCK FALSE

SPECIFICATION Spec
CONSTANTS
    Users = {u1, u2}
    Closers = {c1}
    Objects = {o1, o2}
    Timeouts = TRUE
    MaxFaults = 1
    None = None
    Failure = Failure
SYMMETRY Symmetry
INVARIANTS IInv Exclusive NeverLendClosed Accounting EndsClean
PROPERTIES ImplementsLending
CHECK_DEADLOCK FALSE

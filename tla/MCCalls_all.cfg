SPECIFICATION PartsFair
CONSTANTS
    c1 = c1
    c2 = c2
    Callers = {c1, c2}
    Size <- SizeTwoOne
    MaxConcurrent = 2
    Closers = {k1}
    Cancellable = {c1}
    Nestings <- Nested
    Parts = {"executor", "gather", "retry", "budget", "lazy", "conn", "down"}
    Nil = Nil
    Options <- RetryOptions
    Base = 1
    MaxDelay = 3
    Factor = 2
    Width = 3
    BucketLength = 2
    BucketNum = 2
    RateLimit <- Half
    RatioLimit <- Half
    MaxTime = 8
    MaxCalls <- FewCalls
    Getters = {"a", "b", "c"}
    Users = {"u", "v", "w"}
    MaxConns = 3
    ConnSize = 2
    Regs = {"r"}
    Submitters = {"t"}
    MaxSignals = 1
INVARIANTS ExecutorIsSound ResultsAreTrue GatherIsTrue RetryIsTrue BudgetIsTrue
    LazyIsTrue ConnsKept ShutdownIsOrderly
PROPERTIES AllReturn
CHECK_DEADLOCK FALSE

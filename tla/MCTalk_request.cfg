SPECIFICATION PartsSpec
CONSTANTS
    c1 = c1
    c2 = c2
    c3 = c3
    Callers = {c1, c2}
    Kind <- KindTwo
    Weight <- WeightTwo
    Inboxes <- AllInboxes
    Buckets = 2
    None = None
    N = 2
    Completers <- FutureCompleters
    Modes = {"map"}
    Watchers = {"v", "w"}
    On <- FutureOn
    Hears <- FutureHears
    Parts = {"actor"}
PROPERTIES RequestsReturn
CHECK_DEADLOCK FALSE

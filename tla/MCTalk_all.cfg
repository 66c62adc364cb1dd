SPECIFICATION PartsSpec
CONSTANTS
    c1 = c1
    c2 = c2
    c3 = c3
    Callers = {c1, c2, c3}
    Kind <- KindThree
    Weight <- WeightThree
    Inboxes <- AllInboxes
    Buckets = 2
    None = None
    N = 2
    Completers <- FutureCompleters
    Modes = {"combine", "combineCtx", "all", "allCtx", "map", "mapCtx"}
    Watchers = {"v", "w"}
    On <- FutureOn
    Hears <- FutureHears
    Parts = {"actor", "future"}
INVARIANTS InboxIsTrue AnswersAreTrue PriorityOrder FutureIsTrue
PROPERTIES ResultIsFinal TalkEnds
CHECK_DEADLOCK FALSE

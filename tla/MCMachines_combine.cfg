SPECIFICATION Spec
CONSTANTS
    Machines <- TestMachines
    DataKeys = {"k"}
    Texts = {"x"}
    MaxPath = 5
    MaxFixes = 1
    Trees <- TestTrees
    Root = "root"
    ActionKeys = {"x", "y"}
    Wishes <- TestWishes
    CloserLists <- TestLists
    CloseCallers = {"t", "u"}
    MaxCloses = 3
    Kinds <- TestKinds
    Uses = {"p", "q"}
    None = None
    Keys = {"x", "y"}
    NotSet = ""
    Environments <- TestEnvironments
    Starts <- TestStarts
    Procs = {"main", "p", "q"}
    MainProc = "main"
    MaxReads = 2
    Clients = {"c", "d"}
    Mine = "mine"
    OptionSets <- TestOptions
    Contexts <- TestContexts
    Dialers = {"c"}
    MaxCNAMEDepth = 3
    MaxAttempts = 2
    MaxNow = 5
INVARIANT CombineIsAllOrNothing
CHECK_DEADLOCK FALSE

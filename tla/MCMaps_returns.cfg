SPECIFICATION PartsSpec
CONSTANTS
    MaxKey = 5
    Parts = {"tree"}
    Names = {"j", "k", "l", "m", "u"}
    Values = {"v"}
    Kinds = {"map", "omap", "set", "oset"}
    Unhashable = {"u"}
    DefaultValue = "d"
    NoDefault = "no default"
    None = None
    MaxOther = 1
    MaxCalls = 2
    Movers = {p, q}
    Joiners = {s}
    Elements <- LockedNames
    Supplied = {"k"}
    Defaults <- BothOrNeither
    Contents <- LockedContents
    Joined = {"x"}
    Stored <- LockedNames
    Defaulted = {"k"}
    Nobody = Nobody
    Callers = {"p", "q"}
    CallsOf <- LayeredCalls
    Wishes <- LayerWishes
VIEW Seen
PROPERTIES Returns

SPECIFICATION FairSpec
CONSTANTS
    Free = Free
    p1 = p1
    p2 = p2
    Procs = {p1, p2}
    Groups <- MCGroups
    DefaultGroupName = "default"
    FileGroups <- MCBoth
    FileDefault = "orders"
    FileLogger = TRUE
    Calls = {"Instance", "SetConfig", "RemoveConfig", "LoadConfig", "SetDefaultGroup"}
    Names <- MCNames
    NoName = "none"
    Faults = {"file", "link", "open", "logger", "close"}
    MaxCalls = 3
INVARIANTS TypeOK RegisteredIsCurrent OpenedOnce NoPoolLost FileIsLoadedFirst
PROPERTY CallsReturn

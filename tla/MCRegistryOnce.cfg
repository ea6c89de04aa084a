SPECIFICATION Spec
CONSTANTS
    Free = Free
    p1 = p1
    p2 = p2
    Procs = {p1, p2}
    Groups <- MCGroups
    DefaultGroupName = "default"
    FileGroups <- MCBoth
    FileDefault = "orders"
    FileLogger = TRUE
    Calls = {"Instance"}
    Names = {"orders"}
    NoName = "none"
    Faults = {}
    MaxCalls = 2
INVARIANT HandedOutStaysOpen

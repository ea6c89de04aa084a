SPECIFICATION Spec
CONSTANTS
    p1 = p1
    p2 = p2
    Procs = {p1, p2}
    Kinds = {"value"}
    Faults = {"dry"}
    MaxVersions = 2
    MaxCalls = 2
INVARIANTS UnreadNeedsForce

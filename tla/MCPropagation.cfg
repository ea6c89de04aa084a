SPECIFICATION Spec
CONSTANTS
    p1 = p1
    a = a
    b = b
    Procs = {p1}
    Scopes = {a, b}
    MaxConns <- MCAmple
    Modes <- MCAllModes
    Faults = {"begin", "commit", "answer", "savepoint", "ending", "cancel"}
    MaxCalls = 4
    MaxDepth = 3
    MaxWrites = 1
INVARIANTS WorkFollowsUnits WaitsOnlyWhenSuspended ReturnedHoldsNothing
SYMMETRY MCSymmetry

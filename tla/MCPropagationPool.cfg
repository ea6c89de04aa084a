SPECIFICATION FairSpec
CONSTANTS
    p1 = p1
    p2 = p2
    a = a
    Procs = {p1, p2}
    Scopes = {a}
    MaxConns <- MCSingle
    Modes <- MCJoining
    Faults = {"begin", "commit", "savepoint", "ending"}
    MaxCalls = 3
    MaxDepth = 3
    MaxWrites = 2
PROPERTY CallsReturn

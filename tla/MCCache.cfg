SPECIFICATION Spec
CONSTANTS
    p1 = p1
    p2 = p2
    Procs = {p1, p2}
    Kinds = {"page"}
    Faults = {"dry", "get", "set", "db"}
    MaxVersions = 2
    MaxCalls = 3
INVARIANTS TypeOK InTxSeesItself CachedIsCommitted StaleOnlyByOverlap
SYMMETRY MCSymmetry

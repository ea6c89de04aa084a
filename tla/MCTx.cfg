SPECIFICATION Spec
CONSTANTS
    Dialects <- MCDialects
    NoRelease <- MCNoRelease
    Replacing <- MCReplacing
    UserNames = {9}
    Disciplined = TRUE
    Faults = {"refuse", "lost", "cancel"}
    MaxCalls = 4
    MaxLog = 3
    MaxMarks = 2
INVARIANTS TypeOK LevelIsNesting SavepointOfCall NoFailedWork
PROPERTY ImplementsNestedWork

SPECIFICATION Spec
CONSTANTS
    Dialects <- MCDialects
    NoRelease <- MCNoRelease
    Replacing <- MCReplacing
    UserNames = {0, 9}
    Disciplined = FALSE
    Faults = {"refuse", "lost", "cancel"}
    MaxCalls = 3
    MaxLog = 2
    MaxMarks = 3
INVARIANTS ReturnedReleases ClosedMeansDone LevelWithinNesting

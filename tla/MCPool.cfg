SPECIFICATION Spec
CONSTANTS
    Groups <- MCGroups
    Names = {"a"}
    NamesOnly = {"sqlite"}
    Ops = {"Query", "Exec", "Value", "Prepare"}
    OpenFails = TRUE
    MaxFailed = 1
    MaxPools = 4
    MaxHandles = 3
    MaxUsed = 2
    MaxTxs = 1
    MaxStmts = 1
INVARIANTS TypeOK NoPoolLeaked CloseIsComplete ClosedOnlyByItsOwner StatementStaysInItsSchema FairShare DryRunSendsNothing AnswersAreTrue
CHECK_DEADLOCK FALSE

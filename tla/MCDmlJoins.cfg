SPECIFICATION Spec
CONSTANTS
    Leaves <- AllLeaves
    Kinds <- AllKinds
    referencesColumn <- Mentions
    Render <- RenderedAs
    WalkExpression <- WalkAll
    CloneBuilder <- Cloned
    Eval <- Evaluated
    Bases <- MCBases
    Shards = {1, 2}
    NoTenant = NoTenant
    NoShard = NoShard
    Null = Null
    Initial <- MCJoined
    MaxCalls = 1
    MaxBuilders = 4
    Records <- MCRecords
    Tuples <- MCTuples
    Assignable <- MCPlain
    Predicates <- MCPredicates
    Joins <- MCJoins
    Targets <- MCTargets
    Batches = {1, 2}
    TenantLists <- MCTenantLists
    Requests <- MCRequests
    Engines = {"mysql", "pgsql", "gaussdb", "sqlite", "dm"}
    DB <- MCDB
INVARIANT PlaceholdersInOrder
CHECK_DEADLOCK FALSE

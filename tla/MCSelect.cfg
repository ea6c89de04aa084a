SPECIFICATION Spec
CONSTANTS
    Leaves <- AllLeaves
    Kinds <- AllKinds
    referencesColumn <- Mentions
    Render <- RenderedAs
    WalkExpression <- WalkAll
    CloneBuilder <- Cloned
    Eval <- Evaluated
    Bases <- MCBases
    Shards = {1, 2}
    NoTenant = NoTenant
    NoShard = NoShard
    Null = Null
    Initial <- MCInitial
    MaxShape = 1
    MaxScope = 1
    MaxBuilders = 6
    Shaped = {1}
    Scoped <- MCScoped
    Engines = {"mysql", "pgsql"}
    Items <- MCItems
    MaxOn = 1
    Predicates <- MCPredicates
    Tables <- MCTables
    TenantLists <- MCTenantLists
    Requests <- MCRequests
    Numbers <- MCNumbers
    DB <- MCDB
INVARIANTS ArgumentsInTextOrder ReadsVisibleRows CountAndExistsAgree ShardOfTheQuery
CHECK_DEADLOCK FALSE

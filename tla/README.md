# TLA+ models and proofs of gooq

gooq is a typed SQL builder for Go with its own database layer: configuration
groups opened into connection pools, transactions with propagation and nested
savepoints, read/write routing, dry run, tenant and shard rewriting, and a query
cache.  This directory holds specifications of its stateful parts, the TLC
configurations that check them on small instances, and TLAPS proofs of the
properties that matter most.

Paths below are relative to the repository; `tx.go:166` is `db/tx.go` line 166.

## 1. The system

| component | state | operations | what is hard |
|---|---|---|---|
| transactions (`db/tx.go`) | `Tx`: `sql`, `depth`, `closed`; the database's savepoints | `runNew`, `Tx.Transaction`, `Commit`, `Rollback`, `rollbackFully`, `SavePoint`, `RollbackTo` | levels change before or after the database answers; savepoint names are reused; panics pass through and are recovered; a lost answer, a cancelled context |
| propagation (`db/tx.go`, `db/db.go`) | the transaction table of each context, pools of bounded size | `TransactionWithOptions`, `WithTx`, `WithoutTx`, `TxFromContext`, `executor` | which transaction a statement runs in after any mix of the seven modes; waiting for one's own connection |
| registry (`db/instance.go`) | `groupConfigs`, `groupInstances`, `defaultGroup`, `groupMu` | `Instance`, `SetConfig`, `RemoveConfig`, `SetDefaultGroup` | goroutines between the two lookups of `Instance`; closing outside the lock |
| configuration file (`db/config_file.go`) | `configLoaded`, `groupLoggerConfigs`, `loggerSQLFormat` | `LoadConfig`, `loadConfigOnce` | test and registration not under one lock; order of file, flag and default group |
| pools, routing, views (`db/db.go`, `db/schema.go`) | masters, slaves, schema, `shared`, scope of each handle | `openGroup`, `writeDB`, `readDB`, `WithRoute`, `Schema`, `Close` | partial opening; weighted choice; who may close; whose transaction a view sees |
| dry run, observation, `Stmt` (`db/runtime.go`, `db/stmt.go`) | `dryRun`, `debug` flags, prepared statements | `SetDryRun`, `observe`, `Prepare` | a flag read twice; statements prepared while it is set |
| executor binding (`dsl/exec.go`) | a builder's executor slot | `bind`, `resolveExecutor` | the transaction is found through the registry's *present* instance |
| query cache (`dsl/cache.go`, `dsl/select_*.go`) | the adapters' entries: one per key, two fields of a hash per page | read through, `Force`, `Remove`/`HDel` by the program | a fill that finishes after a removal; page rows and count from two statements; transactions; dry run |
| SELECT (`dsl/select*.go`, `dsl/soft_delete.go`) | builders that hold one another | the builder calls, `Clone`, `ToSql`, `Count`, `Exists` | order of arguments over nested texts; predicates added to the caller's; rewriting for a count |
| DML (`dsl/dml*.go`) | builders | insert in chunks, batch by key, upsert, joins, `RETURNING` | order of arguments in each dialect; half-done batches; which rows change |
| tenants (`dsl/tenant_*.go`), shards (`gooq_sharding.go`) | tenant stamped in a builder; tenants and shard names of one rendering | stamp, push and pop, refuse, resolve | a stamped builder used again; nested queries; spellings of a column |
| expressions, rendering, dialects, functions | immutable trees; the argument list of one rendering | render | text and arguments growing apart |
| rows, cells, catalog, drivers, generator | none of their own | convert, query the catalog, write files | conversion, I/O |

How they interact: a builder (`dsl`) asks the registry for the group's instance,
the instance for the transaction its context carries, and executes on that or on
a pool.  `TransactionWithOptions` begins transactions on the pool and passes a
child context to the callback.  The registry is filled by the program and by the
first unnamed or unknown `Instance` call through the configuration file.
Everything above the `sql.DB` is called by arbitrary goroutines.

What makes each part correct:

* transactions: the level is the nesting; each call ends its own savepoint; a
  failed call leaves nothing behind unless the database refuses to undo it; the
  connection comes back.
* propagation: a write shares the fate of exactly the calls its context puts it
  in, refused endings included; nobody waits for his own connection unless he asked to leave it.
* registry: a registered instance is open and current, is opened once, and is
  never lost open; a group of the file is never reported missing.
* pools: whatever fails, no pool stays open that nobody can close; a view closes
  only what it opened; a statement runs in the schema of its handle; a replica is
  picked as often as its weight says; dry run sends nothing and makes nothing up.
* cache: nothing of an unfinished transaction is stored; only a call that was under
  way at a removal brings back what was read before it.
* queries: every placeholder takes the value it was written for; a query answers
  from exactly the rows its tenant and soft delete leave visible; a count is the
  number of rows; a table is read from the shard of its own query.
* DML: only rows of the tenants in force change, and none changes its tenant; rows
  are inserted once; a batch does what its records say; nothing but the target changes.

## 2. The modules

| module | what it models |
|---|---|
| `SavepointSession` | external: the log and the savepoints a database keeps of one transaction |
| `Tx` | one `Tx` and the nest of callbacks on it |
| `NestedWork` | abstract: nested units of work, without levels, names or savepoints |
| `TxNested` | `Tx` mapped to `NestedWork` |
| `MCTx` | instances of `Tx` and `TxNested` for TLC |
| `TxProofs` | the proofs about `Tx`: safety, nesting, and that it implements `NestedWork` |
| `Registry` | the registry and the loading of the file, step by step per goroutine |
| `MCRegistry`, `RegistryProofs` | its instances and its proofs |
| `Propagation` | contexts, the seven modes, pools with a limit |
| `MCPropagation`, `PropagationProofs` | its instances and its proofs |
| `Cache` | cached reads step by step per goroutine, with writers, transactions, removal and dry run |
| `MCCache`, `CacheProofs` | its instances and its proofs |
| `Pool` | pools, handles and their views, transactions, statements, dry run |
| `MCPool`, `PoolProofs` | its instance and its proofs: who owns a pool, how often one is picked, where a call goes |
| `Sql` | a rendered text as a tree, and what the driver binds to it |
| `Dialect` | what the dialects can express and the shape of what they write |
| `Query` | rendering of queries: context, expressions, predicates, SELECT, counts |
| `QueryProofs` | proofs about `Query`, `InsertChunks`, `Rows` and `Changes`: rendering gives its context back, a clone changes nothing, each row is in one chunk, what statements do to tenants of rows |
| `Recursion` | the values of the constants through which the definitions of `Sql`, `Query` and `Rows` call themselves |
| `FoldLemmas` | induction along a fold, taken by the proofs with their own step and invariant |
| `Rows` | external: what a database answers to a rendered query |
| `Select` | `SelectBuilder`: the calls on builders and the executions between them |
| `MCSelect` | its instance |
| `InsertChunks` | how the rows of an INSERT are cut into statements |
| `Dml` | rendering of INSERT, UPDATE, DELETE and batches, and the tenant checks |
| `Changes` | external: what a database does with them |
| `DmlExec` | `DMLBuilder`: the calls that build a statement and its execution |
| `MCDml`, `DmlProofs` | its instances and its proofs: only the target changes, rows keep their tenants |

Operators named `...` with a comment that begins "Mutant:" are altered forms of
the definition after them.  No specification uses them; putting one in the place of that
definition must make a property fail, which shows that the property depends on it.

### Tx

| code | model |
|---|---|
| `Tx.sql`, `depth`, `closed`, `dialect` | `sqlTx`, `depth`, `closed`, `dialect` |
| the Go call stack of `runNew` and `Tx.Transaction` | `frames`, `ctl` ("fn": a callback runs, "panic": one is passing) |
| `runNew` to the call of `fn` / `BeginTx` failing | `runNew`, `BeginTxFails` |
| `Tx.Transaction` to the call of `fn` | `Transaction` (a refused SAVEPOINT returns and changes nothing) |
| `fn` returns, `finishTx` | `FnReturns` with `finishTx`, `Commit`, `Rollback` |
| the deferred `recover` | `Unwind`: `Rollback` in an inner call, `rollbackFully` in the outermost |
| a callback that recovers an inner panic, or swallows an inner error | `FnRecovers`; after `FnReturns` the caller simply goes on |
| `Commit`/`Rollback` called by a callback | `ManualEnd`, only when not `Disciplined` |
| `SavePoint`, `RollbackTo`, `Exec` | the same names |

A savepoint name `gooq_sp_k` is the number k; names of callbacks are numbers too,
inside that range in `tx_misuse` and outside it otherwise.  Databases differ in what a second
savepoint of a name does: `Replacing` lists those that replace the first
(MySQL, DM), the others hide it.  `NoRelease` are the dialects whose
`ReleaseSavepoint()` is false (`dialect_dm.go:87`).  Failures: a refused
statement, a COMMIT or ROLLBACK whose answer is lost (database/sql has ended the
transaction, and COMMIT may have taken effect), a context that ends at any time.

`Disciplined` is the contract a reader of `tx.go` would expect of callbacks:
leave ending the call to gooq, keep away from `gooq_sp_*`, roll back only to
savepoints of one's own call.  Nesting and atomicity need it; giving the
connection back does not, and is checked and proved without it.

### Registry

Each call is a program of steps (`pc`) that ends where another goroutine can come
in: the first lookup, `configLoaded`, reading the file, `Contains` for each
group, the locked part of `SetConfig`, the `Close` after it, the logger, the
second lookup with the opening, and the publication.  `groupMu` is a variable
only `Open` keeps across steps, since openings ping servers; the other locked
sections are one step.  A registration is a number, new for every `SetConfig`; an
instance remembers the registration it was opened from (`dbs`).  The file's
text is reduced to its groups, default group and logger, and to "refused".

### Propagation

A context refers to a table; `tables` is the heap of all tables, so that a table
written in place is seen by everyone who shares it.  A call of
`TransactionWithOptions` is a frame with the context its callback was given.
Asking for a connection (`RunNew`, a write outside a transaction) is separate
from getting one (`Begin`, `WriteAlone`), which needs a free connection of the
pool.  As a ghost each context carries, per pool, the calls whose outcome a
write made with it shares *by the documentation of the modes*
(`tx.go:15-28`); the properties compare that with what becomes durable through
the tables.  What nested calls do to one transaction is taken from `NestedWork`, with its
`Stuck`: RELEASE or ROLLBACK TO SAVEPOINT can be refused in a transaction that lives on
(`tx.go:170-171`, `184-185`); the call then returns an error and its writes stay in the unit around it.
A COMMIT can take effect and be answered by an error.  Either gives the call the outcome
"kept" (it failed, and the database has its writes), which only those two steps give;
`WorkFollowsUnits` says that a write is durable exactly when every call it belongs to is "ok" or
"kept".  So the writes of a callback that failed can become durable, and only this way.

### Cache

| code | model |
|---|---|
| `cacheKey`, `compositeCacheKey`, `cacheFieldNames` | `cacheKey`: the slots of a form; the statement and its arguments are one |
| the test of `executorInTx` at the head of every cached read | `Begin` |
| `adapter.Get`, `HGetAll` and the decoding | `Get` |
| `run()`, `rowsValue`, `countValue` | `Query`, with what it reads in `Results` |
| `isEmptyResult`, `rows == nil`, `count == 0` and `Force` | `Storable` |
| `adapter.Set`, `HSet` | `Set` |
| the order count, then rows, of a page and its early end at zero | `Missing`, `NextSlot`, `Done`, `Proceed` |
| what the program does: writes, transactions, `Remove`, `HDel` | `Write`, `BeginTx`, `WriteTx`, `EndTx`, `Remove` |

The table is the sequence of its committed versions; a result carries the version
it was read from, so stale and uncommitted results can be told apart.
A transaction is assumed to read the version it began with (snapshot isolation)
until it writes.  `floor` and `overlap` are histories: the version at the last
removal of a slot, and whether somebody was about to fill it then.

### Pool

| code | model |
|---|---|
| `sql.DB` | a pool: of which scope and schema, and whether open |
| `DB` | a handle: route, schema, masters, slaves, `shared`, `scope`, and the number of its dry run switch, which views share |
| `openGroup`, `openNode` per node, its failures, the return | `openGroup`, `openNode`, `openNodeFails`, `opened` |
| `Schema`, with pools of its own or without | `Schema`, which begins such a construction, or a handle that shares |
| `WithRoute`, `Master`, `Slave` | `WithRoute` |
| `pick` | `Targets`, `picked`, `pick`: the numbers `rand.IntN` can give and the node each selects |
| a call: its own test of dry run, `observe`'s, and what it sends | `test`, `observe`, `send`; `SetDryRun` may come between |
| `Prepare`, `Stmt` | `DBCall`, `TxCall`, `StmtCall`, `Prepared` |

The switch is a variable of its own that any goroutine may turn at any step; a call
remembers, as a ghost, which values it had.  Other handles may be closed while a call is
under way, in which case the call is answered by an error.

### Queries

Builders hold builders: as derived tables, CTEs, set operands and inside
expressions.  They live in a heap, so a builder that is held twice, cloned, or stamped
with a tenant by an execution is one object, as in the code.  A rendering takes
the render context and returns it with a tree; the tree's leaves are the
placeholders, the columns and the tables of the text in their order.

| code | model |
|---|---|
| `RenderContext`: arguments, error, tenant stack, shard value and names | the record of `NewRenderContext`; `AddArg`, `Fail`, `PushTenant`, `SwapQueryShard` ... |
| an `Expression` | `[k, a, es]` with constructors `Cmp`, `In`, `Exists`, `NOT`, `Fn`, `Raw`, `Col` ... |
| `SelectBuilder.renderSelect` and what it calls | `renderSelect`, `renderWhere`, `renderJoin`, `renderTableName`, `softDeleteSQL`, `tenantPredicate` ... |
| `ToSql`, `ValidateDialect`, `countSQL`, `existsSQL` | the same names |
| the methods of `SelectBuilder` | the actions of `Select`; `Clone` copies what the code copies and shares what it shares |
| `bind` and `stampTenant` | `bind`: the request's tenant is written into the builder and stays there |

`Rows` evaluates such a tree in two ways: as the text says, and as a *view*, in
which each table holds only what its reader may see and the library's own predicates count
for nothing.  `ReadsVisibleRows` compares the two.

### DML

`InsertChunks` groups the rows of an INSERT by their columns and cuts the groups by `Batch`.
`Dml` renders the statements and refuses tenant columns; `DmlExec` has the builder's
methods and runs the statements of one execution one after the other (`Done`), any of which may be
refused (`Failed`).  `Changes` applies each to the tables twice, as its
text says and as the view says; the second is a ghost, `run.ideal`.

## 3. The runs

| run | cfg | checks | instance | states |
|---|---|---|---|---|
| `tx` | `MCTx.cfg` | `TypeOK`, `LevelIsNesting`, `SavepointOfCall`, `NoFailedWork`, `ImplementsNestedWork` | MySQL, PostgreSQL and DM kinds, all faults | 289 k |
| `tx_misuse` | `MCTxMisuse.cfg` | `ReturnedReleases`, `ClosedMeansDone`, `LevelWithinNesting` | undisciplined callbacks | 322 k |
| `registry` | `MCRegistry.cfg` | `TypeOK`, `RegisteredIsCurrent`, `OpenedOnce`, `NoPoolLost`, `FileIsLoadedFirst`, `CallsReturn` | all calls and faults | 808 k |
| `registry_once` | `MCRegistryOnce.cfg` | violation of `HandedOutStaysOpen` | | |
| `propagation` | `MCPropagation.cfg` | `WorkFollowsUnits`, `WaitsOnlyWhenSuspended`, `ReturnedHoldsNothing` | seven modes, two pools, four calls three deep, all faults | 963 k |
| `propagation_pool` | `MCPropagationPool.cfg` | `CallsReturn` | two goroutines, one pool of one connection, refused statements | 300 k |
| `cache` | `MCCache.cfg` | `TypeOK`, `InTxSeesItself`, `CachedIsCommitted`, `StaleOnlyByOverlap` | pages, failing calls, dry run switched at any time | 1.6 M |
| `cache_unread` | `MCCacheUnread.cfg` | violation of `UnreadNeedsForce` | | |
| `pool` | `MCPool.cfg` | `TypeOK`, `NoPoolLeaked`, `CloseIsComplete`, `ClosedOnlyByItsOwner`, `StatementStaysInItsSchema`, `FairShare`, `DryRunSendsNothing`, `AnswersAreTrue` | four groups, failures, views of views | 643 k |
| `select` | `MCSelect.cfg` | `ArgumentsInTextOrder`, `ReadsVisibleRows`, `CountAndExistsAgree`, `ShardOfTheQuery` | five starting shapes, MySQL and PostgreSQL | 18 k |
| `dml` | `MCDml.cfg` | `ArgumentsInTextOrder`, `WritesOwnRows`, `TenantsStay`, `InsertedOnce`, `BatchFollowsRecords`, `OnlyTheTargetChanges` | ten starting statements, five dialects | 306 k |
| `dml_joins` | `MCDmlJoins.cfg` | violation of `PlaceholdersInOrder` | | |

`tx` runs with every fault, so that refused statements are part of the refinement: `NestedWork`
lets a refusal leave a whole unit's work with its caller (`Stuck`), never a part of it.

Bounds.  *Tx*: the calls in all, the writes and savepoints standing.  Names repeat as soon as two calls
follow one another on a level, and a third call is enough to be inside or after
either of them, so every relation of name, level and stack occurs.  *Registry*:
the number of calls in all; a race needs two goroutines with a third change
between their steps, which the bound allows.  *Propagation*: four calls
three deep: a transaction, one that leaves or joins it, one inside that, and one
that comes later with an outer context; two pools so that a child of one pool
must keep the transaction of the other.  The two pools are interchangeable
(`SYMMETRY`), and the run checks no liveness.  One write is enough: writes do not
influence one another, and it can be made in every place.  *Cache*: two
goroutines, three calls or transactions in all and two versions: a call that
fills while another goroutine writes, removes and calls again.  The run uses
pages, the form with the most steps; the forms with one key are steps of the same actions, run in
`cache_unread` and included in the proofs, which hold for every set of `Kinds`.
*Pool*: four pools are a master and a replica with a schema view that has pools of its own, or
two groups beside one another, or a group of three and one of a construction that fails;
three handles are a DB, a view and a view of the view; transactions and statements begin
while there are at most two.  The two replicas of the SQLite group have the weights 0 and 2.  *Select*: a case needs
few calls but many shapes, so the run begins with queries that have a join, a derived
table, a CTE or shards, makes any one call that shapes the statement and one that says whose rows
it reads, and executes for a request of one tenant or of none; the query inside carries the
stamp of an earlier execution for another tenant.  Shaping calls are made on the outer
builder, scoping calls on either; with the starting queries every clause meets every predicate.  *DML*: two calls on a
statement that is already complete, in all dialects, on tables that have a tenant and soft
delete, one of them, neither, or shards; the rows are chosen so that a
lost predicate, a lost parenthesis or a wrong table changes another row.

`Tx`, `Registry` and `Propagation` end in a `Terminated` action that is enabled
only when everything has returned, so there a deadlock is any other state without a step.
In `Cache` the program may remove a key at any time and nobody waits, so there it shows
nothing.  `pool`, `select`, `dml` and `dml_joins` set `CHECK_DEADLOCK FALSE`: a program may stop
making calls, and in the model it must when its bounds are used up.

Fairness.  `Registry`: weak fairness of each goroutine inside a call
(`Step(p)`): goroutines are scheduled, drivers answer, and who has the lock gives
it up after the opening.  Calls themselves are not fair: a program need not make
any.  `Propagation`: weak fairness of a goroutine's steps: callbacks return, and
database/sql serves waiting requests in order, so a connection that stays free is
handed on.

## 4. The proofs

All theorems hold for every value of the constants under `TxAssumption`,
`RegistryAssumption`, `CacheAssumption`, `PoolAssumption` and `PropagationAssumption`, which only say what kind of thing each constant is, that
exceptional dialects are dialects, that the file does not name a group twice
(`config_file.go:155-161` refuses that), and that `Free` is no goroutine.
Those of `QueryProofs` and `DmlProofs` name what they assume themselves, as told below.

*TxProofs* (`SafeInv`).  Lemmas first: what each statement does to a session.  `ReturnedReleases` alone is not inductive: the
outermost `finishTx` ends the transaction only if it finds level 0.
`LevelWithinNesting` says the level is below the number of calls under way,
whatever callbacks do, so with one call left it is 0; `Phase` ties the stack to
the control state.  One step per action; the actions that end a call go
through lemmas about `Commit` and `Rollback`.

*TxProofs*, nesting (`NestInv`).  That a call ends its own savepoint needs to know
where the savepoints of the stack stand relative to one another, because a name
means the *latest* savepoint that bears it.  `MarksByCall` orders them like the
stack, `LogByCall` cuts the log by the bases of the calls, `StackOrder` numbers
the calls in order, and `NothingYet` says that nothing is durable while calls
run.  What each statement does to the latest savepoint of each name, in both kinds of
databases, comes from the lemmas of `TxProofs`.

*TxProofs*, refinement (`NestedUnits`: with disciplined callbacks `Spec => ImplementsNestedWork`).  The units of
`NestedWork` are the parts of the log between the bases of the calls (`Cuts`).  Lemmas say
what becomes of the parts when the stack or the log changes: a write extends the last one
(`CutsWork`), ROLLBACK TO a savepoint of the call shortens it (`CutsUndo`), a call pushed
has an empty one (`CutsEnter`), and when the last call goes its part joins the one before
(`CutsMerge`) or, if the log went back to where the call began, is gone (`CutsDiscard`).
That the log goes back exactly there is `SavepointOfCall`; which of the two an ending is,
and that nothing else happens unless the database refused, is `InnerEndLog`.  One more invariant is needed
(`Beginning`: the outermost call begins with an empty log), so that its part is the whole log when it commits.

*RegistryProofs* (`RegistryInv`).  The four invariants are proved together with
what each local variable of a call means at each step: who publishes holds the
lock and the only open instance of a current registration (`Publishing`), who
closes holds one whose registration is over (`Closing`), registrations are used
once (`Registrations`).  `FileIsLoadedFirst` has an invariant of its own (`FileInv`): each
load has seen to the groups before the one it is at (`SeenTo`), a group that is known, that is,
registered or removed, stays so (`KnownGrows`), and `configLoaded` tells that all groups of the file are.

*CacheProofs* (`CacheInv`).  The properties speak of stored entries; what makes
them inductive is the result a goroutine holds between its statement and its
store.  `Fillings` says of that result what the properties say of entries (a
removal sets `overlap` for exactly the slots being filled), and `Calling` that a
goroutine at a lookup or a store is in no transaction, because it tested that at
the beginning and only it begins transactions of its own.  `LocalStep` and
`WorldStep` split the actions into those that change one call and those that
change the table around the calls.

*PoolProofs* (`IInv`, then `Ownership`).  Who may close a pool is decided by flags that
views copy from one another, so the properties of ownership are not inductive.  `HandlesOk` says that every pool of
a handle is of the handle's scope and schema and that a handle is `shared` exactly when
the program need not close it; `ScopeIsPools` that handles of one scope have the same
pools; `OpeningOk` that a construction under way has a scope above those of
all handles, so what it opened is nobody else's and its failure may close all of it.
With these `NoPoolLeaked`, `CloseIsComplete` and `ClosedOnlyByItsOwner` are
inductive together (`OwnershipStep`).  Actions that make no handle and open no pool are dealt with at once
(`Quiet`).  `PickIsFair` (`FairShare`) needs no invariant but the type of a node, and sums of any
number of weights instead.  `UpTo` is a fold, that is, some function that satisfies a recursive
equation.  Counting tickets, as many to a node as it weighs, gives one that does (`TicketsFold`), and two
that do cannot differ, or they would on a least set (`OneFold`); so `UpTo` counts tickets
(`UpToIsTickets`), grows by the weight of each node, and the numbers that pick a node are an interval (`PickedBetween`).

*PoolProofs*, the calls (`CInv`).  That a statement stays in its schema needs to know where
every transaction and every prepared statement lies (`TxsOk`, `StmtsOk`) and which of them a
call under way is bound to (`CallOk`); a transaction that a statement joins may have been
begun from another view, and lies on a pool of the statement's handle because views of one
scope have the same pools (`JoinedTx`, from `ScopeIsPools`).  `SwitchOk` says which values of the dry-run switch
the call has met at each of its steps: its present one always, and "off" once a
test has let the call pass.  Steps that only add handles leave all this alone (`GrownKeeps`).

*PropagationProofs* (`PInv`).  `WorkFollowsUnits` compares two histories, and what lies
between them is the stack of contexts, the heap of tables and the units of the
transactions.  A frame *owns* the transaction or savepoint its return ends.
`ContextOk` says that a context with a transaction carries as its chain the calls of that
transaction's owners, in order: every prefix of the chain belongs to an owner below, and
every owner below has a prefix.  `OwnerOk` says that an owner sees what it owns and is
the last of its own chain; `WrittenOk` that a write which names the call of a frame still under way was made
inside that call, its chain cut where the owner's ends.  `UnitsOk` is the
heart: the i-th unit of an active transaction is exactly `Work(x, i)`, the writes of its
i-th owner's call x whose later calls are all "ok" or "kept".  Then a commit makes
durable what `Work` says of the outermost call (`RootWork`), the release of a savepoint, like the refusal of
its ending, adds the work of the last call to that of the one around it (`MergedWork`), a rollback drops it,
and a write joins the last unit (`WorkAppend`).  No transaction is active without an owner, so
`ReturnedHoldsNothing` follows too, and `WaitsOk` gives `WaitsOnlyWhenSuspended`.
The steps share lemmas for what a new frame (`PushKeeps`), the end of one (`PopKeeps`) and
a step without either (`QuietStep`, `WriteKeeps`) leave alone.  `Shared` shows that calls which share a write
are of one goroutine and one transaction.

*QueryProofs*, *DmlProofs* and recursion.  The renderers recurse over trees, and tlapm
does without its SMT solver in a module with a recursive operator.  So `Sql`, `Query` and `Rows` call themselves through
constants (`Render`, `CloneBuilder`, `Leaves`, `Eval` ...).  Every cfg gives these
the definitions themselves, by way of `Recursion`.  A theorem assumes the
equation of the constants it needs: `RenderRecurses` that Render is RenderExpression on the
expressions in question, `RenderIsRecursion` the same over every heap on which rendering
ends, `CloneIsRecursion` that CloneBuilder is CloneOf.  An expression *ends* over a heap when it has a rank, a number above the ranks
of its parts and of those of the query it stands for (`Ranked`, `HeapOver`); the code, too, renders only such
builders to the end.  The induction is on that rank.

`RenderingKeeps`: rendering such an expression gives the context back as it was.
`Keeps` says what that means: the same main table, shard value and tenants, the first error, and no
name in the cache of shard names that is not the one the context's shard gives (`NamesRight`).
There is a lemma for each renderer, and the folds over lists go through `FoldLemmas`.
The heart is `renderSelect`, which changes all of this for the query inside: `QueryContext` is what it begins with
and `RestoredKeeps` what it ends with.

`ClonesExtend`: cloning a query changes no builder that is there, and the clone
ends over the same expressions.  A clone has the rank of what it was cloned from (`HasClone`), so the rest may go on
being cloned one after another (`CloneOneMore`).

*QueryProofs*, chunks.  A *place* is a chunk and a position in it; `SameRows` says that the places of two lists
of chunks correspond one to one, with the same rows.  It is reflexive, symmetric and transitive, and kept when
lists are joined, so it carries the rows over one step of the fold at a time (`AddRowKeeps`,
`GroupsKeepRows`: a group has one set of columns and two groups have different ones), over the pieces
of one group (`CutKeepsRows`, after the bounds of a piece, `PieceBounds`) and over the joining of all pieces
(`CutsKeepRows`).  Hence `EachRowInOneChunk`, a bijection between rows and places, for any
rows and any `Batch`.
`EachChunkIsOneInsert` says that grouping a chunk gives that chunk alone (`OneGroup`), so
`renderInsert` does not refuse it for mixed columns, and that it has at most `Batch` rows.  The order of rows within
a chunk is not part of either theorem.  That the chunks are then executed, and what is in the table when one of them
fails, is `InsertedOnce`, which TLC checks.

*DmlProofs*, the target (`TargetAlone`: `Spec => []OnlyTheTargetChanges`).  The property compares tables with those before the execution and
is not inductive: what the next statement changes depends on its text.  `OwnTable` adds that every builder of the heap is
made of expressions that end (`DmlHeap`), and that each statement still to be executed
names the table of its builder, in the shard of its own ShardBy (`RunOver`).  A statement begins with a context in which the table has
that name (`BegunContext`, whatever was rendered for other builders before); every part leaves it that name, by
`RenderingKeeps` (`DmlPartDone`, `DmlPartsDone`); every dialect's shape of INSERT, UPDATE and DELETE keeps the
target where the database looks for it, after its joins, its soft delete and its RETURNING are put in
(`StatementsName`, with lemmas for each kind of statement, the chunks and the records of a batch); and what the
database does with a statement is done to the table it names (`ApplyOnlyAt`).
The calls that build a statement, and clones, keep `DmlHeap` (`BuildKeeps`).  The theorem assumes that the
application's inputs are made of some set of expressions that end (`InputsOver`).  The inputs of
`MCDml` are: take the values, conditions and joins in it, with their parts, and as rank the depth,
above which is the query they stand for.

*DmlProofs*, the tenants (`TenantsAlone`: `Spec => []TenantsStay`).  Like the property before it this one compares
tables with those before the execution, and needs to know what the statements to come are.  Three parts:

* What the database does (`QueryProofs`).  `Guards` says of a WHERE that one of its parts is the predicate of the
  tenants and none is bare text (which could end in an OR); a row for which such a WHERE is true is of one of them, whatever the
  other parts are (`GuardHolds`; AND and OR in a text are a fold over its parts, `AndTextFalse`).  A row of a join begins
  with a row of the target (`MatchingLeads`), so what a
  `Changing` statement hits are own rows (`HitsAreOwn`), and its assignments leave the tenant alone or, when there is only one, give
  it that one (`SetsKeep`, `AssignedKeeps`): the table only shrinks (`ChangeShrinks`).  An `Inserting` statement adds rows of the one tenant, and
  its conflict clause changes no tenant (`InsertGrows`).
* What is rendered.  A list that is rendered one element after another is followed by `Traced`: each node is that of its element, made in a
  context of the same tenants.  So the conditions, joins, assignments, keys and rows are what they should be (`RenderedWhere`,
  `RenderedJoins`, `RenderedSets`, `RenderedKeys`, `RenderedRows`), and so are the statements of every dialect, with the checks that
  refuse the rest (`WritePasses`, `RowsPass`, `SetsPass`): `UpdateSafe`, `DeleteSafe`, `InsertSafe`, `BatchSafe`, then
  `StatementsSafe` for chunks and batches.
* The invariant `TenantRun`: heaps are made of expressions that end, the execution is for the tenant of its request, the tables have
  grown or shrunk in this way so far, and each statement to come is safe (`Tenanted`).  The property follows (`TenantRunStays`), and each
  step keeps the invariant (`StartTenants`, `DoneTenants`, `FailedTenants`).

The theorem assumes, besides the recursions and inputs of `TargetAlone` (lists of tenants are sequences), that Eval is EvalNode on
values, columns and conditions (`EvalIsRecursion`; nothing is assumed of other nodes), that a query answers a list (`AnswersAreLists`), and that
the rows of the tables have a tenant column (`TidTables`).  Eval of `MCDml` and its tables are such.  Rows of INSERT ... SELECT
are outside the property, as they are outside the code's checks.

Model-checked only.  Liveness (`CallsReturn` of `registry` and of `propagation_pool`): fairness and ENABLED are
beyond the prover.  Of queries and DML, what depends on the evaluation of a text by the database (`ReadsVisibleRows`,
`CountAndExistsAgree`, `WritesOwnRows`, `InsertedOnce`, `BatchFollowsRecords`), and the text itself
(`ArgumentsInTextOrder`, `ShardOfTheQuery`).  `Select` keeps two recursive
operators for the builders a builder holds, which a module with theorems may not reach.
`EmptyIsForced` in `CacheProofs` states that no empty result is stored without Force; no run repeats it.

## 5. Not modelled

* `runtime.Goexit` in a callback: neither branch of the deferred functions runs.
* A `Tx` used by several goroutines: database/sql serialises statements, but
  `depth` is not protected and the code does not claim it.
* `BeginTx` used without `TransactionWithOptions`: the caller then owns `Commit`
  and `Rollback`; `ManualEnd` covers what they do.
* The parsing and validation of the configuration file, except that it may be
  refused before or after `loggerSQLFormat` is set.
* A cached read whose builder is shared by goroutines, and replacing the adapters
  or the codec between its steps.
* Of a rendered text: keywords, quoting, numbers and the names of functions.  Operators
  that render alike are one (`Cmp` stands for `Eq` to `NotLikeExpr`).  The order of `GroupConcat` and
  the groups of `PercentileCont` are left out.
* Of the evaluation, not of the rendering: RIGHT and FULL joins, HAVING, grouping extensions,
  window functions, and set operands with pages of their own (`Evaluable` in `Select`);
  their arguments are still checked.
* `GetAll` into structs, scanning and conversions; `Page`'s two statements are in `Cache`.
* Concurrent use of a builder, which README.md:273 rules out.
* The settings and limits of a pool in `Pool`; waiting for a connection is in `Propagation`.
* The registry and the scopes of transactions in one module (section 6, after the list).
* Every part the table of section 1 lists and section 2 does not; PROJECT.json gives the reason
  for each.

## 6. Where the code and its documentation differ

1. `registry_once`: two first `Instance` calls can both load the file, and the
   second registers a group again that the first has opened
   (`config_file.go:170-191`), which closes the instance already returned,
   although neither SetConfig nor RemoveConfig was called (`instance.go:96`).
2. `cache_unread`: in a dry run `DB.Value` returns nil and leaves its destination
   alone (`value.go:92-94`); `cellWithCache` looks at the destination to see
   whether anything was read (`select_cell.go:128`), so what it held before is
   stored, without `Force`, and served as read once dry run is off.  Empty results
   are documented not to be cached (`cache.go:113`), and a dry run not to read
   (`runtime.go:45`).
3. `dml_joins`: an UPDATE with two joins in SQLite or DM writes all tables and then all ON
   conditions (`gooq_dialect.go:358-378`), while its arguments are collected join by join
   (`dml_render.go:478-489`), so they do not follow the question marks, as
   `gooq_dialect.go:152` says they do.  `ArgumentsInTextOrder` states everything else, but for the next point.

Seen while modelling, without a run:

* DM's `RenderDateAdd` and `RenderDateDiff` write their arguments in reverse
  (`dialect_dm.go:197`, `202`) after they were collected: with a value in each, the values change
  places.  Both properties named `ArgumentsInTextOrder` leave such functions out, by name.
* `Instance()` takes the default group before the first load of the file
  (`instance.go:98`), so the first unnamed call asks for `default` and not for the file's
  `defaultGroup` (`README.md:620`).
* A group can be opened after LoadConfig has registered it and before its logger is
  recorded (`config_file.go:191-196`); it keeps the default logger, against `config_file.go:103`.
* `ValidateDialect` does not look into derived tables, CTEs or set operands
  (`select_render.go:64-78`), so a grouping the dialect lacks is refused only in the outer
  query (`README.md:349`); `InsertFrom` does not call it.
* `WithRoute` with the handle's own route, and `Schema` with its own name, return
  the handle itself, so closing that "view" closes the pools (`db.go:281`).  `Slave().BeginTx`
  begins on a replica; `db.go:85` speaks of the master.
* In a dry run `Tx.Query` returns nil rows and no error; `runtime.go:45` says Query returns an error.
  A switch turned inside a call can give `sql.ErrNoRows`, a wrong width or nil rows for a statement
  that was not sent, and a Stmt answers as dry run stood when it was prepared.  The code has no defence against
  either, so no property is named for these two hazards (`stmt.go:69`, `db.go:351`): `AnswersAreTrue` speaks of calls
  during which the switch is not turned, `DryRunSendsNothing` of calls during which dry run was on throughout.
* A batch UPDATE of a table with a tenant and an alias renders the tenant predicate with
  the alias, which the statement does not name (`dml_render.go:314-399`); the database refuses it.
* Two `ValuesOf` with one record each on an UPDATE become one SET (`dml.go:127-130`), and a chunk
  whose rendering fails leaves the chunks before it written (`dml_exec.go:182-185`).
* Batch delete by key (`README.md:74`) does not exist: `ValuesOf` refuses a Delete.
* After SetConfig during a transaction the new instance has another scope, so a
  statement built in the callback runs outside it (`exec.go:59`).

`IsClosed` is documented to tell whether Commit or Rollback has ended the
transaction (`tx.go:214`).  When the driver answers either with an error the
sql.Tx is over and `closed` is not set (`tx.go:173-177`), so `TxFromContext` goes
on handing it out; `tx_misuse` checks the direction that holds, `ClosedMeansDone`.

## 7. Plan

Done: `Tx` with its refinement and proofs, `Propagation`, `Registry`, `Cache` and `Pool` with
proofs, queries and DML checked, with proofs about rendering, cloning, the cutting of an INSERT and the target of
a statement.

1. The registry's instances as the scopes of `Propagation`, for a group registered
   again during a transaction.
2. The PostgreSQL array parser as a function against a reference definition.

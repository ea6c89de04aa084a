---------------------------------- MODULE Pool ----------------------------------
(***************************************************************************)
(* The connection pools of gooq and the handles on them: Open and its      *)
(* groups, route and schema views, Close, the choice of a pool, dry run,   *)
(* and statements, prepared or not (db/db.go, db/schema.go, db/stmt.go,    *)
(* db/value.go, db/runtime.go:37-83).                                      *)
(*                                                                         *)
(* One goroutine opens, closes and executes; others turn dry run on and    *)
(* off at any time, and a pool may be closed while a statement is on its   *)
(* way.  A constructor and a statement therefore take several steps:       *)
(* `opening' is the constructor under way, `call' the statement that runs  *)
(* or ran last.  A pool is a sql.DB, which is external: it answers until   *)
(* it is closed, a transaction that has its connection until it ends.      *)
(***************************************************************************)
EXTENDS Integers, Sequences, FiniteSets, FiniteSetsExt

CONSTANTS
    Groups,      \* the configurations a program opens: sequences of nodes
    Names,       \* the names a program gives to Schema
    NamesOnly,   \* the drivers whose SchemaSQL is empty (sqlite.go:117)
    Ops,         \* the calls that the program makes
    OpenFails,   \* whether openNode and reopenNode may fail
    MaxFailed,   \* bound: constructors that open a pool and fail
    MaxPools,    \* bound: pools opened in all
    MaxHandles,  \* bound: handles made
    MaxUsed,     \* bound: handles made when a statement or a transaction begins
    MaxTxs,      \* bound: transactions begun
    MaxStmts     \* bound: statements prepared

Drivers == {"pgsql", "mysql", "sqlite"}
Config  == [driver : Drivers, role : {"master", "slave"}, weight : Int, dryRun : BOOLEAN]
Routes  == {"auto", "master", "slave"}

ASSUME PoolAssumption ==
    /\ \A g \in Groups : g \in Seq(Config) /\ g # <<>>
    /\ NamesOnly \subseteq Drivers
    /\ "" \notin Names
    /\ OpenFails \in BOOLEAN
    /\ MaxFailed \in Nat /\ MaxPools \in Nat /\ MaxHandles \in Nat 
    /\ MaxUsed \in Nat /\ MaxTxs \in Nat /\ MaxStmts \in Nat

VARIABLES
    pools,    \* every pool opened: of which scope, with which schema, and whether open
    handles,  \* every DB the program was given
    dryRun,   \* the switches; a handle refers to one, which its views share
    txs,      \* every Tx begun: from which handle, on which pool, and whether open
    stmts,    \* every Stmt: its handle, and its pool or its Tx, if it has a sql.Stmt
    opening,  \* the constructor under way, if any: the nodes to open, how many are
              \* open, and the DB it makes
    call,     \* the statement that runs or ran last, and its answer
    closed    \* history: the handles that Close was called on

vars == <<pools, handles, dryRun, txs, stmts, opening, call, closed>>

None == 0

Pool   == [scope : Nat, schema : Names \cup {""}, open : BOOLEAN]
Node   == [pool : Nat, weight : Nat \ {0}]
Handle == [scope : Nat, masters : Seq(Node), slaves : Seq(Node), route : Routes,
           schema : Names \cup {""}, shared : BOOLEAN, driver : Drivers, switch : Nat]
Tx     == [db : Nat, pool : Nat, open : BOOLEAN]
Stmt   == [db : Nat, pool : Nat, tx : Nat]
Opening == [todo : Seq(Config), at : Nat, made : Handle]

Call    == [op : {"none", "Query", "GetAll", "Value", "ValueExact", "Column", "Exec",
                  "Prepare", "PrepareMaster", "Tables"},
            via : {"db", "tx", "stmt"}, db : Nat, tx : Nat, stmt : Nat,
            at : {"none", "test", "observe", "send", "done"}, pool : Nat,
            answer : {"none", "answered", "zero", "error", "no rows object", "ErrNoRows",
                      "wrong width"},
            on : BOOLEAN, off : BOOLEAN]

PoolsOf(nodes) == {nodes[i].pool : i \in DOMAIN nodes}
Owned(d)       == PoolsOf(d.masters) \cup PoolsOf(d.slaves)
Building       == opening # <<>>
SchemaSQL(d, name) == IF d.driver \in NamesOnly THEN "" ELSE name

NoCall == [op |-> "none", via |-> "db", db |-> None, tx |-> None, stmt |-> None,
           at |-> "none", pool |-> None, answer |-> "none", on |-> FALSE, off |-> FALSE]

Init ==
    /\ pools = <<>> /\ handles = <<>> /\ dryRun = <<>>
    /\ txs = <<>> /\ stmts = <<>>
    /\ opening = <<>> /\ call = NoCall /\ closed = {}
-----------------------------------------------------------------------------
(* Opening and closing.                                                     *)

ClosePools(ps) == [p \in DOMAIN pools |-> [pools[p] EXCEPT !.open = @ /\ p \notin ps]]

Idle   == ~Building /\ call = NoCall
MayUse == Idle /\ Len(handles) <= MaxUsed

Failed == {pools[p].scope : p \in DOMAIN pools} \ {handles[i].scope : i \in DOMAIN handles}
MayOpen(n) == Cardinality(Failed) < MaxFailed /\ Len(pools) + n <= MaxPools

(* openGroup starts, with a scope of its own: the number of its first pool. *)
openGroup(configs) ==
    /\ Idle /\ Len(handles) < MaxHandles
    /\ MayOpen(Len(configs))
    /\ opening' = << [todo |-> configs, at |-> 0,
                      made |-> [scope |-> Len(pools) + 1, masters |-> <<>>, slaves |-> <<>>,
                                route |-> "auto", schema |-> "", shared |-> FALSE,
                                driver |-> configs[1].driver, switch |-> Len(dryRun) + 1]] >>
    /\ UNCHANGED <<pools, handles, dryRun, txs, stmts, call, closed>>

(* Mutant: the views keep the scope, so they join the transactions of the   *)
(* handle they are made from.                                               *)
schemaViewKeepsScope(d, name) ==
    [d EXCEPT !.schema = name, !.shared = FALSE, !.masters = <<>>, !.slaves = <<>>]

(* The view that Schema makes when the driver has a statement for it: its   *)
(* pools are its own.                                                       *)
schemaView(d, name) ==
    [d EXCEPT !.schema = name, !.shared = FALSE, !.scope = Len(pools) + 1,
              !.masters = <<>>, !.slaves = <<>>]

(* Schema, for a name that the handle does not already have (it returns the *)
(* handle itself otherwise).                                                *)
Schema(i, name) ==
    LET d        == handles[i]
        asConfig(n, role) == [driver |-> d.driver, role |-> role,
                              weight |-> n.weight, dryRun |-> FALSE]
        todo     == [k \in DOMAIN d.masters |-> asConfig(d.masters[k], "master")]
                    \o [k \in DOMAIN d.slaves |-> asConfig(d.slaves[k], "slave")]
    IN
    /\ Idle /\ Len(handles) < MaxHandles
    /\ name # d.schema
    /\ IF SchemaSQL(d, name) = ""
       THEN /\ handles' = Append(handles, [d EXCEPT !.schema = name, !.shared = TRUE])
            /\ UNCHANGED opening
       ELSE /\ MayOpen(Len(todo))
            /\ opening' = << [todo |-> todo, at |-> 0, made |-> schemaView(d, name)] >>
            /\ UNCHANGED handles
    /\ UNCHANGED <<pools, dryRun, txs, stmts, call, closed>>

(* Mutant: a weight of zero stays zero. *)
weightAsGiven(cfg) == cfg.weight

(* A weight that is not positive counts as 1. *)
weightOf(cfg) == IF cfg.weight <= 0 THEN 1 ELSE cfg.weight

withNode(d, role, node) ==
    IF role = "slave" THEN [d EXCEPT !.slaves = Append(@, node)]
    ELSE [d EXCEPT !.masters = Append(@, node)]

(* openNode, or reopenNode with the statement of the schema: the next node  *)
(* opens.  A group of two dialects is refused, and what is open is closed.  *)
openNode ==
    /\ Building /\ opening[1].at < Len(opening[1].todo)
    /\ LET o    == opening[1]
           cfg  == o.todo[o.at + 1]
           node == [pool |-> Len(pools) + 1, weight |-> weightOf(cfg)]
           pool == [scope |-> o.made.scope, schema |-> SchemaSQL(o.made, o.made.schema),
                    open |-> TRUE]
       IN IF cfg.driver # o.made.driver
          THEN /\ pools' = Append(ClosePools(Owned(o.made)), [pool EXCEPT !.open = FALSE])
               /\ opening' = <<>>
          ELSE /\ pools' = Append(pools, pool)
               /\ opening' = << [o EXCEPT !.at = @ + 1, !.made = withNode(@, cfg.role, node)] >>
    /\ UNCHANGED <<handles, dryRun, txs, stmts, call, closed>>

(* Mutant: what was opened stays open. *)
openNodeFailsLeaves ==
    /\ OpenFails /\ Building /\ opening[1].at < Len(opening[1].todo)
    /\ opening' = <<>>
    /\ UNCHANGED <<pools, handles, dryRun, txs, stmts, call, closed>>

(* The next node does not open: the DB under way is closed. *)
openNodeFails ==
    /\ OpenFails /\ Building /\ opening[1].at < Len(opening[1].todo)
    /\ pools' = ClosePools(Owned(opening[1].made))
    /\ opening' = <<>>
    /\ UNCHANGED <<handles, dryRun, txs, stmts, call, closed>>

(* Every node is open: the handle is returned, unless it has no master.  A  *)
(* group has a switch of its own, a schema view that of its original.       *)
opened ==
    /\ Building /\ opening[1].at = Len(opening[1].todo)
    /\ LET o == opening[1] IN
       IF o.made.masters = <<>>
       THEN /\ pools' = ClosePools(Owned(o.made))
            /\ UNCHANGED <<handles, dryRun>>
       ELSE /\ handles' = Append(handles, o.made)
            /\ dryRun' = IF o.made.switch \in DOMAIN dryRun THEN dryRun
                         ELSE Append(dryRun, \E k \in DOMAIN o.todo : o.todo[k].dryRun)
            /\ UNCHANGED pools
    /\ opening' = <<>>
    /\ UNCHANGED <<txs, stmts, call, closed>>

(* Mutant: every route view is shared, a view of a schema view too. *)
routeViewAlwaysShared(d, route) == [d EXCEPT !.route = route, !.shared = TRUE]

routeView(d, route) ==
    [d EXCEPT !.route = route, !.shared = @ \/ d.schema = ""]

(* WithRoute, Master and Slave, for a route that the handle does not already *)
(* have (it returns the handle itself otherwise).                            *)
WithRoute(i, route) ==
    /\ Idle /\ Len(handles) < MaxHandles
    /\ route # handles[i].route
    /\ handles' = Append(handles, routeView(handles[i], route))
    /\ UNCHANGED <<pools, dryRun, txs, stmts, opening, call, closed>>

(* Mutant: Close closes the pools of a shared view too. *)
CloseShared(i) ==
    /\ Idle /\ i \notin closed
    /\ pools' = ClosePools(Owned(handles[i]))
    /\ closed' = closed \cup {i}
    /\ UNCHANGED <<handles, dryRun, txs, stmts, opening, call>>

Close(i) ==
    /\ Idle /\ i \notin closed
    /\ pools' = IF handles[i].shared THEN pools ELSE ClosePools(Owned(handles[i]))
    /\ closed' = closed \cup {i}
    /\ UNCHANGED <<handles, dryRun, txs, stmts, opening, call>>
-----------------------------------------------------------------------------
(* Which pool a statement goes to.                                          *)

UpTo(nodes, k) == MapThenSumSet(LAMBDA j : nodes[j].weight, 1 .. k)

Targets(nodes) == 0 .. UpTo(nodes, Len(nodes)) - 1

(* Mutant: the first node whose weight reaches the target is taken. *)
pickedIncludesEnd(nodes, target) ==
    {k \in DOMAIN nodes :
        /\ \A j \in 1 .. k - 1 : UpTo(nodes, j) < target
        /\ target <= UpTo(nodes, k) \/ k = Len(nodes)}

(* pick: the first node at which the weights so far pass the target, a      *)
(* random number below their sum.                                           *)
picked(nodes, target) ==
    {k \in DOMAIN nodes :
        /\ \A j \in 1 .. k - 1 : UpTo(nodes, j) <= target
        /\ target < UpTo(nodes, k) \/ k = Len(nodes)}

pick(nodes) ==
    {nodes[k].pool : k \in UNION {picked(nodes, target) : target \in Targets(nodes)}}

prefer(primary, fallback) == IF primary # <<>> THEN primary ELSE fallback

readDB(d) ==
    IF d.route = "master" THEN pick(d.masters)
    ELSE pick(prefer(d.slaves, d.masters))

writeDB(d) ==
    IF d.route = "slave" THEN pick(prefer(d.slaves, d.masters)) ELSE pick(d.masters)

(* DB.TxFromContext, for a context that carries the transaction t. *)
TxFromContext(d, t) ==
    IF t # None /\ txs[t].open /\ handles[txs[t].db].scope = d.scope THEN t ELSE None

(* BeginTx. *)
BeginTx(i) ==
    /\ MayUse /\ Len(txs) < MaxTxs
    /\ \E p \in writeDB(handles[i]) :
          /\ pools[p].open
          /\ txs' = Append(txs, [db |-> i, pool |-> p, open |-> TRUE])
    /\ UNCHANGED <<pools, handles, dryRun, stmts, opening, call, closed>>

(* Commit and Rollback, whether dry run is on or not. *)
EndTx(t) ==
    /\ call.at # "done"
    /\ txs[t].open
    /\ txs' = [txs EXCEPT ![t].open = FALSE]
    /\ UNCHANGED <<pools, handles, dryRun, stmts, opening, call, closed>>
-----------------------------------------------------------------------------
(* A statement: the test some calls make before observe, the test observe   *)
(* makes, and the call of database/sql.                                     *)

Reads   == {"Query", "GetAll", "Value", "ValueExact", "Column"}
DBOps   == Ops \cap (Reads \cup {"Exec", "Prepare", "PrepareMaster", "Tables"})
TxOps   == Ops \cap (Reads \cup {"Exec", "Prepare"})
StmtOps == Ops \cap {"Exec", "Query"}

(* The calls that test dry run themselves before they are observed. *)
TestsFirst(c) ==
    \/ c.op \in {"Value", "ValueExact", "Column"}
    \/ c.op = "Query" /\ c.via # "tx"

Switch(c) == dryRun[handles[c.db].switch]

(* A call starts, with a handle, a Tx or a Stmt: on and off are ghosts, the *)
(* values the switch has had since.                                         *)
Start(op, via, i, t, s) ==
    LET c  == [NoCall EXCEPT !.op = op, !.via = via, !.db = i, !.tx = t, !.stmt = s]
        at == IF op = "Tables" THEN "send"
              ELSE IF TestsFirst(c) THEN "test" ELSE "observe"
    IN
    /\ MayUse
    /\ call' = [c EXCEPT !.at = at, !.on = Switch(c), !.off = ~Switch(c)]
    /\ UNCHANGED <<pools, handles, dryRun, txs, stmts, opening, closed>>

(* A call on a handle, with a context that may carry a transaction.  Only   *)
(* Prepare looks at the context before it is observed; the catalog never.   *)
DBCall(op, i, t) ==
    LET joined == TxFromContext(handles[i], t) IN
    IF op \in {"Prepare", "PrepareMaster"} /\ joined # None
    THEN Start("Prepare", "tx", txs[t].db, t, None)
    ELSE Start(op, "db", i, t, None)

TxCall(op, t) == Start(op, "tx", txs[t].db, t, None)

(* A Stmt without a sql.Stmt answers at once: Exec with an empty result. *)
StmtCall(op, s) ==
    IF stmts[s].pool = None
    THEN /\ MayUse
         /\ call' = LET c == [NoCall EXCEPT !.op = op, !.via = "stmt", !.db = stmts[s].db,
                                            !.stmt = s]
                    IN [c EXCEPT !.at = "done", !.on = Switch(c), !.off = ~Switch(c),
                                 !.answer = IF op = "Query" THEN "error" ELSE "zero"]
         /\ UNCHANGED <<pools, handles, dryRun, txs, stmts, opening, closed>>
    ELSE Start(op, "stmt", stmts[s].db, stmts[s].tx, s)

Answer(a) == call' = [call EXCEPT !.at = "done", !.answer = a]

(* What the call answers when observe does not run it and it goes on as if  *)
(* it had run: there is no row and no column.                               *)
Unrun ==
    CASE call.op = "Query"      -> "no rows object"
      [] call.op = "Value"      -> "ErrNoRows"
      [] call.op = "ValueExact" -> "wrong width"
      [] OTHER                  -> "zero"

(* A Stmt is made; it has a sql.Stmt if observe ran the call. *)
Prepared(p) ==
    IF call.op \in {"Prepare", "PrepareMaster"}
    THEN /\ Len(stmts) < MaxStmts
         /\ stmts' = Append(stmts, [db |-> call.db, pool |-> p,
                                    tx |-> IF p # None /\ call.via = "tx" THEN call.tx ELSE None])
    ELSE UNCHANGED stmts

(* Mutant: only observe tests dry run. *)
testNothing ==
    /\ call.at = "test"
    /\ call' = [call EXCEPT !.at = "observe"]
    /\ UNCHANGED <<pools, handles, dryRun, txs, stmts, opening, closed>>

(* The first test: Query answers an error, Value and Column nothing. *)
test ==
    /\ call.at = "test"
    /\ IF Switch(call) THEN Answer(IF call.op = "Query" THEN "error" ELSE "zero")
       ELSE call' = [call EXCEPT !.at = "observe"]
    /\ UNCHANGED <<pools, handles, dryRun, txs, stmts, opening, closed>>

(* Mutant: a Tx is observed by nobody. *)
observeNotInTx ==
    /\ call.at = "observe"
    /\ IF Switch(call) /\ call.via # "tx" THEN Answer(Unrun) /\ Prepared(None)
       ELSE call' = [call EXCEPT !.at = "send"] /\ UNCHANGED stmts
    /\ UNCHANGED <<pools, handles, dryRun, txs, opening, closed>>

observe ==
    /\ call.at = "observe"
    /\ IF Switch(call) THEN Answer(Unrun) /\ Prepared(None)
       ELSE call' = [call EXCEPT !.at = "send"] /\ UNCHANGED stmts
    /\ UNCHANGED <<pools, handles, dryRun, txs, opening, closed>>

(* executor and its like: the pools the statement may go to. *)
Target ==
    LET d == handles[call.db] IN
    CASE call.via = "tx"   -> {txs[call.tx].pool}
      [] call.via = "stmt" -> {stmts[call.stmt].pool}
      [] call.op = "Tables" -> writeDB(d)
      [] call.op = "PrepareMaster" -> writeDB(d)
      [] call.op = "Exec"  -> IF TxFromContext(d, call.tx) # None
                              THEN {txs[call.tx].pool} ELSE writeDB(d)
      [] call.op = "Prepare" -> readDB(d)
      [] OTHER -> IF TxFromContext(d, call.tx) # None
                  THEN {txs[call.tx].pool} ELSE readDB(d)

(* External: whether what the statement goes to still answers. *)
InTx ==
    \/ call.via \in {"tx", "stmt"} /\ call.tx # None
    \/ /\ call.via = "db" /\ call.op \in Reads \cup {"Exec"}
       /\ TxFromContext(handles[call.db], call.tx) # None
Alive(p) == IF InTx THEN txs[call.tx].open ELSE pools[p].open

(* fn: the statement is sent, and answered with rows, a result or an error. *)
send ==
    /\ call.at = "send"
    /\ \E p \in Target :
          IF Alive(p)
          THEN /\ call' = [call EXCEPT !.at = "done", !.pool = p, !.answer = "answered"]
               /\ Prepared(p)
          ELSE Answer("error") /\ UNCHANGED stmts
    /\ UNCHANGED <<pools, handles, dryRun, txs, opening, closed>>

(* SetDryRun, by any goroutine that has a handle with this switch. *)
SetDryRun(k, enabled) ==
    /\ dryRun[k] # enabled
    /\ dryRun' = [dryRun EXCEPT ![k] = enabled]
    /\ call.at # "done"
    /\ call' = IF call # NoCall /\ handles[call.db].switch = k
               THEN [call EXCEPT !.on = @ \/ enabled, !.off = @ \/ ~enabled] ELSE call
    /\ UNCHANGED <<pools, handles, txs, stmts, opening, closed>>

(* The caller has the answer. *)
Return ==
    /\ call.at = "done" /\ call' = NoCall
    /\ UNCHANGED <<pools, handles, dryRun, txs, stmts, opening, closed>>
-----------------------------------------------------------------------------
Next ==
    \/ \E g \in Groups : openGroup(g)
    \/ openNode \/ openNodeFails \/ opened
    \/ \E i \in DOMAIN handles :
          \/ \E route \in Routes : WithRoute(i, route)
          \/ \E name \in Names : Schema(i, name)
          \/ Close(i)
          \/ BeginTx(i)
          \/ \E op \in DBOps, t \in {None} \cup DOMAIN txs : DBCall(op, i, t)
    \/ \E t \in DOMAIN txs : EndTx(t) \/ \E op \in TxOps : TxCall(op, t)
    \/ \E s \in DOMAIN stmts, op \in StmtOps : StmtCall(op, s)
    \/ test \/ observe \/ send \/ Return
    \/ \E k \in DOMAIN dryRun, enabled \in BOOLEAN : SetDryRun(k, enabled)

Spec == Init /\ [][Next]_vars
-----------------------------------------------------------------------------
(* Properties.                                                              *)

(* Every variable has its type, and a closed handle is one that was made. *)
TypeOK ==
    /\ pools \in Seq(Pool) /\ handles \in Seq(Handle) /\ dryRun \in Seq(BOOLEAN)
    /\ txs \in Seq(Tx) /\ stmts \in Seq(Stmt)
    /\ opening \in Seq(Opening) /\ Len(opening) <= 1 /\ call \in Call
    /\ closed \subseteq DOMAIN handles

(* The handles that a program must close: those that Open returns, and every *)
(* view of a schema that has pools of its own (db.go:288-289, schema.go:13). *)
FromOpen(i) == \A j \in 1 .. i - 1 : handles[j].scope # handles[i].scope
MustClose(i) == FromOpen(i) \/ SchemaSQL(handles[i], handles[i].schema) # ""

(* A pool that is open belongs to the DB under construction or to a handle  *)
(* the program has: a constructor that fails half-way, at a node, at a      *)
(* second dialect or for want of a master, leaves none behind               *)
(* (db.go:115-149, schema.go:40-61).                                        *)
NoPoolLeaked ==
    \A p \in DOMAIN pools : pools[p].open =>
        \/ Building /\ p \in Owned(opening[1].made)
        \/ \E i \in DOMAIN handles : p \in Owned(handles[i])

(* Closing a handle that a program must close leaves none of its pools      *)
(* open, whichever of the views of a schema the program kept.               *)
CloseIsComplete ==
    \A i \in closed : MustClose(i) => \A p \in Owned(handles[i]) : ~pools[p].open

(* The pools of a handle are closed only by a handle that must be closed    *)
(* and is of the same scope: never by closing a view of a DB, by closing    *)
(* the view of another schema, nor by a Schema that fails.                  *)
ClosedOnlyByItsOwner ==
    \A i \in DOMAIN handles : \A p \in Owned(handles[i]) :
        pools[p].open \/ (\E j \in closed : MustClose(j) /\ p \in Owned(handles[j]))

(* A statement is sent to a pool of its own handle, hence to the schema of  *)
(* the handle, also when the context carries a transaction of another view, *)
(* and a prepared one to where it was prepared.                             *)
StatementStaysInItsSchema ==
    LET d == handles[call.db] IN
    call.pool # None =>
        /\ call.pool \in Owned(d)
        /\ pools[call.pool].schema = SchemaSQL(d, d.schema)

(* Among the numbers that rand.IntN can give, as many pick a node as its    *)
(* weight says: none is lost, and none goes to the fallback of the last     *)
(* node (db.go:327-338).                                                    *)
FairShare ==
    \A i \in DOMAIN handles :
        \A nodes \in {handles[i].masters, handles[i].slaves} : \A k \in DOMAIN nodes :
            Cardinality({x \in Targets(nodes) : k \in picked(nodes, x)}) = nodes[k].weight

(* A call made and answered under dry run sends nothing, whatever a Stmt or *)
(* a Tx was made under; the catalog (catalog.go:183-201) is read all the    *)
(* same.                                                                    *)
DryRunSendsNothing == call.pool # None /\ call.op # "Tables" => call.off

(* Unless the switch is turned while the call runs, what it says of the     *)
(* data comes from the database: no ErrNoRows or wrong width for a query    *)
(* that was not sent, no nil *sql.Rows without an error (but Tx.Query), and *)
(* no empty result with dry run off (but from a Stmt prepared under it).    *)
AnswersAreTrue ==
    call.at = "done" /\ ~(call.on /\ call.off) =>
        /\ call.answer \notin {"ErrNoRows", "wrong width"}
        /\ call.answer = "no rows object" => call.via = "tx"
        /\ call.answer = "zero" =>
              call.on \/ (call.via = "stmt" /\ stmts[call.stmt].pool = None)
=============================================================================

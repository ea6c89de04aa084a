------------------------------- MODULE DmlExec -------------------------------
(***************************************************************************)
(* DMLBuilder: the calls that build a statement and its execution, one      *)
(* statement after another, any of which the database may refuse.  Nothing  *)
(* takes back what the statements before it have done.                      *)
(***************************************************************************)
EXTENDS Changes

CONSTANTS
    Initial,        \* a sequence of heaps; builder 1 is the DML builder
    MaxCalls,       \* calls before the execution
    MaxBuilders,
    Records,        \* a sequence: what ValuesOf takes
    Tuples,         \* a sequence: what Values takes
    Assignable,     \* a sequence: what Set, Data and DoUpdate take
    Predicates,     \* a sequence: conditions
    Joins,          \* a sequence of [kind, table, on]
    Targets,        \* a sequence: column lists of OnConflictKey, Keys and Columns
    Batches, TenantLists, Requests, Engines,
    DB              \* the tables' rows

VARIABLES heap, calls, db, run

vars == <<heap, calls, db, run>>

(* ideal is no part of the program: the tables as the statements promised.  *)
NoRun == [state |-> "none", builder |-> 1, d |-> "mysql", request |-> NoTenant,
          todo |-> <<>>, done |-> 0, affected |-> 0, start |-> DB, ideal |-> DB]

Init ==
    /\ \E i \in DOMAIN Initial : heap = Initial[i]
    /\ calls = 0
    /\ db = DB
    /\ run = NoRun

-----------------------------------------------------------------------------
B(p) == heap[p]
Builders == {p \in DOMAIN heap : IsDML(heap[p])}

(* A call that leaves builder p as b; calls that a kind of statement never  *)
(* reads are not made on it.                                                *)
Call(p, kinds, b) ==
    /\ B(p).kind \in kinds
    /\ heap' = [heap EXCEPT ![p] = b]
    /\ calls' = calls + 1
    /\ UNCHANGED <<db, run>>
All == {"insert", "insertFrom", "update", "delete"}

Columns(p) == \E i \in DOMAIN Targets :
    Call(p, {"insert"}, [B(p) EXCEPT !.insertColumns = @ \o Targets[i]])

Values(p) == \E i \in DOMAIN Tuples : LET b == B(p) IN
    Call(p, {"insert", "update"},
         IF b.err # "" THEN b
         ELSE IF b.kind # "insert" THEN [b EXCEPT !.err = "values"]
         ELSE IF b.insertColumns = <<>> THEN b
         ELSE IF Len(Tuples[i]) # Len(b.insertColumns) THEN [b EXCEPT !.err = "count"]
         ELSE [b EXCEPT !.insertRows = Append(@, [j \in DOMAIN Tuples[i] |->
                                          columnValue(b.insertColumns[j], Tuples[i][j])])])

(* One record of an UPDATE is its SET until another comes with it.          *)
ValuesOf(p) == \E i, j \in DOMAIN Records : LET
    b == B(p)
    rows == IF i = j THEN <<Records[i]>> ELSE <<Records[i], Records[j]>>
    before == IF b.setValues # <<>> THEN <<b.setValues>> ELSE <<>> IN
    Call(p, All,
         IF b.err # "" THEN b
         ELSE IF b.kind \notin {"insert", "update"} THEN [b EXCEPT !.err = "values of"]
         ELSE IF b.kind = "insert" THEN [b EXCEPT !.insertRows = @ \o rows]
         ELSE IF b.batchUpdateRows = <<>> /\ Len(rows) = 1 THEN [b EXCEPT !.setValues = @ \o rows[1]]
         ELSE [b EXCEPT !.setValues = <<>>, !.batchUpdateRows = @ \o before \o rows])

Batch(p) == \E n \in Batches : Call(p, {"insert"}, [B(p) EXCEPT !.batch = n])
Keys(p) == \E i \in DOMAIN Targets :
    Call(p, {"update"}, [B(p) EXCEPT !.updateKeys = @ \o Targets[i]])

(* Set adds one assignment, Data those of a map in the order of its names.  *)
Set(p) == \E i \in DOMAIN Assignable :
    Call(p, {"update"}, [B(p) EXCEPT !.setValues = Append(@, Assignable[i])])
Data(p) == \E i, j \in DOMAIN Assignable : LET c == Assignable[i] e == Assignable[j] IN
    Call(p, {"update"}, [B(p) EXCEPT !.setValues = @ \o Assignments(PutAt(PutAt(NoUpdates, c.col, c.v), e.col, e.v))])
Where(p) == \E i \in DOMAIN Predicates :
    Call(p, {"update", "delete"}, [B(p) EXCEPT !.conds = Append(@, Predicates[i])])
addJoin(p) == \E i \in DOMAIN Joins :
    Call(p, {"update", "delete"}, [B(p) EXCEPT !.joins = Append(@, Joins[i])])
Returning(p) == Call(p, All, [B(p) EXCEPT !.returning = Append(@, Col(B(p).table, "id"))])
Unscoped(p) == Call(p, {"delete"}, [B(p) EXCEPT !.unscoped = TRUE])
ShardBy(p) == \E v \in Shards : Call(p, All, [B(p) EXCEPT !.shard = v])

(* OnConflictKey, DoNothing and DoUpdate add to one conflict clause.        *)
Upsert(b) == IF b.upsert = <<>> THEN [nothing |-> FALSE, cols |-> <<>>, updates |-> NoUpdates]
             ELSE b.upsert[1]
OnConflictKey(p) == \E i \in DOMAIN Targets :
    Call(p, {"insert"}, [B(p) EXCEPT !.upsert = <<[Upsert(B(p)) EXCEPT !.cols = @ \o Targets[i]]>>])
DoNothing(p) == Call(p, {"insert"}, [B(p) EXCEPT !.upsert = <<[Upsert(B(p)) EXCEPT !.nothing = TRUE]>>])
DoUpdate(p) == \E i \in DOMAIN Assignable : LET c == Assignable[i] IN
    Call(p, {"insert"}, [B(p) EXCEPT !.upsert = <<[Upsert(B(p)) EXCEPT !.updates = PutAt(@, c.col, c.v)]>>])

Tenant(p) == \E ids \in TenantLists :
    Call(p, All, IF ids = <<>> THEN [B(p) EXCEPT !.untenant = FALSE]
                 ELSE [B(p) EXCEPT !.untenant = FALSE, !.hasTenantIDs = TRUE, !.tenantIDs = ids])
UnTenant(p) == Call(p, All, [B(p) EXCEPT !.untenant = TRUE])

Clone(p) ==
    /\ heap' = CloneDML(heap, p)
    /\ Len(heap') <= MaxBuilders
    /\ calls' = calls + 1
    /\ UNCHANGED <<db, run>>

-----------------------------------------------------------------------------
(* Exec stamps the tenant of its context, Value and Column read RETURNING.  *)
Stamped(p, t) == [heap EXCEPT ![p].ctxTenant = t]
Start(p, d, t, todo) ==
    /\ heap' = Stamped(p, t)
    /\ run' = [NoRun EXCEPT !.state = "running", !.builder = p, !.d = d, !.request = t,
                            !.todo = todo, !.start = db, !.ideal = db]
    /\ UNCHANGED <<calls, db>>
Exec(p) == \E d \in Engines, t \in Requests : Start(p, d, t, Statements(Stamped(p, t), p, d))
Value(p) == \E d \in Engines, t \in Requests :
    B(p).returning # <<>> /\ Start(p, d, t, readReturning(Stamped(p, t), p, d))

Context(view) == [h |-> heap, d |-> run.d, view |-> view, request |-> run.request]

(* The next statement is done.  The first error ends the execution.         *)
Done ==
    /\ Head(run.todo).err = ""
    /\ \E real \in {Apply(db, Head(run.todo).n, Context(FALSE))},
          ideal \in {Apply(run.ideal, Head(run.todo).n, Context(TRUE))} :
         /\ real.ok
         /\ db' = real.db
         /\ run' = [run EXCEPT !.todo = Tail(@), !.done = @ + 1, !.affected = @ + real.affected,
                               !.ideal = IF ideal.ok THEN ideal.db ELSE @,
                               !.state = IF Len(run.todo) = 1 THEN "done" ELSE @]
    /\ UNCHANGED <<heap, calls>>

(* Rendering or the database refuses it; the database also for its own reasons. *)
Failed ==
    /\ run' = [run EXCEPT !.state = "failed", !.todo = <<>>]
    /\ UNCHANGED <<heap, calls, db>>

Build(p) ==
    \/ Columns(p) \/ Values(p) \/ ValuesOf(p) \/ Batch(p) \/ Keys(p) \/ Set(p) \/ Data(p)
    \/ Where(p) \/ addJoin(p) \/ Returning(p) \/ Unscoped(p) \/ ShardBy(p)
    \/ OnConflictKey(p) \/ DoNothing(p) \/ DoUpdate(p) \/ Tenant(p) \/ UnTenant(p)
    \/ Clone(p)

Next ==
    \/ run.state = "none" /\ calls < MaxCalls /\ \E p \in Builders : Build(p)
    \/ run.state = "none" /\ \E p \in Builders : Exec(p) \/ Value(p)
    \/ run.state = "running" /\ (Done \/ Failed)

Spec == Init /\ [][Next]_vars

-----------------------------------------------------------------------------
Running == heap[run.builder]

(* gooq_dialect.go:152: arguments are bound in the order of the question    *)
(* marks.  Every placeholder of every statement takes the value it was      *)
(* written for, and no argument is left over.                               *)
PlaceholdersInOrder ==
    \A i \in DOMAIN run.todo :
        run.todo[i].err = "" => BindsWell(run.todo[i].n, run.todo[i].args, LookupDialect(run.d).numbered)

(* The same but in two cases without numbers: an UPDATE whose dialect       *)
(* writes all tables before all ON conditions, with several joins, which    *)
(* run dml_joins is about, and a function whose arguments it reverses.      *)
TablesBeforeOns ==
    /\ Running.kind \in {"update", "delete"} /\ Len(Running.joins) > 1
    /\ ~LookupDialect(run.d).joinsBeforeSet
ReversesArguments ==
    \E i \in DOMAIN run.todo : Kinds(run.todo[i].n, "fn") \cap LookupDialect(run.d).reversed # {}
ArgumentsInTextOrder ==
    LookupDialect(run.d).numbered \/ ~(TablesBeforeOns \/ ReversesArguments) => PlaceholdersInOrder

(* UPDATE, DELETE, upsert and batch update change exactly the rows that the *)
(* caller's conditions choose among those of the tenants in force for the   *)
(* statement, in the target and in every joined table, derived tables and   *)
(* subqueries, with the values of the assignments, whatever conditions are  *)
(* joined to the library's own.                                             *)
WritesOwnRows == db = run.ideal

(* A row of a tenant table keeps its tenant, and new rows are of the one    *)
(* tenant in force, unless UnTenant was called.  The values of INSERT ...   *)
(* SELECT are not looked at (README.md, Writes).                            *)
TenantsStay ==
    LET ids == IF Running.hasTenantIDs THEN Running.tenantIDs ELSE <<run.request>>
        old(t) == Len(run.start[t])
    IN Bases[Running.table].tenant /\ ~Running.untenant /\ Running.kind # "insertFrom" =>
         \A t \in DOMAIN db : Len(db[t]) >= old(t) => \A i \in DOMAIN db[t] :
            IF i <= old(t) THEN db[t][i][2] = run.start[t][i][2] ELSE ids = <<db[t][i][2]>>

(* An insert writes each of its rows once, with the table's defaults and    *)
(* not NULL for the columns the row does not name, however the rows are     *)
(* grouped and cut; when it fails half way, some of them, none twice.       *)
Plain(v) == IF v.k = "null" THEN Null ELSE v.a
WantedRow(d, row) == RowOf(d, ColumnsOf(row), [j \in DOMAIN row |-> Plain(row[j].v)])
NewRows == FlattenSeq(SetToSeq({SubSeq(db[t], Len(run.start[t]) + 1, Len(db[t])) : t \in DOMAIN db}))
InsertedOnce ==
    Running.kind = "insert" /\ Running.upsert = <<>> =>
        LET rows == Running.insertRows
            wanted == ToBag([i \in DOMAIN rows |-> WantedRow(run.d, rows[i])])
        IN run.done > 0 =>
             /\ ToBag(NewRows) \sqsubseteq wanted
             /\ run.affected = Len(NewRows)
             /\ run.state = "done" => ToBag(NewRows) = wanted

(* A batch update gives each record's row, the one its keys name, the       *)
(* record's other values, one record after the other, and touches no row    *)
(* whose tenant is not in force.  Records of keys alone change nothing.     *)
BatchFollowsRecords ==
    LET b == Running
        name == <<Bases[b.table].table>>
        keys(row) == Filter(row, LAMBDA cv : Contains(KeysOf(b), cv.col))
        others(row) == Filter(row, LAMBDA cv : ~Contains(KeysOf(b), cv.col))
        rows == Filter(b.batchUpdateRows, LAMBDA row : others(row) # <<>>)
        at(c) == Min(Position(run.d, c))
        named(row, r) == \A k \in DOMAIN keys(row) : r[at(keys(row)[k].col)] = Plain(keys(row)[k].v)
        own(r) == Visible(Context(TRUE), [base |-> b.table, by |-> <<run.builder>>], r)
        put(r, cv) == [r EXCEPT ![at(cv.col)] = Plain(cv.v)]
        record(table, row) == [i \in DOMAIN table |->
            IF named(row, table[i]) /\ own(table[i]) THEN FoldLeft(put, table[i], others(row)) ELSE table[i]]
    IN b.kind = "update" /\ b.batchUpdateRows # <<>> /\ b.conds = <<>> /\ name \in DOMAIN db =>
         db[name] = FoldLeft(record, run.start[name], SubSeq(rows, 1, run.done))

(* Nothing but the target changes; of a sharded table the shard of the      *)
(* statement's own ShardBy, whatever shards the queries it reads are of.    *)
OnlyTheTargetChanges ==
    LET base == Bases[Running.table]
        given == IF base.own # NoShard THEN base.own ELSE Running.shard
        target == IF base.sharded THEN ShardingRule(Running.table, given) ELSE <<base.table>>
    IN \A t \in DOMAIN db : db[t] # run.start[t] => t = target
=============================================================================

-------------------------------- MODULE Select --------------------------------
(***************************************************************************)
(* SelectBuilder: the calls an application makes on query builders, in any *)
(* order, on builders that hold one another, and the executions in between.*)
(* A builder keeps the tenant of the request it was last executed for.      *)
(***************************************************************************)
EXTENDS Rows

CONSTANTS
    Initial,        \* a sequence of heaps of builders to start from
    MaxShape,       \* calls after that which shape the statement
    MaxScope,       \* calls after those which say whose rows it reads;
                    \* an execution may follow them
    MaxBuilders,
    Shaped, Scoped, \* the builders those calls are made on
    Items,          \* a sequence: expressions of select lists, groups and orders
    Predicates,     \* a sequence: conditions of WHERE, ON and HAVING
    MaxOn,          \* how many of them ON and HAVING may have, the first ones
    Tables,         \* a sequence: what From and the joins take
    TenantLists,    \* arguments of Tenant
    Requests,       \* tenants of requests
    Numbers,        \* arguments of Limit, Offset and Page
    Engines,        \* the dialects statements are rendered for
    DB              \* the tables' rows

VARIABLES heap, shaped, scoped, sent

vars == <<heap, shaped, scoped, sent>>

Nothing == [builder |-> 0, request |-> NoTenant]

Init ==
    /\ \E i \in DOMAIN Initial : heap = Initial[i]
    /\ shaped = 0 /\ scoped = 0
    /\ sent = Nothing

-----------------------------------------------------------------------------
(* The builders rendered when id is rendered.  A builder never comes to     *)
(* hold itself: rendering it would not end.                                 *)
RECURSIVE Subqueries(_), Reaches(_, _)

Subqueries(e) ==
    (IF e.k = "sub" THEN {e.a} ELSE {}) \cup UNION {Subqueries(e.es[i]) : i \in DOMAIN e.es}
Held(t) == IF t.k = "sub" THEN {t.id} ELSE {}

Reaches(h, id) ==
    LET b == h[id]
        ons == FlattenSeq([i \in DOMAIN b.joins |-> b.joins[i].on])
        exprs == b.fields \o b.conds \o ons \o b.having
        queries == b.setOps \o b.ctes
        direct == UNION {Subqueries(exprs[i]) : i \in DOMAIN exprs}
                    \cup Held(b.from) \cup UNION {Held(b.joins[i].table) : i \in DOMAIN b.joins}
                    \cup {queries[i].q : i \in DOMAIN queries}
    IN {id} \cup UNION {Reaches(h, k) : k \in direct}

MayHold(p, ids) == \A q \in ids : q \in DOMAIN heap /\ p \notin Reaches(heap, q)

(* A call on builder p that leaves it as b. *)
ShapeCall == /\ scoped = 0 /\ shaped < MaxShape
             /\ shaped' = shaped + 1 /\ UNCHANGED scoped
ScopeCall == /\ scoped < MaxScope /\ sent = Nothing
             /\ scoped' = scoped + 1 /\ UNCHANGED shaped

Call(p, b) ==
    /\ ShapeCall
    /\ heap' = [heap EXCEPT ![p] = b]
    /\ sent' = Nothing
Confine(p, b) ==
    /\ ScopeCall
    /\ heap' = [heap EXCEPT ![p] = b]
    /\ sent' = Nothing

B(p) == heap[p]
Named(e) == IF e.k \in {"col", "free"} THEN <<e.a.col>> ELSE <<>>

Fields(p) == \E i \in DOMAIN Items : LET e == Items[i] IN
    /\ MayHold(p, Subqueries(e))
    /\ Call(p, [B(p) EXCEPT !.fields = Append(@, e), !.columns = @ \o Named(e)])

(* All columns of the table FROM holds now but the given one.  A derived    *)
(* table's columns are named by the alias it has now.                       *)
AllColumns(t) == CASE t.k = "base" -> Cols
                   [] t.k = "sub" -> heap[t.id].columns
                   [] OTHER -> <<>>
FieldOf(t, col) == IF t.k = "base" THEN Col(t.id, col) ELSE Free(heap[t.id].alias, col)
FieldsEx(p) == \E ex \in {"del"} :
    LET kept == Filter(AllColumns(B(p).from), LAMBDA c : c # ex)
    IN Call(p, [B(p) EXCEPT !.columns = kept,
                            !.fields = [i \in DOMAIN kept |-> FieldOf(B(p).from, kept[i])]])

From(p) == \E i \in DOMAIN Tables : LET t == Tables[i] IN
    MayHold(p, Held(t)) /\ Call(p, [B(p) EXCEPT !.from = t])
SetDistinct(p) == Call(p, [B(p) EXCEPT !.distinct = TRUE])
Where(p) == \E i \in DOMAIN Predicates : LET e == Predicates[i] IN
    MayHold(p, Subqueries(e)) /\ Call(p, [B(p) EXCEPT !.conds = Append(@, e)])
Order(p) == \E i \in DOMAIN Items, k \in {"asc", "desc"} :
    Call(p, [B(p) EXCEPT !.orderBy = Append(@, Ex(k, 0, <<Items[i]>>))])
Group(p) == \E i \in DOMAIN Items : LET e == Items[i] IN Call(p, [B(p) EXCEPT !.groupBy = Append(@, e)])
Having(p) == \E i \in 1 .. MaxOn : LET e == Predicates[i] IN
    MayHold(p, Subqueries(e)) /\ Call(p, [B(p) EXCEPT !.having = Append(@, e)])

(* GroupRollup, GroupCube, GroupingSets: one extension per query. *)
setGroupExt(p) == \E k \in {"rollup", "cube", "sets"}, i \in DOMAIN Items :
    Call(p, IF B(p).groupExt # "none" THEN [B(p) EXCEPT !.buildErr = "group extension"]
            ELSE [B(p) EXCEPT !.groupExt = k, !.sets = <<<<Items[i]>>>>])

Limit(p) == \E n \in Numbers :
    Call(p, IF n < 0 THEN [B(p) EXCEPT !.buildErr = "limit"] ELSE [B(p) EXCEPT !.limit = n])
Offset(p) == \E n \in Numbers : Call(p, [B(p) EXCEPT !.offset = n])
Page(p) == \E page, size \in Numbers :
    Call(p, IF size < 0 THEN [B(p) EXCEPT !.buildErr = "page size"]
            ELSE [B(p) EXCEPT !.offset = (page - 1) * size, !.limit = size])

Unscoped(p) == Confine(p, [B(p) EXCEPT !.unscoped = TRUE])
LockRows(p) == \E m \in {"update", "share"} : Call(p, [B(p) EXCEPT !.lock = m])
LockWait(p) == \E w \in {"skip", "nowait"} : Call(p, [B(p) EXCEPT !.lockWait = w])
ShardBy(p) == \E v \in Shards : Confine(p, [B(p) EXCEPT !.shard = v])

addJoin(p) == \E x \in DOMAIN Tables,
                 k \in {"left", "right", "inner", "full", "leftLateral", "innerLateral", "crossLateral"},
                 i \in 1 .. MaxOn :
    LET t == Tables[x]
        on == IF k = "crossLateral" THEN <<>> ELSE <<Predicates[i]>> IN
    /\ MayHold(p, Held(t) \cup Subqueries(Predicates[i]))
    /\ Call(p, [B(p) EXCEPT !.joins = Append(@, [kind |-> k, table |-> t, on |-> on])])

addSetOp(p) == \E op \in {"unionAll", "union", "intersect", "except"}, q \in DOMAIN heap :
    MayHold(p, {q}) /\ Call(p, [B(p) EXCEPT !.setOps = Append(@, [a |-> op, q |-> q])])
With(p) == \E q \in DOMAIN heap :
    MayHold(p, {q}) /\ Call(p, [B(p) EXCEPT !.ctes = Append(@, [a |-> "c", q |-> q])])

Tenant(p) == \E ids \in TenantLists :
    Confine(p, IF ids = <<>> THEN [B(p) EXCEPT !.untenant = FALSE]
            ELSE [B(p) EXCEPT !.untenant = FALSE, !.hasTenantIDs = TRUE, !.tenantIDs = ids])

UnTenant(p) == Confine(p, [B(p) EXCEPT !.untenant = TRUE])

Clone(p) ==
    LET c == CloneBuilder(heap, p)
    IN /\ ScopeCall /\ Len(c.h) <= MaxBuilders
       /\ heap' = c.h
       /\ sent' = Nothing

(* Executing a builder stamps the tenant of the request's context into it,  *)
(* or takes an earlier stamp away.                                          *)
bind(p) == \E t \in Requests :
    /\ sent = Nothing
    /\ heap' = [heap EXCEPT ![p].ctxTenant = t]
    /\ sent' = [builder |-> p, request |-> t]
    /\ UNCHANGED <<shaped, scoped>>

Shape(p) ==
    \/ Fields(p) \/ FieldsEx(p) \/ From(p) \/ SetDistinct(p) \/ Where(p) \/ Order(p)
    \/ Group(p) \/ Having(p) \/ setGroupExt(p) \/ Limit(p) \/ Offset(p) \/ Page(p)
    \/ LockRows(p) \/ LockWait(p) \/ addJoin(p) \/ addSetOp(p) \/ With(p)

Scope(p) ==
    \/ Unscoped(p) \/ ShardBy(p) \/ Tenant(p) \/ UnTenant(p)

(* The builders that are executed: those that are shaped, and the newest    *)
(* clone.                                                                   *)
Roots == Shaped \cup (IF Len(heap) > Len(Initial[1]) THEN {Len(heap)} ELSE {})

Next ==
    \/ \E p \in Shaped : Shape(p)
    \/ \E p \in Scoped : Scope(p)
    \/ \E p \in Shaped : Clone(p)
    \/ \E p \in Roots : bind(p)

Spec == Init /\ [][Next]_vars

-----------------------------------------------------------------------------
Executed == {sent.builder} \ {0}

(* Whatever was called on the builders, in every dialect every placeholder  *)
(* of the list query, its count and its existence test takes the value it   *)
(* was written for, and no argument is left over: argument order follows    *)
(* the order clauses are rendered in.  Without numbers a function whose     *)
(* arguments the dialect reverses does not keep it.                         *)
InTextOrder(r, spec) ==
    r.err = "" /\ (spec.numbered \/ Kinds(r.n, "fn") \cap spec.reversed = {})
        => BindsWell(r.n, r.args, spec.numbered)
ArgumentsInTextOrder ==
    \A p \in Executed, d \in Engines :
        /\ InTextOrder(ToSql(heap, p, d), LookupDialect(d))
        /\ InTextOrder(countSQL(heap, p, d), LookupDialect(d))
        /\ InTextOrder(existsSQL(heap, p, d), LookupDialect(d))

-----------------------------------------------------------------------------
(* Queries whose rows module Rows tells: a FROM that names each table once, *)
(* no right or full join, no HAVING,                                        *)
(* no GROUP BY extension, groups that are the select list, and set operands *)
(* without a page or set operations of their own.                           *)
SameTable(s, t) == s.k = t.k /\ s.id = t.id
Evaluable(p) ==
    \A q \in Reaches(heap, p) :
        LET b == heap[q] IN
        /\ \A i \in DOMAIN b.joins : b.joins[i].kind \notin {"right", "full"}
        /\ \A i \in DOMAIN b.joins :
             /\ ~SameTable(b.joins[i].table, b.from)
             /\ \A j \in DOMAIN b.joins : j < i => ~SameTable(b.joins[i].table, b.joins[j].table)
        /\ b.having = <<>> /\ b.groupExt = "none"
        /\ Len(b.groupBy) = 0 \/ b.groupBy = b.fields
        /\ \A i \in DOMAIN b.setOps :
             LET o == heap[b.setOps[i].q] IN o.setOps = <<>> /\ o.limit = 0 /\ o.offset <= 0

(* A query executed for a request answers from the rows that request may    *)
(* see: in every query of the statement, the rows of the tenants its own    *)
(* Tenant or UnTenant call says, else those of the query around it, else    *)
(* the request's; and no soft-deleted row unless Unscoped or a condition on *)
(* the column asks for it.  It neither shows a row of another tenant nor    *)
(* loses one of its own, whatever conditions the caller wrote and whatever  *)
(* request the builder or a builder it holds was executed for before.       *)
OwnRows(r) == r.err = "" => Answer(heap, DB, r.n) = ViewAnswer(heap, DB, r.n, sent.request)
ReadsVisibleRows ==
    \A p \in Executed, d \in Engines : Evaluable(p) => OwnRows(ToSql(heap, p, d))

(* Count is the number of rows of the list without its page, and Exists     *)
(* says whether there is one.                                               *)
Agree(list, count, exists) ==
    list.err = "" =>
      /\ count.err = "" /\ exists.err = ""
      /\ LET rows == Len(Answer(heap, DB, list.n))
         IN /\ Head(Head(Answer(heap, DB, count.n)).vals) = rows
            /\ (Answer(heap, DB, exists.n.kids[1]) # <<>>) = (rows > 0)
CountAndExistsAgree ==
    \A p \in Executed, d \in Engines :
        Evaluable(p) =>
          Agree(SQLOf(unbounded(heap, p), d), countSQL(heap, p, d), existsSQL(heap, p, d))

(* A sharded table is read from the shard it was given, or else, when it is *)
(* the main table of a query, from the shard of that query's own ShardBy:   *)
(* never from one an outer query or a sibling chose.  Columns name the      *)
(* table as the FROM of the innermost query around them does.               *)
NamesShards(scans, cols) ==
    LET given(s) == IF Bases[s.base].own # NoShard THEN Bases[s.base].own
                    ELSE heap[Last(s.by)].shard
        around(c) == {i \in DOMAIN scans : scans[i].base = c.base /\ IsPrefix(scans[i].by, c.by)}
    IN /\ \A i \in DOMAIN scans : Bases[scans[i].base].sharded =>
            scans[i].name = ShardingRule(scans[i].base, given(scans[i]))
       /\ \A k \in DOMAIN cols : around(cols[k]) # {} =>
            \E i \in around(cols[k]) :
               /\ \A x \in around(cols[k]) : Len(scans[x].by) <= Len(scans[i].by)
               /\ cols[k].prefix = scans[i].as
TablesOfShards(r) == r.err = "" => NamesShards(Leaves(r.n, "scan"), Leaves(r.n, "col"))
ShardOfTheQuery ==
    \A p \in Executed, d \in Engines : TablesOfShards(ToSql(heap, p, d))
=============================================================================

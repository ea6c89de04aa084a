-------------------------------- MODULE Query --------------------------------
(***************************************************************************)
(* Rendering of queries: the RenderContext, expressions and conditions,    *)
(* table names and sharding, soft delete and tenant predicates, and the    *)
(* SELECT statement itself.                                                 *)
(*                                                                         *)
(* Builders are objects that other builders and expressions point to, so   *)
(* they live in a heap h: a sequence of builder records, an id being an     *)
(* index.  Tables are the TableBase objects of Bases.  Every renderer takes *)
(* the render context and gives [rc, n]: the context after it and the      *)
(* fragment, whose children are in text order.                             *)
(***************************************************************************)
EXTENDS Dialect

CONSTANTS
    Bases,      \* id of a TableBase -> [table, alias, tenant, soft, sharded, own]
    Shards,     \* the shard values the sharding rule accepts
    NoTenant,   \* no tenant value
    NoShard     \* no shard value

(* The columns of a table, in order. *)
TableColumns == <<"id", "tid", "del", "ref">>

(* An expression is [k, a, es]: a kind, its attribute and the values or     *)
(* expressions below it.  A plain value has kind "val".                     *)
Ex(k, a, es) == [k |-> k, a |-> a, es |-> es]
Val(v) == Ex("val", v, <<>>)
Col(base, col) == Ex("col", [base |-> base, col |-> col], <<>>)
Free(prefix, col) == Ex("free", [prefix |-> prefix, col |-> col], <<>>)
Raw(sql, args) == Ex("raw", [sql |-> sql, args |-> args], <<>>)
Sub(id) == Ex("sub", id, <<>>)

(* The conditions of a column or an expression, and their combinations.     *)
Cmp(op, l, r) == Ex("cmp", op, <<l, r>>)
In(f, vs) == Ex("in", 0, <<f>> \o [i \in DOMAIN vs |-> Val(vs[i])])
InExpr(f, q) == Ex("insub", 0, <<f, Sub(q)>>)
Exists(q) == Ex("exists", 0, <<Sub(q)>>)
NOT(e) == Ex("not", 0, <<e>>)

(* A call of an SQL function: its arguments, then what FILTER and OVER hold. *)
Fn(name, args, rest) == Ex("fn", [name |-> name, args |-> Len(args)], args \o rest)

(* What FROM and JOIN take: a table, a builder as a derived table, a CTE.   *)
TableRef(k, id) == [k |-> k, id |-> id]
IsBase(t) == t.k = "base"

SelectBuilder ==
    [fields |-> <<>>, from |-> TableRef("none", 0), joins |-> <<>>, conds |-> <<>>,
     groupBy |-> <<>>, groupExt |-> "none", sets |-> <<>>, having |-> <<>>, orderBy |-> <<>>,
     limit |-> 0, offset |-> 0, distinct |-> FALSE, unscoped |-> FALSE, untenant |-> FALSE,
     hasTenantIDs |-> FALSE, tenantIDs |-> <<>>, ctxTenant |-> NoTenant, alias |-> "",
     buildErr |-> "", lock |-> "none", lockWait |-> "none", setOps |-> <<>>, ctes |-> <<>>,
     shard |-> NoShard, columns |-> <<>>]

-----------------------------------------------------------------------------
(* RenderContext.  path is not part of it: it records, for the properties,  *)
(* which builders are being rendered, the outermost first.                  *)
NewRenderContext(d) ==
    [d |-> d, args |-> <<>>, argIndex |-> 0, err |-> "",
     queryShard |-> NoShard, mainTable |-> "none", shardNames |-> <<>>,
     tenantHas |-> FALSE, tenantDisabled |-> FALSE, tenantIDs |-> <<>>, path |-> <<>>]

DialectOf(rc) == LookupDialect(rc.d)

(* A fragment [rc, n], and fragments [rc, ns] rendered one after another.   *)
Out(rc, n) == [rc |-> rc, n |-> n]
Begin(rc) == [rc |-> rc, ns |-> <<>>]
Push(acc, r) == [ns |-> Append(acc.ns, r.n), rc |-> r.rc]
AsNode(t, a, acc) == Out(acc.rc, Node(t, a, acc.ns))
AsClause(t, acc) == Out(acc.rc, Clause(t, acc.ns))

(* The first error stays. *)
Fail(rc, e) == IF rc.err = "" THEN [rc EXCEPT !.err = e] ELSE rc

AddArg(rc, v) ==
    Out([rc EXCEPT !.args = Append(@, v), !.argIndex = @ + 1],
        Leaf("ph", [v |-> v, n |-> rc.argIndex + 1]))

(* Mutant: the names resolved by the outer query stay. *)
SwapQueryShardKeepsNames(rc, shard) ==
    [rc EXCEPT !.queryShard = shard, !.mainTable = "none"]

SwapQueryShard(rc, shard) ==
    [rc EXCEPT !.queryShard = shard, !.mainTable = "none", !.shardNames = <<>>]

(* Mutant: what the inner query changed stays. *)
RestoreQueryShardForgets(rc, prev) == rc

RestoreQueryShard(rc, prev) ==
    [rc EXCEPT !.queryShard = prev.queryShard, !.mainTable = prev.mainTable,
               !.shardNames = prev.shardNames]

SetTenant(rc, ids) == [rc EXCEPT !.tenantHas = TRUE, !.tenantIDs = ids]
PushTenant(rc, ids) ==
    [rc EXCEPT !.tenantHas = TRUE, !.tenantDisabled = FALSE, !.tenantIDs = ids]
PushTenantDisabled(rc) == [rc EXCEPT !.tenantDisabled = TRUE]
PopTenant(rc, prev) ==
    [rc EXCEPT !.tenantHas = prev.tenantHas, !.tenantDisabled = prev.tenantDisabled,
               !.tenantIDs = prev.tenantIDs]
TenantIDs(rc) == IF rc.tenantDisabled \/ ~rc.tenantHas THEN <<>> ELSE rc.tenantIDs

-----------------------------------------------------------------------------
(* Sharded table names.  A name is <<table>>, <<table, shard>> or, for an   *)
(* alias, <<"as", alias>>.  The rule itself is the application's.           *)
shardValueFor(rc, base) ==
    IF Bases[base].own # NoShard THEN Bases[base].own
    ELSE IF rc.mainTable = base THEN rc.queryShard ELSE NoShard

ShardingRule(base, value) == <<Bases[base].table, value>>

(* The first error of a name stays, and the name is not resolved again.     *)
ShardName(rc, base, value) ==
    IF value \in Shards THEN [rc |-> rc, name |-> ShardingRule(base, value)]
    ELSE [rc |-> Fail(rc, "shard"), name |-> <<Bases[base].table>>]
cacheShardName(base, r) == [r EXCEPT !.rc.shardNames = PutAt(@, base, r.name)]

ResolveTableName(rc, base) ==
    IF ~Bases[base].sharded THEN [rc |-> rc, name |-> <<Bases[base].table>>]
    ELSE IF base \in DOMAIN rc.shardNames THEN [rc |-> rc, name |-> rc.shardNames[base]]
    ELSE cacheShardName(base, ShardName(rc, base, shardValueFor(rc, base)))

(* A bound column: its prefix is the alias or the name the FROM resolves to. *)
prefixParts(rc, base) ==
    IF Bases[base].alias # "" THEN [rc |-> rc, name |-> <<"as", Bases[base].alias>>]
    ELSE ResolveTableName(rc, base)

Reference(p, base, col) ==
    Out(p.rc, Leaf("col", [prefix |-> p.name, col |-> col, base |-> base, by |-> p.rc.path]))
FieldRender(rc, base, col) == Reference(prefixParts(rc, base), base, col)

-----------------------------------------------------------------------------
(* Which columns an expression mentions; a subquery is not looked into.     *)
columnMatches(e, base, col) ==
    \/ e.k = "col" /\ e.a.col = col /\ e.a.base = base
    \/ /\ e.k = "free" /\ e.a.col = col
       /\ e.a.prefix = IF Bases[base].alias # "" THEN Bases[base].alias ELSE Bases[base].table

CONSTANT referencesColumn(_, _, _)
mentions(e, base, col) ==
    \/ columnMatches(e, base, col)
    \/ \E i \in DOMAIN e.es : referencesColumn(e.es[i], base, col)

ReferencesColumn(es, base, col) == \E i \in DOMAIN es : referencesColumn(es[i], base, col)

softReferenced(b, base) ==
    \/ ReferencesColumn(b.conds, base, "del")
    \/ \E j \in DOMAIN b.joins : ReferencesColumn(b.joins[j].on, base, "del")

softDeleteSQL(rc, b, t) ==
    IF b.unscoped \/ ~IsBase(t) THEN Out(rc, Empty)
    ELSE IF Bases[t.id].soft = "no" \/ softReferenced(b, t.id) THEN Out(rc, Empty)
    ELSE IF Bases[t.id].soft = "bad"
      THEN Out(Fail(FieldRender(rc, t.id, "del").rc, "soft delete type"), Empty)
    ELSE AsNode("auto", "live", Push(Begin(rc), FieldRender(rc, t.id, "del")))

-----------------------------------------------------------------------------
(* Tenants.  0 as a tenant value has not the column's Go type.              *)
CheckTenantValue(id) == id # 0

bindTenantLayer(rc, b) ==
    IF b.untenant THEN PushTenantDisabled(rc)
    ELSE IF b.hasTenantIDs THEN PushTenant(rc, b.tenantIDs) ELSE rc

seedTenant(rc, id) == IF id # NoTenant THEN SetTenant(rc, <<id>>) ELSE rc

tenantMarked(t) == IsBase(t) /\ Bases[t.id].tenant

checkTenantJoins(rc, main, joins) ==
    IF /\ ~rc.tenantDisabled
       /\ tenantMarked(main) \/ \E i \in DOMAIN joins : tenantMarked(joins[i].table)
       /\ \E i \in DOMAIN joins : joins[i].kind \in {"right", "full"}
    THEN Fail(rc, "tenant join") ELSE rc

AddArgs(acc, vs) == FoldLeft(LAMBDA a, v : Push(a, AddArg(a.rc, v)), acc, vs)

tenantPredicate(rc, t) ==
    IF rc.tenantDisabled \/ ~tenantMarked(t) THEN Out(rc, Empty)
    ELSE IF TenantIDs(rc) = <<>> THEN Out(Fail(rc, "tenant required"), Empty)
    ELSE IF \E i \in DOMAIN TenantIDs(rc) : ~CheckTenantValue(TenantIDs(rc)[i])
      THEN Out(Fail(rc, "tenant type"), Empty)
    ELSE AsNode("auto", "tenant",
                AddArgs(Push(Begin(rc), FieldRender(rc, t.id, "tid")), TenantIDs(rc)))

-----------------------------------------------------------------------------
(* Mutant: a left join has its predicates in the WHERE too. *)
joinSoftDeleteOfLeftInWhere(kind) == kind \in {"inner", "left", "innerLateral", "crossLateral"}

joinSoftDeleteInWhere(kind) == kind \in {"inner", "innerLateral", "crossLateral"}
IsLateral(kind) == kind \in {"leftLateral", "innerLateral", "crossLateral"}

joinKeywordSQL(rc, kind) ==
    IF IsLateral(kind) /\ ~DialectOf(rc).lateral THEN Fail(rc, "lateral") ELSE rc

CONSTANT Render(_, _, _)

RenderValue(h, rc, v) == IF v.k = "val" THEN AddArg(rc, v.a) ELSE Render(h, rc, v)

RenderNext(h, acc, es) == FoldLeft(LAMBDA a, e : Push(a, RenderValue(h, a.rc, e)), acc, es)
RenderAll(h, rc, es) == RenderNext(h, Begin(rc), es)

(* Mutant: the arguments of a raw fragment are not counted. *)
rawExprUncounted(rc, e) ==
    Out([rc EXCEPT !.args = @ \o e.a.args],
        Node("raw", e.a.sql, [i \in DOMAIN e.a.args |-> Leaf("ph", [v |-> e.a.args[i], n |-> 0])]))

(* A raw fragment takes its arguments and their numbers, its text stays.    *)
rawExpr(rc, e) ==
    Out([rc EXCEPT !.args = @ \o e.a.args, !.argIndex = @ + Len(e.a.args)],
        Node("raw", e.a.sql, [i \in DOMAIN e.a.args |-> Leaf("ph", [v |-> e.a.args[i], n |-> 0])]))

(* CASE, arithmetic, CAST, DISTINCT and an order's direction render their   *)
(* parts left to right.                                                     *)
Composite(h, rc, e) == AsNode(e.k, e.a, RenderAll(h, rc, e.es))

(* Comparison, LIKE, BETWEEN, IS NULL and IN: the column and then the other *)
(* side.  IN over no values is the empty string, after its column.          *)
fieldCondition(h, rc, e) ==
    IF e.k \in {"in", "notin"} /\ Len(e.es) = 1 THEN Out(RenderAll(h, rc, e.es).rc, Empty)
    ELSE Composite(h, rc, e)

(* AND, OR and NOT drop empty parts and are parenthesised.                  *)
Combined(k, acc) == Out(acc.rc, Clause(k, acc.ns))
groupCondition(h, rc, e) == Combined(e.k, RenderAll(h, rc, e.es))

existsCondition(h, rc, e) == AsNode("exists", e.a, RenderAll(h, rc, e.es))

(* A function's arguments are rendered, and put in the dialect's order.     *)
Called(spec, e, acc) ==
    Out(IF e.a.name \in spec.lacks THEN Fail(acc.rc, "function") ELSE acc.rc,
        Node("fn", e.a.name, RenderFunction(spec, e.a.name, SubSeq(acc.ns, 1, e.a.args))
                             \o SubSeq(acc.ns, e.a.args + 1, Len(acc.ns))))
FuncExpr(h, rc, e) == Called(DialectOf(rc), e, RenderAll(h, rc, e.es))

(* A query among the tables or beside others: its alias or its keyword, and *)
(* the query itself.                                                        *)
Queried(t, a, sub) == Out(sub.rc, Node(t, a, sub.n.kids))

(* A table of FROM or JOIN.  by tells the properties who reads it.          *)
Scan(r, base) ==
    Out(r.rc, Leaf("scan", [name |-> r.name, base |-> base, by |-> r.rc.path,
                            as |-> IF Bases[base].alias = "" THEN r.name
                                   ELSE <<"as", Bases[base].alias>>]))
renderTableName(h, rc, t) ==
    CASE t.k = "base" -> Scan(ResolveTableName(rc, t.id), t.id)
      [] t.k = "sub" -> Queried("derived", h[t.id].alias, Render(h, rc, Sub(t.id)))
      [] t.k = "cte" -> Out(rc, Leaf("cteRef", t.id))

-----------------------------------------------------------------------------
(* Mutant: AND between conditions as they are. *)
parenthesizeSQLNever(ns) == ns

(* Each condition of a WHERE or an ON is parenthesised.                     *)
parenthesizeSQL(ns) == [i \in DOMAIN ns |-> IF IsEmpty(ns[i]) THEN Empty ELSE Node("paren", 0, <<ns[i]>>)]

Parenthesized(acc) == [rc |-> acc.rc, ns |-> parenthesizeSQL(acc.ns)]

(* What the library adds for one table, after what is there.                *)
AddLive(acc, b, t) == Push(acc, softDeleteSQL(acc.rc, b, t))
AddTenant(acc, t) == Push(acc, tenantPredicate(acc.rc, t))
AutoPredicates(acc, b, t) == AddTenant(AddLive(acc, b, t), t)

(* JOIN t ON ...: the soft-delete and tenant predicates of an outer join    *)
(* are part of its ON, those of an inner join follow the WHERE.             *)
OnClause(b, j, on) ==
    AsClause("on", IF joinSoftDeleteInWhere(j.kind) THEN on ELSE AutoPredicates(on, b, j.table))
JoinOn(h, b, j, t) ==
    AsNode("join", j.kind, Push(Push(Begin(t.rc), t),
                                OnClause(b, j, Parenthesized(RenderAll(h, t.rc, j.on)))))
renderJoin(h, rc, b, j) ==
    JoinOn(h, b, j, renderTableName(h, joinKeywordSQL(rc, j.kind), j.table))

renderWhere(h, rc, b) ==
    LET inner == Filter(b.joins, LAMBDA j : joinSoftDeleteInWhere(j.kind))
        tables == <<b.from>> \o [i \in DOMAIN inner |-> inner[i].table]
    IN AsClause("where", FoldLeft(LAMBDA acc, t : AutoPredicates(acc, b, t),
                                  Parenthesized(RenderAll(h, rc, b.conds)), tables))

(* GROUP BY: WITH ROLLUP in the MySQL family, the extension otherwise.      *)
renderGroup(h, rc, b) ==
    IF b.groupBy = <<>> /\ b.groupExt = "none" THEN Out(rc, Empty)
    ELSE AsNode("group", b.groupExt, RenderAll(h, rc, b.groupBy \o FlattenSeq(b.sets)))

(* FOR UPDATE or the share lock, with SKIP LOCKED or NOWAIT.                *)
writeLock(rc, b) ==
    IF b.lock = "none"
      THEN Out(IF b.lockWait = "none" THEN rc ELSE Fail(rc, "lock wait"), Empty)
    ELSE IF b.lockWait = "none"
      THEN Out(rc, IF DialectOf(rc).omitLock THEN Empty ELSE Leaf("lock", b.lock))
    ELSE IF ~DialectOf(rc).lockWait THEN Out(Fail(rc, "lock wait dialect"), Empty)
    ELSE Out(rc, Leaf("lock", <<b.lock, b.lockWait>>))

RenderQueries(h, rc, qs, t) ==
    FoldLeft(LAMBDA acc, q : Push(acc, Queried(t, q.a, Render(h, acc.rc, Sub(q.q)))), Begin(rc), qs)

RenderJoins(h, rc, b) ==
    FoldLeft(LAMBDA acc, j : Push(acc, renderJoin(h, acc.rc, b, j)), Begin(rc), b.joins)

(* The parts of a SELECT in the order of its text.                          *)
Parts == <<"with", "list", "from", "joins", "where", "group", "having", "sets", "order", "lock">>
RenderPart(h, b, rc, part) ==
    CASE part = "with" -> AsClause(part, RenderQueries(h, rc, b.ctes, "cte"))
      [] part = "list" -> AsClause(part, RenderAll(h, rc, b.fields))
      [] part = "from" -> renderTableName(h, rc, b.from)
      [] part = "joins" -> AsClause(part, RenderJoins(h, rc, b))
      [] part = "where" -> renderWhere(h, rc, b)
      [] part = "group" -> renderGroup(h, rc, b)
      [] part = "having" -> AsClause(part, RenderAll(h, rc, b.having))
      [] part = "sets" -> AsClause(part, RenderQueries(h, rc, b.setOps, "setOp"))
      [] part = "order" -> AsClause(part, RenderAll(h, rc, b.orderBy))
      [] part = "lock" -> writeLock(rc, b)

(* The query's own shard value and tenant layer, its main table, and what   *)
(* is put back when it is rendered.                                         *)
Entered(rc, b, id) ==
    bindTenantLayer(SwapQueryShard([rc EXCEPT !.path = Append(@, id)], b.shard), b)
MainTable(rc, b) ==
    [checkTenantJoins(rc, b.from, b.joins) EXCEPT !.mainTable = IF IsBase(b.from) THEN b.from.id ELSE @]
Restored(rc, prev) == [PopTenant(RestoreQueryShard(rc, prev), prev) EXCEPT !.path = prev.path]

Selected(b, prev, acc) ==
    Out(Restored(acc.rc, prev),
        Node("select", [distinct |-> b.distinct, page |-> RenderLimit(b.limit, b.offset)], acc.ns))

renderSelect(h, rc, b, id) ==
    IF b.buildErr # "" THEN Out(Fail(rc, b.buildErr), Empty)
    ELSE Selected(b, rc, FoldLeft(LAMBDA acc, part : Push(acc, RenderPart(h, b, acc.rc, part)),
                                  Begin(MainTable(Entered(rc, b, id), b)), Parts))

Subquery(h, rc, id) == AsNode("sub", h[id].alias, Push(Begin(rc), renderSelect(h, rc, h[id], id)))

RenderExpression(h, rc, e) ==
    CASE e.k = "col" -> FieldRender(rc, e.a.base, e.a.col)
      [] e.k = "free" -> Out(rc, Leaf("col", [prefix |-> <<"as", e.a.prefix>>, col |-> e.a.col,
                                              base |-> "none", by |-> rc.path]))
      [] e.k = "raw" -> rawExpr(rc, e)
      [] e.k = "sub" -> Subquery(h, rc, e.a)
      [] e.k \in {"cmp", "between", "isnull", "in", "notin", "insub"} -> fieldCondition(h, rc, e)
      [] e.k = "exists" -> existsCondition(h, rc, e)
      [] e.k = "fn" -> FuncExpr(h, rc, e)
      [] e.k = "excluded" -> Out(rc, Leaf("excluded", e.a))
      [] e.k \in {"and", "or", "not"} -> groupCondition(h, rc, e)
      [] OTHER -> Composite(h, rc, e)

-----------------------------------------------------------------------------
(* The dialect's say before anything is rendered: GROUP BY extensions of    *)
(* the builder and of the subqueries its expressions contain.               *)
CONSTANT WalkExpression(_, _, _)

ValidateQuery(h, b, d) ==
    LET ons == FlattenSeq([j \in DOMAIN b.joins |-> b.joins[j].on])
        exprs == b.fields \o b.conds \o ons \o b.groupBy \o b.having \o b.orderBy
    IN /\ b.groupExt # "none" => b.groupExt \in LookupDialect(d).groups
       /\ \A i \in DOMAIN exprs : WalkExpression(h, exprs[i], d)

Walk(h, e, d) ==
    /\ e.k = "sub" => ValidateQuery(h, h[e.a], d)
    /\ e.k = "fn" => e.a.name \notin Validated \cap LookupDialect(d).lacks
    /\ \A i \in DOMAIN e.es : WalkExpression(h, e.es[i], d)

ValidateDialect(h, id, d) == WalkExpression(h, Sub(id), d)

(* [err, n, args]: a statement, or the first error. *)
Refused(e) == [err |-> e, n |-> Empty, args |-> <<>>]
Rendered(sub) ==
    IF sub.rc.err # "" THEN Refused(sub.rc.err)
    ELSE [err |-> "", n |-> sub.n.kids[1], args |-> sub.rc.args]

ToSql(h, id, d) ==
    IF h[id].buildErr # "" THEN Refused(h[id].buildErr)
    ELSE IF ~ValidateDialect(h, id, d) THEN Refused("dialect")
    ELSE Rendered(Render(h, seedTenant(NewRenderContext(d), h[id].ctxTenant), Sub(id)))

-----------------------------------------------------------------------------
(* Clone gives [h, id]: the builders in FROM, in set operations and in CTEs *)
(* are cloned with it, those of joins and of expressions are shared.        *)
CONSTANT CloneBuilder(_, _)

CloneOne(acc, q, c) == [h |-> c.h, qs |-> Append(acc.qs, [q EXCEPT !.q = c.id])]
CloneQueries(h, qs) ==
    FoldLeft(LAMBDA acc, q : CloneOne(acc, q, CloneBuilder(acc.h, q.q)), [h |-> h, qs |-> <<>>], qs)

Added(h, b) == [h |-> Append(h, b), id |-> Len(h) + 1]
CloneFrom(h, b) ==
    IF b.from.k = "sub"
      THEN LET c == CloneBuilder(h, b.from.id) IN Added(c.h, [b EXCEPT !.from.id = c.id])
      ELSE Added(h, b)
CloneCtes(b, ctes) == CloneFrom(ctes.h, [b EXCEPT !.ctes = ctes.qs])
CloneSetOps(b, sets) == CloneCtes([b EXCEPT !.setOps = sets.qs], CloneQueries(sets.h, b.ctes))
CloneOf(h, id) == CloneSetOps(h[id], CloneQueries(h, h[id].setOps))

(* The list query without its page and order, as a new builder.             *)
Unpaged(c) == [c EXCEPT !.h[c.id].limit = 0, !.h[c.id].offset = 0, !.h[c.id].orderBy = <<>>]
unbounded(h, id) == Unpaged(CloneBuilder(h, id))

(* Mutant: a DISTINCT query is counted in place. *)
countWrappedNotDistinct(b) == b.groupBy # <<>> \/ b.groupExt # "none" \/ b.setOps # <<>>

countWrapped(b) == b.distinct \/ b.groupBy # <<>> \/ b.groupExt # "none" \/ b.setOps # <<>>

(* The query one of whose rows is e for every row of the list query.        *)
Wrapped(inner, e, tenant) ==
    Added([inner.h EXCEPT ![inner.id].alias = "t"],
          [SelectBuilder EXCEPT !.fields = <<e>>, !.ctxTenant = tenant,
                                !.from = TableRef("sub", inner.id)])
InPlace(inner, e) == [inner EXCEPT !.h[inner.id].fields = <<e>>]
Derived(h, id, e) ==
    IF countWrapped(h[id]) THEN Wrapped(unbounded(h, id), e, h[id].ctxTenant)
    ELSE InPlace(unbounded(h, id), e)

countBuilderOf(h, id) == Derived(h, id, Raw("COUNT(*)", <<>>))
existsBuilder(h, id) == Derived(h, id, Raw("1", <<>>))

SQLOf(built, d) == ToSql(built.h, built.id, d)
checkedSQL(h, id, d, built) ==
    IF h[id].buildErr # "" THEN Refused(h[id].buildErr)
    ELSE IF ~ValidateDialect(h, id, d) THEN Refused("dialect")
    ELSE SQLOf(built, d)

countSQL(h, id, d) == checkedSQL(h, id, d, countBuilderOf(h, id))
existsTest(q) == IF q.err # "" THEN q ELSE [q EXCEPT !.n = RenderExists(q.n)]
existsSQL(h, id, d) == existsTest(checkedSQL(h, id, d, existsBuilder(h, id)))
=============================================================================

--------------------------------- MODULE Dml ---------------------------------
(***************************************************************************)
(* Rendering of INSERT, INSERT ... SELECT, UPDATE, DELETE and the batch     *)
(* update, with the tenant checks of written values.  A DMLBuilder is kept  *)
(* in the heap with the queries it reads.                                   *)
(***************************************************************************)
EXTENDS Query, InsertChunks

(* A written column: [col, v], v being a value, an expression or NULL.      *)
columnValue(col, v) == [col |-> col, v |-> v]
SqlNull == Ex("null", 0, <<>>)
IsExpression(v) == v.k \notin {"val", "null"}

DMLBuilder ==
    [kind |-> "none", table |-> "none", insertColumns |-> <<>>, insertRows |-> <<>>, batch |-> 0,
     setValues |-> <<>>, batchUpdateRows |-> <<>>, updateKeys |-> <<>>, selectBuilder |-> 0,
     conds |-> <<>>, unscoped |-> FALSE, untenant |-> FALSE, hasTenantIDs |-> FALSE,
     tenantIDs |-> <<>>, ctxTenant |-> NoTenant, upsert |-> <<>>, joins |-> <<>>,
     returning |-> <<>>, shard |-> NoShard, err |-> ""]

(* The assignments of an upsert are a map; they are rendered sorted by name. *)
NoUpdates == [c \in {} |-> SqlNull]
ColumnOrder == <<"TID", "del", "id", "ref", "tid">>
sortedMapKeys(f) == Filter(ColumnOrder, LAMBDA c : c \in DOMAIN f)
Assignments(f) == [i \in DOMAIN sortedMapKeys(f) |-> columnValue(sortedMapKeys(f)[i], f[sortedMapKeys(f)[i]])]

(* Two spellings of one column are the same where the dialect folds them.   *)
Folded(rc, c) == IF DialectOf(rc).fold THEN Lower(c) ELSE c

(* Mutant: the spelling counts in every dialect. *)
sameColumnExactly(rc, meta, c) == meta = c

sameColumn(rc, meta, c) == meta = c \/ (DialectOf(rc).fold /\ Lower(meta) = Lower(c))

-----------------------------------------------------------------------------
(* Tenant checks: each gives an error or "".  ids are the tenants in force. *)
statementTables(b) ==
    <<TableRef("base", b.table)>> \o [i \in DOMAIN b.joins |-> b.joins[i].table]

matchingTenantFields(rc, b, c) ==
    IF b.untenant THEN {}
    ELSE {i \in DOMAIN statementTables(b) :
            tenantMarked(statementTables(b)[i]) /\ sameColumn(rc, "tid", c)}

(* A written tenant column has the one tenant in force for its value.       *)
TenantValueError(ids, v) ==
    IF v.k = "null" \/ IsExpression(v) THEN "tenant value"
    ELSE IF ~CheckTenantValue(v.a) \/ v.a # ids[1] THEN "tenant value" ELSE ""

requireSingleTenant(rc) ==
    IF TenantIDs(rc) = <<>> THEN "tenant required"
    ELSE IF Len(TenantIDs(rc)) # 1 THEN "tenant many" ELSE ""

rejectTenantWrite(rc, b, cv) ==
    LET single == requireSingleTenant(rc) IN
    IF matchingTenantFields(rc, b, cv.col) = {} THEN ""
    ELSE IF single # "" THEN single
    ELSE IF ~CheckTenantValue(TenantIDs(rc)[1]) THEN "tenant type"
    ELSE TenantValueError(TenantIDs(rc), cv.v)

(* The first error of a list of them. *)
FirstError(es) ==
    LET bad == {i \in DOMAIN es : es[i] # ""} IN IF bad = {} THEN "" ELSE es[Min(bad)]

repeatedTenantColumn(rc, b, sets) ==
    \E i, j \in DOMAIN sets :
        /\ i < j /\ Folded(rc, sets[i].col) = Folded(rc, sets[j].col)
        /\ matchingTenantFields(rc, b, sets[j].col) # {}

(* No tenant column is set twice, under whatever spelling.                  *)
rejectTenantSets(rc, b, sets) ==
    IF repeatedTenantColumn(rc, b, sets) THEN "tenant repeated"
    ELSE FirstError([i \in DOMAIN sets |-> rejectTenantWrite(rc, b, sets[i])])

Guarded(b) == ~b.untenant /\ Bases[b.table].tenant

rejectTenantInsert(rc, b) ==
    LET tenants(row) == Filter(row, LAMBDA cv : sameColumn(rc, "tid", cv.col))
        check(row) == IF Len(tenants(row)) > 1 THEN "tenant repeated"
                      ELSE IF tenants(row) = <<>> THEN "tenant column"
                      ELSE TenantValueError(TenantIDs(rc), tenants(row)[1].v)
    IN IF ~Guarded(b) THEN ""
       ELSE IF requireSingleTenant(rc) # "" THEN requireSingleTenant(rc)
       ELSE FirstError([i \in DOMAIN b.insertRows |-> check(b.insertRows[i])])

(* The name a select item gives its column, "" when it has none.            *)
NameOf(e) == IF e.k \in {"col", "free"} THEN e.a.col ELSE ""

rejectTenantInsertFrom(h, rc, b) ==
    LET items == h[b.selectBuilder].fields
        tenants == Filter(items, LAMBDA e : sameColumn(rc, "tid", NameOf(e)))
    IN IF ~Guarded(b) THEN ""
       ELSE IF requireSingleTenant(rc) # "" THEN requireSingleTenant(rc)
       ELSE IF items = <<>> \/ \E i \in DOMAIN items : NameOf(items[i]) = "" THEN "named columns"
       ELSE IF Len(tenants) > 1 THEN "tenant repeated"
       ELSE IF tenants = <<>> THEN "tenant column" ELSE ""

rejectTenantUpsert(rc, b) ==
    LET u == b.upsert[1] IN
    IF b.upsert = <<>> \/ ~Guarded(b) THEN ""
    ELSE IF DialectOf(rc).target /\ ~\E i \in DOMAIN u.cols : sameColumn(rc, "tid", u.cols[i])
      THEN "tenant conflict target"
    ELSE IF u.nothing THEN "" ELSE rejectTenantSets(rc, b, Assignments(u.updates))

-----------------------------------------------------------------------------
installShard(rc, b) ==
    [SwapQueryShard(rc, b.shard) EXCEPT !.mainTable = b.table]

installTenant(rc, b) ==
    LET seeded == seedTenant(rc, b.ctxTenant)
    IN IF b.untenant THEN PushTenantDisabled(seeded)
       ELSE IF b.hasTenantIDs THEN PushTenant(seeded, b.tenantIDs) ELSE seeded

Begun(h, id, d) ==
    [installTenant(installShard(NewRenderContext(d), h[id]), h[id]) EXCEPT !.path = <<id>>]

(* A statement: the first error of its parts, or its text and arguments.    *)
Statement(err, rc, n) ==
    IF err # "" THEN Refused(err)
    ELSE IF rc.err # "" THEN Refused(rc.err)
    ELSE [err |-> "", n |-> n, args |-> rc.args]

Rendering(err, f) == [err |-> err, rc |-> f.rc, n |-> f.n]
renderReturning(h, rc, b) ==
    IF b.returning = <<>> THEN Rendering("", Out(rc, Empty))
    ELSE IF ~DialectOf(rc).returning THEN Rendering("returning", Out(rc, Empty))
    ELSE Rendering("", AsClause("returning", RenderAll(h, rc, b.returning)))

(* A statement's text, put together, with its RETURNING.                    *)
AddReturning(n, ret) == Statement(ret.err, ret.rc, [n EXCEPT !.kids = Append(@, ret.n)])
Complete(h, b, stmt, rc) ==
    IF stmt.err # "" THEN Refused(stmt.err) ELSE AddReturning(stmt.n, renderReturning(h, rc, b))

(* col = value, in the order of the assignments.                            *)
SetNodes(sets, acc) ==
    Out(acc.rc, Node("sets", 0, [i \in DOMAIN sets |-> Node("set", sets[i].col, <<acc.ns[i]>>)]))
renderSets(h, rc, sets) == SetNodes(sets, RenderAll(h, rc, [i \in DOMAIN sets |-> sets[i].v]))

Conditions(t, acc) == Out(acc.rc, Node(t, 0, Present(acc.ns)))
TenantOfOuter(acc, j) == IF joinSoftDeleteInWhere(j.kind) THEN acc ELSE AddTenant(acc, j.table)
renderJoinCond(h, rc, j) ==
    Conditions("on", TenantOfOuter(Parenthesized(RenderAll(h, rc, j.on)), j))

Joined(j, t, on) == Out(on.rc, [kind |-> j.kind, table |-> t.n, on |-> on.n])
JoinOnCond(h, j, t) == Joined(j, t, renderJoinCond(h, t.rc, j))
joinRenders(h, rc, b) ==
    FoldLeft(LAMBDA acc, j : Push(acc, JoinOnCond(h, j, renderTableName(h, acc.rc, j.table))),
             Begin(rc), b.joins)

(* UPDATE and DELETE have no soft-delete predicate, only the tenants'.      *)
dmlWhere(h, rc, b) ==
    LET main == TableRef("base", b.table)
        inner == Filter(b.joins, LAMBDA j : joinSoftDeleteInWhere(j.kind))
        tables == <<main>> \o [i \in DOMAIN inner |-> inner[i].table]
    IN Conditions("where", FoldLeft(AddTenant,
           Parenthesized(RenderAll(h, checkTenantJoins(rc, main, b.joins), b.conds)), tables))

-----------------------------------------------------------------------------
Once(s) == FoldLeft(LAMBDA acc, c : IF Contains(acc, c) THEN acc ELSE Append(acc, c), <<>>, s)

(* Mutant: the values of a row in the order they were given in. *)
ValuesAsGiven(columns, row) == [j \in DOMAIN row |-> row[j].v]

(* The values of a row in the order of the statement's columns. *)
ValuesInOrder(columns, row) ==
    [j \in DOMAIN columns |-> row[Min({i \in DOMAIN row : row[i].col = columns[j]})].v]

(* Rows of one column set, in the order of its first row.                   *)
InsertColumns(b) == IF b.insertRows = <<>> THEN <<>> ELSE Once(ColumnsOf(b.insertRows[1]))
renderRows(h, rc, b) ==
    FoldLeft(LAMBDA acc, row :
               Push(acc, AsNode("row", 0, RenderAll(h, acc.rc, ValuesInOrder(InsertColumns(b), row)))),
             Begin(rc), b.insertRows)

(* The parts of the statements; marks counts the arguments after each part. *)
TargetName(r) == Out(r.rc, r.name)
FirstKid(f) == Out(f.rc, f.n.kids[1])
AsList(acc) == Out(acc.rc, acc.ns)
DmlPart(h, b, sets, rc, part) ==
    CASE part = "target" -> renderTableName(h, rc, TableRef("base", b.table))
      [] part = "name" -> TargetName(ResolveTableName(rc, b.table))
      [] part = "values" -> AsClause("values", renderRows(h, rc, b))
      [] part = "query" -> FirstKid(Render(h, rc, Sub(b.selectBuilder)))
      [] part = "sets" -> IF sets = <<>> THEN Out(rc, Empty) ELSE renderSets(h, rc, sets)
      [] part = "joins" -> AsList(joinRenders(h, rc, b))
      [] part = "where" -> dmlWhere(h, rc, b)

Mark(acc, r) == [ns |-> Append(acc.ns, r.n), rc |-> r.rc, marks |-> Append(acc.marks, Len(r.rc.args))]
DmlParts(h, b, sets, rc, parts) ==
    FoldLeft(LAMBDA acc, part : Mark(acc, DmlPart(h, b, sets, acc.rc, part)),
             [ns |-> <<>>, rc |-> rc, marks |-> <<>>], parts)

InsertNode(b, columns, conflict, target, kids, name) ==
    [err |-> "", n |-> Node("insert", [name |-> name, base |-> b.table, columns |-> columns,
                                       conflict |-> conflict, target |-> target], kids)]

UpsertSets(b) == IF b.upsert = <<>> THEN <<>>
                 ELSE IF b.upsert[1].nothing THEN <<>> ELSE Assignments(b.upsert[1].updates)
ConflictOf(b) == IF b.upsert = <<>> THEN "none"
                 ELSE IF b.upsert[1].nothing THEN "nothing" ELSE "update"
InsertRefusal(rc, b) ==
    FirstError(<<rejectTenantInsert(rc, b), rejectTenantUpsert(rc, b),
        IF b.insertRows = <<>> THEN "no rows" ELSE "",
        IF Len(groupInsertRows(b.insertRows)) > 1 THEN "mixed columns" ELSE "",
        IF b.upsert = <<>> THEN "" ELSE RenderUpsert(DialectOf(rc), b.upsert[1], InsertColumns(b))>>)
Inserted(h, b, acc) ==
    Complete(h, b, InsertNode(b, InsertColumns(b), ConflictOf(b),
                              IF b.upsert = <<>> THEN <<>> ELSE b.upsert[1].cols,
                              <<acc.ns[1], acc.ns[3]>>, acc.ns[2]), acc.rc)
renderInsert(h, rc, b) ==
    IF InsertRefusal(rc, b) # "" THEN Refused(InsertRefusal(rc, b))
    ELSE Inserted(h, b, DmlParts(h, b, UpsertSets(b), rc, <<"values", "name", "sets">>))

(* INSERT ... SELECT names the columns of the select items, or all of them. *)
SelectedColumns(h, b) ==
    LET items == h[b.selectBuilder].fields
        named == Filter([i \in DOMAIN items |-> NameOf(items[i])], LAMBDA c : c # "")
    IN IF named = <<>> THEN TableColumns ELSE named
InsertedFrom(h, b, acc) ==
    Complete(h, b, InsertNode(b, SelectedColumns(h, b), "none", <<>>,
                              <<acc.ns[1], Empty>>, acc.ns[2]), acc.rc)
renderInsertFrom(h, rc, b) ==
    IF rejectTenantInsertFrom(h, rc, b) # "" THEN Refused(rejectTenantInsertFrom(h, rc, b))
    ELSE InsertedFrom(h, b, DmlParts(h, b, <<>>, rc, <<"query", "name">>))

(* Mutant: the arguments in the order they were collected. *)
JoinArgsAsCollected(spec, b, acc) == acc.rc

(* UPDATE collects SET, the joins and WHERE in this order; the MySQL family *)
(* has the joins first, so its arguments are put into that order.           *)
JoinArgsFirst(spec, b, acc) ==
    LET between(i, j) == SubSeq(acc.rc.args, acc.marks[i] + 1, acc.marks[j])
    IN IF b.joins = <<>> \/ ~spec.joinsBeforeSet THEN acc.rc
       ELSE [acc.rc EXCEPT !.args = SubSeq(@, 1, acc.marks[1]) \o between(2, 3)
                                      \o between(1, 2) \o between(3, 4)]

Updated(h, b, spec, acc) ==
    Complete(h, b, RenderUpdate(spec, acc.ns[1], acc.ns[2], acc.ns[4], acc.ns[3]),
             JoinArgsFirst(spec, b, acc))
renderUpdateStatement(h, rc, b, sets) ==
    Updated(h, b, DialectOf(rc), DmlParts(h, b, sets, rc, <<"target", "sets", "joins", "where">>))

Deleted(h, b, spec, acc) ==
    Complete(h, b, RenderDelete(spec, acc.ns[1], acc.ns[2], acc.ns[3]), acc.rc)

(* DELETE from a table with a soft-delete column sets the column.           *)
SoftDelete(b) == b.kind = "delete" /\ ~b.unscoped /\ Bases[b.table].soft # "no"
renderDelete(h, rc, b) ==
    Deleted(h, b, DialectOf(rc), DmlParts(h, b, <<>>, rc, <<"target", "joins", "where">>))

UpdateSets(b) == IF b.kind = "delete" THEN <<columnValue("del", Val(1))>> ELSE b.setValues
UpdateRefusal(rc, b) ==
    IF b.kind = "delete" THEN IF Bases[b.table].soft = "bad" THEN "soft delete type" ELSE ""
    ELSE IF b.setValues = <<>> THEN "no sets" ELSE rejectTenantSets(rc, b, b.setValues)
renderUpdate(h, rc, b) ==
    IF UpdateRefusal(rc, b) # "" THEN Refused(UpdateRefusal(rc, b))
    ELSE renderUpdateStatement(h, rc, b, UpdateSets(b))

RenderDml(h, rc, b) ==
    CASE b.kind = "insert" -> renderInsert(h, rc, b)
      [] b.kind = "insertFrom" -> renderInsertFrom(h, rc, b)
      [] b.kind = "update" \/ SoftDelete(b) -> renderUpdate(h, rc, b)
      [] b.kind = "delete" /\ ~SoftDelete(b) -> renderDelete(h, rc, b)

ToSqlOf(h, id, d) ==
    IF h[id].err # "" THEN Refused(h[id].err)
    ELSE IF h[id].kind = "update" /\ h[id].batchUpdateRows # <<>> THEN Refused("use Exec")
    ELSE RenderDml(h, Begun(h, id, d), h[id])

-----------------------------------------------------------------------------
(* A batch update is one UPDATE for each record: its key columns choose the *)
(* row and the others are set.  A record of keys alone is left out.         *)
KeysOf(b) == IF b.updateKeys # <<>> THEN b.updateKeys ELSE Bases[b.table].primary

(* Mutant: only the first key column is looked at. *)
IsKeyFirst(b, cv) == cv.col = KeysOf(b)[1]

IsKey(b, cv) == Contains(KeysOf(b), cv.col)
SetsOf(b, row) == Filter(row, LAMBDA cv : ~IsKey(b, cv))
WhereOf(b, row) == Filter(row, LAMBDA cv : IsKey(b, cv))

validateBatchUpdateKeys(b) ==
    \A i \in DOMAIN b.batchUpdateRows :
        \A k \in DOMAIN KeysOf(b) :
            LET row == b.batchUpdateRows[i]
                of == {j \in DOMAIN row : row[j].col = KeysOf(b)[k]}
            IN of # {} /\ row[Max(of)].v.k # "null"

(* The keys are compared before the caller's conditions.                    *)
KeyCond(p, base, cv) ==
    AsNode("cmp", "=", AddArgs(Push(Begin(p.rc), Reference(p, base, cv.col)), <<cv.v.a>>))
keyConds(rc, b, row) ==
    FoldLeft(LAMBDA acc, cv : Push(acc, KeyCond(ResolveTableName(acc.rc, b.table), b.table, cv)),
             Begin(rc), WhereOf(b, row))
BatchPart(h, b, row, rc, part) ==
    CASE part = "sets" -> renderSets(h, rc, SetsOf(b, row))
      [] part = "name" -> TargetName(ResolveTableName(rc, b.table))
      [] part = "keys" -> AsList(keyConds(rc, b, row))
      [] part = "where" -> dmlWhere(h, rc, b)
BatchNode(b, acc) ==
    LET name == acc.ns[2]
        scan == Leaf("scan", [name |-> name, base |-> b.table, by |-> acc.rc.path, as |-> name])
    IN Node("update", 0, <<scan, acc.ns[1], Node("where", 0, acc.ns[3] \o acc.ns[4].kids)>>)
Batched(err, b, acc) == Statement(err, acc.rc, BatchNode(b, acc))
BatchRow(h, b, rc, row) ==
    Batched(rejectTenantSets(rc, b, SetsOf(b, row)), b,
            FoldLeft(LAMBDA acc, part : Push(acc, BatchPart(h, b, row, acc.rc, part)),
                     Begin(rc), <<"sets", "name", "keys", "where">>))
BatchStatement(h, id, d, row) == BatchRow(h, h[id], Begun(h, id, d), row)

(* All the statements, or one error. *)
BatchRows(b) == Filter(b.batchUpdateRows, LAMBDA row : SetsOf(b, row) # <<>>)
BatchRefusal(b) ==
    FirstError(<<IF b.joins # <<>> THEN "batch join" ELSE "",
                 IF KeysOf(b) = <<>> THEN "no keys" ELSE "",
                 IF validateBatchUpdateKeys(b) THEN "" ELSE "key columns",
                 IF BatchRows(b) = <<>> THEN "no records" ELSE "">>)
AllOrError(stmts) ==
    LET err == FirstError([i \in DOMAIN stmts |-> stmts[i].err])
    IN IF err # "" THEN <<Refused(err)>> ELSE stmts
renderBatchDML(h, id, d) ==
    IF BatchRefusal(h[id]) # "" THEN <<Refused(BatchRefusal(h[id]))>>
    ELSE AllOrError([i \in DOMAIN BatchRows(h[id]) |-> BatchStatement(h, id, d, BatchRows(h[id])[i])])

(* The statements of one Exec.  An insert in several chunks renders each    *)
(* when its turn comes.                                                     *)
Chunks(b) == IF b.kind = "insert" /\ Len(splitInsertChunks(b.insertRows, b.batch)) > 1
               THEN splitInsertChunks(b.insertRows, b.batch) ELSE <<b.insertRows>>
Statements(h, id, d) ==
    IF h[id].err = "" /\ h[id].kind = "update" /\ h[id].batchUpdateRows # <<>>
      THEN renderBatchDML(h, id, d)
    ELSE [i \in DOMAIN Chunks(h[id]) |->
            ToSqlOf([h EXCEPT ![id].insertRows = Chunks(h[id])[i]], id, d)]

(* Value and Column read what one RETURNING item gives.                     *)
readReturning(h, id, d) ==
    IF Len(h[id].returning) # 1 THEN <<Refused("one column")>> ELSE <<ToSqlOf(h, id, d)>>

WithQuery(c, b) == Append(c.h, [b EXCEPT !.selectBuilder = c.id])
CloneDML(h, id) ==
    IF h[id].selectBuilder = 0 THEN Append(h, h[id])
    ELSE WithQuery(CloneBuilder(h, h[id].selectBuilder), h[id])
=============================================================================

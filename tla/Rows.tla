--------------------------------- MODULE Rows ---------------------------------
(***************************************************************************)
(* What the database answers to a rendered query, over small tables.  SQL   *)
(* itself is external to the library; it is written down here so that the   *)
(* properties can speak of rows instead of text.                            *)
(*                                                                         *)
(* A query is evaluated in one of two ways.  With q.view = FALSE it is the  *)
(* text: every table is read whole and every predicate of the text counts.  *)
(* With q.view = TRUE it is what the builders promise: each table is a view *)
(* that holds only the rows its reader may see, and the predicates the      *)
(* library added are ignored.  The two must agree.                          *)
(***************************************************************************)
EXTENDS Query

CONSTANT Null       \* SQL NULL, a value no column holds otherwise
ASSUME NullAssumption == Null \notin {0, 1}

(* Truth values are 1, 0 and Null. *)
Truth(p) == IF p THEN 1 ELSE 0
AllOf(vs) == IF 0 \in vs THEN 0 ELSE IF Null \in vs THEN Null ELSE 1
AnyOf(vs) == IF 1 \in vs THEN 1 ELSE IF Null \in vs THEN Null ELSE 0

Compare(op, l, r) ==
    IF l = Null \/ r = Null THEN Null
    ELSE Truth(CASE op = "=" -> l = r [] op = "!=" -> l # r
                 [] op = ">" -> l > r [] op = "<" -> l < r)

(* A binding is what a name of a FROM stands for: [as, cols, vals].  An     *)
(* environment is a sequence of them, those of the inner query first.       *)
Cols == TableColumns
Lookup(env, prefix, col) ==
    LET named == {i \in DOMAIN env : env[i].as = prefix}
        b == env[Min(named)]
        is == {i \in DOMAIN b.cols : b.cols[i] = col}
    IN IF named = {} THEN Null ELSE IF is = {} THEN Null ELSE b.vals[Min(is)]
Padded(bs) == [i \in DOMAIN bs |-> [bs[i] EXCEPT !.vals = [j \in DOMAIN @ |-> Null]]]

(* The tenants a table read along a path of builders is limited to, from    *)
(* the innermost statement of the path that says anything, or the request.  *)
Everyone == <<>>
IntendedTenants(h, path, request) ==
    LET says == {i \in DOMAIN path : h[path[i]].untenant \/ h[path[i]].hasTenantIDs}
        last == h[path[Max(says)]]
    IN IF says = {} THEN <<request>>
       ELSE IF last.untenant THEN Everyone ELSE last.tenantIDs

(* Statements that write read soft-deleted rows too. *)
IsDML(b) == "kind" \in DOMAIN b

Visible(q, scan, row) ==
    LET base == Bases[scan.base]
        reader == q.h[Last(scan.by)]
        ids == IntendedTenants(q.h, scan.by, q.request)
    IN /\ base.tenant /\ ids # Everyone => \E i \in DOMAIN ids : ids[i] = row[2]
       /\ base.soft = "yes" /\ ~IsDML(reader) /\ ~reader.unscoped /\ ~softReferenced(reader, scan.base) => row[3] = 0

(* The column names of a query, of a table's columns for SELECT *.          *)
ColumnName(n) == IF n.t = "col" THEN n.a.col ELSE n.t
OutputColumns(n) ==
    LET list == n.kids[2].kids
    IN IF list = <<>> THEN Cols ELSE [i \in DOMAIN list |-> ColumnName(list[i])]

CONSTANT Eval(_, _, _)

(* AND of parts in text: a bare "v OR FALSE" among them splits the list,    *)
(* because AND binds tighter.                                               *)
AndNext(acc, n, env, q) ==
    IF n.t = "raw" /\ n.a = "or"
      THEN [or |-> AnyOf({acc.or, AllOf({acc.and, Truth(n.kids[1].a.v # 0)})}), and |-> 0]
    ELSE [acc EXCEPT !.and = AllOf({@, Eval(n, env, q)})]
Either(r) == AnyOf({r.or, r.and})
AndText(ns, env, q) ==
    Either(FoldLeft(LAMBDA acc, n : AndNext(acc, n, env, q), [or |-> 0, and |-> 1], ns))

(* The rows of one table of a FROM, each as the bindings it adds.           *)
Bound(as, rows) == [i \in DOMAIN rows |-> <<[as |-> <<"as", as>>, cols |-> rows[i].cols, vals |-> rows[i].vals]>>]
ScanRows(scan, rows) ==
    [i \in DOMAIN rows |-> <<[as |-> scan.as, cols |-> Cols, vals |-> rows[i]]>>]
Seen(q, scan, rows) == IF q.view THEN SelectSeq(rows, LAMBDA r : Visible(q, scan, r)) ELSE rows
Stored(db, name) == IF name \in DOMAIN db THEN db[name] ELSE <<>>
EvalTable(n, env, q) ==
    CASE n.t = "scan" -> ScanRows(n.a, Seen(q, n.a, Stored(q.db, n.a.name)))
      [] n.t = "derived" -> Bound(n.a, Eval(n.kids[1], env, q))
      [] n.t = "cteRef" -> Bound(n.a, Stored(q.db, <<"cte", n.a>>))

(* A join keeps the row of an outer join that matches nothing, padded.      *)
JoinPairs(e, right, on, env, q) ==
    Filter([i \in DOMAIN right |-> e \o right[i]], LAMBDA p : Eval(on, p \o env, q) = 1)
Blank(t) ==
    LET cols == IF t.t = "derived" THEN OutputColumns(t.kids[1]) ELSE Cols
    IN Padded(<<[as |-> IF t.t = "scan" THEN t.a.as ELSE <<"as", t.a>>, cols |-> cols, vals |-> cols]>>)
PaddedIfOuter(e, n, pairs) ==
    IF pairs = <<>> /\ n.a \in {"left", "leftLateral"} THEN <<e \o Blank(n.kids[1])>> ELSE pairs
JoinRow(e, n, env, q) ==
    PaddedIfOuter(e, n,
        JoinPairs(e, EvalTable(n.kids[1], IF IsLateral(n.a) THEN e \o env ELSE env, q), n.kids[2], env, q))
EvalJoin(left, n, env, q) == FlattenSeq([i \in DOMAIN left |-> JoinRow(left[i], n, env, q)])

Distinct(rows) ==
    FoldLeft(LAMBDA acc, r : IF r \in ToSet(acc) THEN acc ELSE Append(acc, r), <<>>, rows)

SetOp(op, rows, more) ==
    CASE op = "unionAll" -> rows \o more
      [] op = "union" -> Distinct(rows \o more)
      [] op = "intersect" -> Distinct(SelectSeq(rows, LAMBDA r : r \in ToSet(more)))
      [] op = "except" -> Distinct(SelectSeq(rows, LAMBDA r : r \notin ToSet(more)))

WithCte(q, c, env) == [q EXCEPT !.db = PutAt(@, <<"cte", c.a>>, Eval(c.kids[1], env, q))]
(* The rows of a table with those joined to them that pass a condition.     *)
Matching(rows, joins, where, env, q) ==
    Filter(FoldLeft(LAMBDA left, j : EvalJoin(left, j, env, q), rows, joins),
           LAMBDA e : Eval(where, e \o env, q) = 1)
Row(list, e, env, q) ==
    IF list = <<>> THEN [cols |-> FlattenSeq([i \in DOMAIN e |-> e[i].cols]),
                         vals |-> FlattenSeq([i \in DOMAIN e |-> e[i].vals])]
    ELSE [cols |-> [i \in DOMAIN list |-> ColumnName(list[i])],
          vals |-> [i \in DOMAIN list |-> Eval(list[i], e \o env, q)]]
Counts(list) == Len(list) = 1 /\ list[1].t = "raw" /\ list[1].a = "COUNT(*)"
ListRows(list, kept, env, q) ==
    IF Counts(list) THEN <<[cols |-> <<"n">>, vals |-> <<Len(kept)>>]>>
    ELSE [i \in DOMAIN kept |-> Row(list, kept[i], env, q)]
Grouped(n, rows) == IF n.a.distinct \/ ~IsEmpty(n.kids[6]) THEN Distinct(rows) ELSE rows
Skipped(rows, k) == IF k > Len(rows) THEN <<>> ELSE SubSeq(rows, k + 1, Len(rows))
Limited(rows, k) == IF k > 0 /\ k < Len(rows) THEN SubSeq(rows, 1, k) ELSE rows

(* The rows of a query, [cols, vals] each, in the order of its tables.      *)
AllRows(n, rows, env, q) ==
    FoldLeft(LAMBDA acc, s : SetOp(s.a, acc, Eval(s.kids[1], env, q)), rows, n.kids[8].kids)
Paged(rows, page) == Limited(Skipped(rows, page.skip), page.rows)
FromRows(n, env, q) ==
    Matching(EvalTable(n.kids[3], env, q), n.kids[4].kids, n.kids[5], env, q)
EvalParts(n, env, q) ==
    Paged(AllRows(n, Grouped(n, ListRows(n.kids[2].kids, FromRows(n, env, q), env, q)), env, q), n.a.page)
EvalSelect(n, env, q) ==
    EvalParts(n, env, FoldLeft(LAMBDA acc, c : WithCte(acc, c, env), q, n.kids[1].kids))

(* A subquery as a value: that of its first row. *)
Scalar(rows) == IF rows = <<>> THEN Null ELSE Head(Head(rows).vals)

EvalNode(n, env, q) ==
    LET kid(i) == Eval(n.kids[i], env, q)
        kids == {kid(i) : i \in DOMAIN n.kids}
        among(v, vs) == AnyOf({Compare("=", v, w) : w \in vs})
        no(v) == IF v = Null THEN Null ELSE 1 - v
    IN CASE n.t = "ph" -> n.a.v
         [] n.t = "col" -> Lookup(env, n.a.prefix, n.a.col)
         [] n.t = "raw" -> IF n.a = "or" THEN Truth(n.kids[1].a.v # 0) ELSE 1
         [] n.t = "cmp" -> Compare(n.a, kid(1), kid(2))
         [] n.t = "isnull" -> Truth(kid(1) = Null)
         [] n.t = "between" -> AllOf({no(Compare("<", kid(1), kid(2))), no(Compare(">", kid(1), kid(3)))})
         [] n.t \in {"in", "notin"} ->
              LET r == among(kid(1), {kid(i) : i \in 2 .. Len(n.kids)})
              IN IF n.t = "in" THEN r ELSE no(r)
         [] n.t = "insub" ->
              among(kid(1), {Head(r.vals) : r \in ToSet(Eval(n.kids[2].kids[1], env, q))})
         [] n.t = "fn" -> IF n.a = "Coalesce" THEN IF kid(1) = Null THEN kid(2) ELSE kid(1)
                          ELSE IF Null \in kids THEN Null ELSE kid(1) + kid(2)
         [] n.t = "exists" -> Truth(Eval(n.kids[1].kids[1], env, q) # <<>>)
         [] n.t = "sub" -> Scalar(Eval(n.kids[1], env, q))
         [] n.t = "auto" -> IF q.view THEN 1
                            ELSE IF n.a = "live" THEN Compare("=", kid(1), 0)
                            ELSE among(kid(1), {kid(i) : i \in 2 .. Len(n.kids)})
         [] n.t = "paren" -> kid(1)
         [] n.t = "and" -> AndText(n.kids, env, q)
         [] n.t = "or" -> AnyOf(kids)
         [] n.t = "not" -> no(kid(1))
         [] n.t \in {"on", "where"} -> AndText(n.kids, env, q)
         [] n.t = "select" -> EvalSelect(n, env, q)
         [] n.t = "empty" -> 1
         [] n.t = "null" -> Null

(* The answer to a query of heap h, from the text or from the views a       *)
(* request of some tenant may read.                                         *)
Answer(h, db, n) ==
    Eval(n, <<>>, [h |-> h, db |-> db, view |-> FALSE, request |-> NoTenant])
ViewAnswer(h, db, n, request) ==
    Eval(n, <<>>, [h |-> h, db |-> db, view |-> TRUE, request |-> request])
=============================================================================

------------------------------- MODULE Changes -------------------------------
(***************************************************************************)
(* What the database does with a rendered INSERT, UPDATE or DELETE.  As in  *)
(* Rows, q.view chooses between the text and what the builders promise.     *)
(* The pair of id and tenant is the tables' one unique key.                 *)
(***************************************************************************)
EXTENDS Rows, Dml

Part(n, t) ==
    LET is == {i \in DOMAIN n.kids : n.kids[i].t = t} IN IF is = {} THEN Empty ELSE n.kids[Min(is)]

(* Where a column name points in a row; nowhere when no column is so spelled. *)
Position(d, c) ==
    {i \in DOMAIN Cols : Cols[i] = IF LookupDialect(d).fold THEN Lower(c) ELSE c}
KnownColumns(d, cs) ==
    \A i \in DOMAIN cs : Position(d, cs[i]) # {} /\ \A j \in DOMAIN cs :
        i # j => Position(d, cs[i]) # Position(d, cs[j])

(* Every column is of a table the statement names; an INSERT names one.     *)
NamesResolve(n) ==
    LET names == {s.as : s \in Kinds(n, "scan")} \cup {<<"as", a>> : a \in Kinds(n, "derived") \cup Kinds(n, "cteRef")}
                 \cup (IF n.t = "insert" THEN {n.a.name} ELSE {})
    IN \A c \in Kinds(n, "col") : c.prefix \in names

Default == <<Null, Null, 0, Null>>
RowOf(d, cs, vals) ==
    [i \in DOMAIN Cols |->
        IF \E j \in DOMAIN cs : i \in Position(d, cs[j])
          THEN vals[CHOOSE j \in DOMAIN cs : i \in Position(d, cs[j])] ELSE Default[i]]

(* The row after its assignments; new is the row an upsert has failed to insert. *)
Assign(row, s, v, q) == [row EXCEPT ![Min(Position(q.d, s.a))] = v]
ValueOf(n, env, new, q) ==
    IF n.t = "excluded" THEN new[Min(Position(q.d, n.a))] ELSE Eval(n, env, q)
Assigned(row, sets, env, new, q) ==
    FoldLeft(LAMBDA r, s : Assign(r, s, ValueOf(s.kids[1], env, new, q), q), row, sets)
SetColumns(sets) == [i \in DOMAIN sets |-> sets[i].a]

Refusal == [ok |-> FALSE, db |-> <<>>, affected |-> 0]
Changed(db, name, rows, n) == [ok |-> TRUE, db |-> [db EXCEPT ![name] = rows], affected |-> n]

(* One row put among others, by what the statement says of a conflict.      *)
Collide(acc, i, new, n, q) ==
    LET env == <<[as |-> n.a.name, cols |-> Cols, vals |-> acc.rows[i]]>> IN
    CASE n.a.conflict = "none" -> [acc EXCEPT !.ok = FALSE]
      [] n.a.conflict = "nothing" -> acc
      [] n.a.conflict = "update" ->
           [acc EXCEPT !.rows[i] = Assigned(@, n.kids[2].kids, env, new, q), !.n = @ + 1]
Put(acc, new, n, q) ==
    LET same == {i \in DOMAIN acc.rows : acc.rows[i][1] = new[1] /\ acc.rows[i][2] = new[2]} IN
    IF Null \in {new[1], new[2]} \/ same = {} THEN [acc EXCEPT !.rows = Append(@, new), !.n = @ + 1]
    ELSE Collide(acc, Min(same), new, n, q)

Outcome(db, name, all) == IF all.ok THEN Changed(db, name, all.rows, all.n) ELSE Refusal
InsertAll(db, n, q, given) ==
    LET all == FoldLeft(LAMBDA acc, vals : Put(acc, RowOf(q.d, n.a.columns, vals), n, q),
                        [ok |-> TRUE, rows |-> db[n.a.name], n |-> 0], given)
        sets == SetColumns(n.kids[2].kids)
        targeted == LookupDialect(q.d).target /\ n.a.target # <<>>
    IN IF /\ KnownColumns(q.d, n.a.columns) /\ KnownColumns(q.d, sets)
          /\ \A i \in DOMAIN given : Len(given[i]) = Len(n.a.columns)
          /\ targeted => Spelled(n.a.target) = {"id", "tid"}
       THEN Outcome(db, n.a.name, all) ELSE Refusal

(* The tuples of VALUES, or the rows of the query. *)
Vals(rows) == [i \in DOMAIN rows |-> rows[i].vals]
Given(n, q) ==
    IF n.t = "values"
      THEN [i \in DOMAIN n.kids |->
              [j \in DOMAIN n.kids[i].kids |-> Eval(n.kids[i].kids[j], <<>>, q)]]
    ELSE Vals(Eval(n, <<>>, q))
ApplyInsert(db, n, q) == InsertAll(db, n, q, Given(n.kids[1], q))

(* A row of the target is hit when some row of the joins goes with it.      *)
Hits(n, joins, r, q) ==
    Matching(<< <<[as |-> n.kids[1].a.as, cols |-> Cols, vals |-> r]>> >>, joins,
             Part(n, "where"), <<>>, q)
HitsOf(n, q, rows) ==
    LET using == Part(n, "from").kids
        joins == Part(n, "joins").kids
                   \o [i \in DOMAIN using |-> Node("join", "inner", <<using[i], Empty>>)]
    IN [i \in DOMAIN rows |->
          IF q.view /\ ~Visible(q, n.kids[1].a, rows[i]) THEN <<>> ELSE Hits(n, joins, rows[i], q)]

Survivors(rows, hits) ==
    LET kept == Filter([i \in DOMAIN rows |-> i], LAMBDA i : hits[i] = <<>>)
    IN [i \in DOMAIN kept |-> rows[kept[i]]]
Change(db, n, q, rows, hits) ==
    LET name == n.kids[1].a.name
        sets == Part(n, "sets").kids
        count == Len(Filter(hits, LAMBDA h : h # <<>>))
    IN IF n.t = "delete" THEN Changed(db, name, Survivors(rows, hits), count)
       ELSE IF ~KnownColumns(q.d, SetColumns(sets)) THEN Refusal
       ELSE Changed(db, name,
              [i \in DOMAIN rows |-> IF hits[i] = <<>> THEN rows[i]
                                     ELSE Assigned(rows[i], sets, Head(hits[i]), <<>>, q)], count)
ChangeRows(db, n, q, rows) == Change(db, n, q, rows, HitsOf(n, q, rows))
ApplyChange(db, n, q) == ChangeRows(db, n, q, db[n.kids[1].a.name])

(* q is [h, d, view, request]. *)
InDb(q, db) == [h |-> q.h, d |-> q.d, view |-> q.view, request |-> q.request, db |-> db]
Apply(db, n, q) ==
    IF ~NamesResolve(n) THEN Refusal
    ELSE IF n.t = "insert" THEN ApplyInsert(db, n, InDb(q, db))
    ELSE ApplyChange(db, n, InDb(q, db))
=============================================================================

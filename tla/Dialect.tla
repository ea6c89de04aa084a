------------------------------- MODULE Dialect -------------------------------
(***************************************************************************)
(* The dialects: what each DialectSpec of the library can express and the  *)
(* shape of the statements it writes.  MariaDB, TiDB and OceanBase embed    *)
(* MySQLDialect and differ in nothing that is modelled, so "mysql" stands   *)
(* for the family.                                                          *)
(***************************************************************************)
EXTENDS Sql

Dialects == {"mysql", "pgsql", "gaussdb", "sqlite", "dm"}

MySQL == [numbered |-> FALSE, fold |-> TRUE, returning |-> FALSE,
          target |-> FALSE, conflict |-> "duplicate", ignore |-> TRUE,
          groups |-> {"rollup"}, omitLock |-> FALSE, lockWait |-> TRUE,
          lateral |-> TRUE, joinsBeforeSet |-> TRUE, deleteJoins |-> "joined",
          lacks |-> {}, reversed |-> {}]

Postgres == [numbered |-> TRUE, fold |-> FALSE, returning |-> TRUE,
             target |-> TRUE, conflict |-> "conflict", ignore |-> FALSE,
             groups |-> {"rollup", "cube", "sets"}, omitLock |-> FALSE, lockWait |-> TRUE,
             lateral |-> TRUE, joinsBeforeSet |-> FALSE, deleteJoins |-> "using",
             lacks |-> {}, reversed |-> {}]

GaussDB == [Postgres EXCEPT !.target = FALSE, !.conflict = "duplicate"]

SQLite == [Postgres EXCEPT !.numbered = FALSE, !.fold = TRUE, !.groups = {},
                           !.omitLock = TRUE, !.lockWait = FALSE,
                           !.lateral = FALSE, !.deleteJoins = "refused",
                           !.lacks = {"Median", "GroupConcat"}]

DM == [Postgres EXCEPT !.numbered = FALSE, !.fold = TRUE, !.returning = FALSE,
                       !.conflict = "merge", !.lockWait = FALSE,
                       !.deleteJoins = "refused", !.reversed = {"DateAdd", "DateDiff"}]

LookupDialect(d) ==
    CASE d = "mysql"   -> MySQL
      [] d = "pgsql"   -> Postgres
      [] d = "gaussdb" -> GaussDB
      [] d = "sqlite"  -> SQLite
      [] d = "dm"      -> DM

-----------------------------------------------------------------------------
(* Page bounds.  0 rows means no bound; each dialect writes an offset       *)
(* without a limit its own way, to the same effect.                         *)
RenderLimit(limit, offset) == [rows |-> IF limit <= 0 THEN 0 ELSE limit,
                               skip |-> IF offset > 0 THEN offset ELSE 0]

(* The existence query: EXISTS (sub), or a count of at most one row.        *)
RenderExists(sub) == Node("existsQuery", 0, <<sub>>)

(* A function's rendered arguments in the order the dialect writes them.    *)
RenderFunction(spec, name, args) == IF name \in spec.reversed THEN Reverse(args) ELSE args

(* The functions that are refused before anything is rendered.  GroupConcat *)
(* stands for DISTINCT with a separator.                                    *)
Validated == {"GroupConcat"}

-----------------------------------------------------------------------------
(* Joins of an UPDATE or a DELETE are rendered before the statement is put  *)
(* together: [kind, table, on].  A statement is [err, n].                   *)
joinsHaveOuter(joins) == \E i \in DOMAIN joins : joins[i].kind \in {"left", "right", "full"}

renderJoined(joins) ==
    Clause("joins", [i \in DOMAIN joins |-> Node("join", joins[i].kind, <<joins[i].table, joins[i].on>>)])

(* All the tables, and all the ON conditions with the WHERE after them.     *)
JoinTables(joins) == Clause("from", [i \in DOMAIN joins |-> joins[i].table])
JoinOns(joins, where) ==
    Clause("where", FlattenSeq([i \in DOMAIN joins |-> joins[i].on.kids]) \o where.kids)

(* UPDATE: JOIN before SET in the MySQL family, otherwise SET, the tables   *)
(* after FROM and the conditions.                                           *)
RenderUpdate(spec, target, sets, where, joins) ==
    CASE joins = <<>> -> [err |-> "", n |-> Node("update", 0, <<target, sets, where>>)]
      [] joins # <<>> /\ spec.joinsBeforeSet ->
           [err |-> "", n |-> Node("update", 0, <<target, renderJoined(joins), sets, where>>)]
      [] OTHER ->
           [err |-> IF joinsHaveOuter(joins) THEN "outer join" ELSE "",
            n |-> Node("update", 0, <<target, sets, JoinTables(joins), JoinOns(joins, where)>>)]

(* DELETE: joined in the MySQL family, USING in PostgreSQL and GaussDB, the *)
(* others refuse any join.                                                  *)
RenderDelete(spec, target, joins, where) ==
    CASE joins = <<>> -> [err |-> "", n |-> Node("delete", 0, <<target, where>>)]
      [] joins # <<>> /\ spec.deleteJoins = "joined" ->
           [err |-> "", n |-> Node("delete", 0, <<target, renderJoined(joins), where>>)]
      [] joins # <<>> /\ spec.deleteJoins = "using" ->
           [err |-> IF joinsHaveOuter(joins) THEN "outer join" ELSE "",
            n |-> Node("delete", 0, <<target, JoinTables(joins), JoinOns(joins, where)>>)]
      [] OTHER -> [err |-> "delete join", n |-> Empty]

(* Two spellings of one column: what a dialect folds, and MERGE always.     *)
Lower(c) == IF c = "TID" THEN "tid" ELSE c
Spelled(cs) == {Lower(cs[i]) : i \in DOMAIN cs}

(* What INSERT needs to be allowed to meet existing rows, by the form the   *)
(* dialect has for it; [nothing, cols, updates].                            *)
RenderUpsert(spec, u, columns) ==
    CASE spec.conflict = "duplicate" ->
           IF u.nothing THEN IF spec.ignore THEN "" ELSE "ignore"
           ELSE IF DOMAIN u.updates = {} THEN "no assignments" ELSE ""
      [] spec.conflict = "conflict" ->
           IF u.nothing THEN ""
           ELSE IF u.cols = <<>> THEN "no target" ELSE IF DOMAIN u.updates = {} THEN "no assignments" ELSE ""
      [] spec.conflict = "merge" ->
           IF u.cols = <<>> THEN "no target"
           ELSE IF ~(Spelled(u.cols) \subseteq Spelled(columns)) THEN "target column"
           ELSE IF ~u.nothing /\ DOMAIN u.updates = {} THEN "no assignments" ELSE ""
=============================================================================

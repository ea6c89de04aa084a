------------------------------ MODULE InsertChunks ------------------------------
(***************************************************************************)
(* How DMLBuilder.Exec cuts the rows of an INSERT into statements           *)
(* (dsl/dml_exec.go:126-172).                                               *)
(***************************************************************************)
EXTENDS Integers, Sequences, SequencesExt, FiniteSetsExt

ColumnsOf(row) == [i \in DOMAIN row |-> row[i].col]
ColumnSet(row) == ToBag(ColumnsOf(row))

(* Rows with the same columns go into one INSERT, the groups in the order   *)
(* of their first rows; Batch cuts each group.                              *)
AddRow(groups, row) ==
    LET same == {k \in DOMAIN groups : ColumnSet(groups[k][1]) = ColumnSet(row)}
    IN IF same = {} THEN Append(groups, <<row>>)
       ELSE [groups EXCEPT ![Min(same)] = Append(@, row)]
groupInsertRows(rows) == FoldLeft(AddRow, <<>>, rows)

Cut(rows, batch) ==
    [i \in 1 .. (Len(rows) + batch - 1) \div batch |->
        SubSeq(rows, (i - 1) * batch + 1, Min({i * batch, Len(rows)}))]
splitInsertChunks(rows, batch) ==
    LET groups == groupInsertRows(rows)
    IN IF batch <= 0 THEN groups ELSE FlattenSeq([i \in DOMAIN groups |-> Cut(groups[i], batch)])
=============================================================================

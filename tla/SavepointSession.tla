-------------------------- MODULE SavepointSession --------------------------
(***************************************************************************)
(* EXTERNAL: what a SQL database keeps of one open transaction, as far as  *)
(* db/tx.go uses it (db/tx.go:170, 184, 201, 211, 239 send the statements).*)
(*                                                                         *)
(* A session is the log of the writes executed and not undone, and the     *)
(* savepoints standing, oldest first.  A savepoint is a name and the       *)
(* length the log had when it was set.  Names are numbers: k >= 0 is the   *)
(* identifier gooq_sp_k or any other identifier, and Replaced is the name  *)
(* no statement can use, left on a savepoint that a later one of the same  *)
(* name has replaced.                                                      *)
(***************************************************************************)
EXTENDS Integers, Sequences

Replaced == -1

Mark    == [name : Nat \cup {Replaced}, at : Nat]
Session == [log : Seq(Nat), marks : Seq(Mark)]

(* A session as the statements leave it: savepoints are within the log and  *)
(* in the order in which they were set.                                     *)
WellFormed(s) ==
    /\ s \in Session
    /\ \A i \in DOMAIN s.marks : s.marks[i].at <= Len(s.log)
    /\ \A i, j \in DOMAIN s.marks : i < j => s.marks[i].at <= s.marks[j].at

EmptySession == [log |-> <<>>, marks |-> <<>>]

(* The first n elements of a sequence. *)
Upto(seq, n) == SubSeq(seq, 1, n)

(* Savepoint i is the one a statement that names n means: the latest. *)
Latest(s, n, i) ==
    /\ i \in DOMAIN s.marks
    /\ s.marks[i].name = n
    /\ \A j \in DOMAIN s.marks : j > i => s.marks[j].name # n

(* A write by the call w. *)
Written(s, w) == [log |-> Append(s.log, w), marks |-> s.marks]

(* SAVEPOINT n.  PostgreSQL and SQLite keep an older savepoint of the same *)
(* name and hide it behind the new one; MySQL and DM replace it.           *)
Marked(s, n, replaces) ==
    LET hidden(m) == replaces /\ m.name = n
        kept      == [j \in DOMAIN s.marks |->
                         [name |-> IF hidden(s.marks[j]) THEN Replaced ELSE s.marks[j].name,
                          at   |-> s.marks[j].at]]
    IN  [log   |-> s.log,
         marks |-> Append(kept, [name |-> n, at |-> Len(s.log)])]

(* RELEASE of savepoint i: it and the later ones go, the writes stay. *)
Released(s, i) == [log |-> s.log, marks |-> Upto(s.marks, i - 1)]

(* ROLLBACK TO savepoint i: the later ones go, it stays, and so do only    *)
(* the writes made before it was set.                                      *)
RolledBackTo(s, i) ==
    [log |-> Upto(s.log, s.marks[i].at), marks |-> Upto(s.marks, i)]
=============================================================================

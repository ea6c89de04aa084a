----------------------------- MODULE NestedWork -----------------------------
(***************************************************************************)
(* What db/tx.go promises of nested Transaction calls: each call is a unit *)
(* of work.  A unit that succeeds becomes part of the unit it runs in, one *)
(* that fails leaves that unit as it was, and the outermost unit becomes   *)
(* durable whole or not at all (db/tx.go:69, 136-137).  Levels, savepoints *)
(* and their names do not appear.                                          *)
(***************************************************************************)
EXTENDS Naturals, Sequences

CONSTANTS
    Writes,       \* the writes a unit can make
    LostAnswers,  \* COMMIT may take effect and still be answered by an error
    Refusals      \* the database may refuse to release a savepoint or go back to it

VARIABLES
    units,    \* the units under way, the outermost first: each the writes it holds
    durable,  \* what the database has committed
    verdict,  \* what the unit that ended last told its caller
    dead      \* the database has dropped the transaction or ended it

vars == <<units, durable, verdict, dead>>

Depth     == Len(units)
Innermost == units[Depth]
Outer     == SubSeq(units, 1, Depth - 1)

Init == units = <<>> /\ durable = <<>> /\ verdict = "none" /\ dead = FALSE

Begin ==
    /\ units = <<>> /\ verdict = "none"
    /\ units' = << <<>> >>
    /\ UNCHANGED <<durable, verdict, dead>>

BeginFails ==
    /\ units = <<>> /\ verdict = "none"
    /\ verdict' = "err"
    /\ UNCHANGED <<units, durable, dead>>

Work ==
    /\ units # <<>> /\ ~dead
    /\ \E w \in Writes : units' = [units EXCEPT ![Depth] = Append(@, w)]
    /\ UNCHANGED <<durable, verdict, dead>>

(* A callback undoes the last part of its own work. *)
Undo ==
    /\ units # <<>> /\ ~dead
    /\ \E n \in 0 .. Len(Innermost) :
          units' = [units EXCEPT ![Depth] = SubSeq(@, 1, n)]
    /\ UNCHANGED <<durable, verdict, dead>>

Enter ==
    /\ units # <<>> /\ ~dead
    /\ units' = Append(units, <<>>)
    /\ UNCHANGED <<durable, verdict, dead>>

Merge ==
    /\ Depth > 1
    /\ units' = [Outer EXCEPT ![Depth - 1] = @ \o Innermost]
    /\ verdict' = "nil"
    /\ UNCHANGED <<durable, dead>>

Discard ==
    /\ Depth > 1
    /\ units' = Outer
    /\ verdict' = "err"
    /\ UNCHANGED <<durable, dead>>

(* The database refuses to end the unit: it has failed, and what it did     *)
(* stays with the unit it runs in.                                          *)
Stuck ==
    /\ Refusals /\ Depth > 1 /\ ~dead
    /\ units' = [Outer EXCEPT ![Depth - 1] = @ \o Innermost]
    /\ verdict' = "err"
    /\ UNCHANGED <<durable, dead>>

Commit ==
    /\ Depth = 1 /\ ~dead
    /\ units' = <<>> /\ durable' = Innermost
    /\ verdict' = "nil" /\ dead' = TRUE

Abort ==
    /\ Depth = 1
    /\ units' = <<>> /\ verdict' = "err" /\ dead' = TRUE
    /\ \/ durable' = durable
       \/ LostAnswers /\ ~dead /\ durable' = Innermost

Dropped ==
    /\ units # <<>> /\ ~dead
    /\ units' = [k \in 1 .. Depth |-> <<>>]
    /\ dead' = TRUE
    /\ UNCHANGED <<durable, verdict>>

Next ==
    \/ Begin \/ BeginFails \/ Work \/ Undo \/ Enter
    \/ Merge \/ Discard \/ Stuck \/ Commit \/ Abort \/ Dropped

Spec == Init /\ [][Next]_vars
=============================================================================

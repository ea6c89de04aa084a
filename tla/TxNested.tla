------------------------------ MODULE TxNested ------------------------------
(***************************************************************************)
(* Tx implements NestedWork when callbacks are disciplined: levels and     *)
(* savepoints delimit exactly the work of each call.                       *)
(***************************************************************************)
EXTENDS Tx

(* The writes that call k of the stack holds: what the log gained     *)
(* since it began, up to where the next call began.                         *)
Unit(k) ==
    IF sqlTx = "active"
    THEN SubSeq(session.log,
                frames[k].base + 1,
                IF k = Len(frames) THEN Len(session.log) ELSE frames[k + 1].base)
    ELSE <<>>

NW == INSTANCE NestedWork WITH
          Writes      <- 1 .. MaxCalls,
          LostAnswers <- "lost" \in Faults,
          Refusals    <- "refuse" \in Faults,
          units       <- [k \in 1 .. Len(frames) |-> Unit(k)],
          durable     <- durable,
          verdict     <- result,
          dead        <- sqlTx = "done"

(* Nested Transaction calls are nested units of work, in every dialect: a   *)
(* failed call leaves the work of its caller as it was and a successful one *)
(* becomes part of it, though all of them share one level counter and one   *)
(* set of savepoint names (db/tx.go:69, 136-137).  A call that the database *)
(* refuses to end fails, and never with a part of its work.                 *)
ImplementsNestedWork == NW!Spec
=============================================================================

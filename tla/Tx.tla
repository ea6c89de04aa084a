---------------------------------- MODULE Tx ----------------------------------
(***************************************************************************)
(* One transaction of gooq (db/tx.go) and the nest of Transaction calls    *)
(* that runs on it, from DB.runNew's BeginTx to its return.                *)
(*                                                                         *)
(* One goroutine runs: DB.runNew calls the outermost callback, a callback  *)
(* may execute statements, set and roll back to savepoints of its own, and *)
(* call Tx.Transaction, which runs an inner callback on the same Tx.       *)
(* `frames' is that call stack, the outermost call first.  A callback may  *)
(* return nil, return an error or panic, and may swallow the error or      *)
(* recover the panic of an inner call.                                     *)
(*                                                                         *)
(* The driver and the database are external: SavepointSession says what    *)
(* the statements do, sqlTx is the sql.Tx, and a call of theirs may fail   *)
(* in the ways Faults lists:                                               *)
(*   "refuse"  a statement fails and changes nothing; BeginTx fails;       *)
(*   "lost"    COMMIT or ROLLBACK returns the driver's error: database/sql *)
(*             has ended the transaction, COMMIT may have taken effect;    *)
(*   "cancel"  the context ends and database/sql rolls back on its own.    *)
(***************************************************************************)
EXTENDS SavepointSession

CONSTANTS
    Dialects,      \* the dialects a pool can have
    NoRelease,     \* those whose ReleaseSavepoint() is false (dialect_dm.go:87)
    Replacing,     \* those whose database replaces a savepoint of the same name
    UserNames,     \* the names callbacks give to SavePoint and RollbackTo
    Disciplined,   \* callbacks leave the ending of a call to finishTx and name
                   \* only savepoints of their own call
    Faults,        \* the external failures that can happen
    MaxCalls,      \* bound: Transaction calls on one Tx
    MaxLog,        \* bound: writes standing at once
    MaxMarks       \* bound: savepoints standing when a callback sets one

ASSUME TxAssumption ==
    /\ NoRelease \subseteq Dialects
    /\ Replacing \subseteq Dialects
    /\ UserNames \subseteq Nat
    /\ Disciplined \in BOOLEAN
    /\ Faults \subseteq {"refuse", "lost", "cancel"}
    /\ MaxCalls \in Nat \ {0}
    /\ MaxLog \in Nat
    /\ MaxMarks \in Nat

VARIABLES
    dialect,    \* Tx.dialect
    depth,      \* Tx.depth
    closed,     \* Tx.closed
    sqlTx,      \* Tx.sql: "none" before BeginTx, "active", "done"
    session,    \* what the database holds of the transaction
    durable,    \* the writes the database has committed
    frames,     \* the Transaction calls under way
    ctl,        \* "idle", "fn": the top callback runs, "panic": a panic is
                \* passing through it, "returned"
    result,     \* what the call that returned last returned: "none", "nil", "err"
    calls,      \* history: Transaction calls started so far
    failed,     \* history: the calls that returned an error or panicked, with
                \* the calls made inside them
    unanswered  \* history: RELEASE, ROLLBACK TO, COMMIT or ROLLBACK failed on a
                \* transaction that was active

tx   == <<dialect, depth, closed, sqlTx>>
db   == <<session, durable>>
hist == <<calls, failed, unanswered>>
vars == <<tx, db, frames, ctl, result, hist>>

(* A call on the stack: its number and the length of the log when it began. *)
Frame == [id : Nat, base : Nat]
Top   == frames[Len(frames)]

supportsReleaseSavepoint == dialect \notin NoRelease

(* gooq_sp_<level>: a name is the number that ends it. *)
savepointName(level) == level

Init ==
    /\ dialect \in Dialects
    /\ depth = 0 /\ closed = FALSE /\ sqlTx = "none"
    /\ session = EmptySession /\ durable = <<>>
    /\ frames = <<>> /\ ctl = "idle" /\ result = "none"
    /\ calls = 0 /\ failed = {} /\ unanswered = FALSE
-----------------------------------------------------------------------------
(* Statements, Commit and Rollback; err says whether the call returns one.  *)

(* External: a statement about savepoints on the sql.Tx.  It fails when     *)
(* the transaction is over, when the name means no savepoint, or when the   *)
(* database refuses it.                                                     *)
SavepointExec(effects, err) ==
    \/ ~err /\ sqlTx = "active" /\ session' \in effects
    \/ /\ err
       /\ sqlTx # "active" \/ effects = {} \/ "refuse" \in Faults
       /\ UNCHANGED session

Named(n)      == {i \in DOMAIN session.marks : Latest(session, n, i)}
SAVEPOINT(n)  == {Marked(session, n, dialect \in Replacing)}
RELEASE(n)    == {Released(session, i) : i \in Named(n)}
ROLLBACKTO(n) == {RolledBackTo(session, i) : i \in Named(n)}

(* External: Commit and Rollback of the sql.Tx.  The first one ends the     *)
(* transaction whatever the driver answers; a later one returns ErrTxDone.  *)
SqlEnd(outcomes, lost, err) ==
    /\ sqlTx' = "done" /\ session' = EmptySession
    /\ \/ sqlTx = "active" /\ ~err /\ durable' \in outcomes
       \/ sqlTx = "active" /\ err /\ "lost" \in Faults /\ durable' \in lost
       \/ sqlTx = "done" /\ err /\ durable' = durable

SqlCommit(err)   == SqlEnd({session.log}, {session.log, durable}, err)
SqlRollback(err) == SqlEnd({durable}, {durable}, err)

Noted(err) == unanswered' = (unanswered \/ (err /\ sqlTx = "active"))

(* Mutants of Commit: the test for a nested level is off by one; the level  *)
(* goes down only when RELEASE has succeeded; a dialect without RELEASE     *)
(* returns before the level goes down; a nested commit closes the Tx.       *)
CommitBelowZero(err) ==
    /\ Noted(err)
    /\ depth' = depth - 1
    /\ SavepointExec(RELEASE(savepointName(depth - 1)), err)
    /\ UNCHANGED <<dialect, closed, sqlTx, durable>>

CommitLowersLast(err) ==
    /\ Noted(err)
    /\ IF depth > 0
       THEN /\ SavepointExec(RELEASE(savepointName(depth - 1)), err)
            /\ depth' = IF err THEN depth ELSE depth - 1
            /\ UNCHANGED <<dialect, closed, sqlTx, durable>>
       ELSE /\ SqlCommit(err)
            /\ closed' = (closed \/ ~err)
            /\ UNCHANGED <<dialect, depth>>

CommitKeepsLevel(err) ==
    /\ Noted(err)
    /\ IF depth > 0
       THEN /\ IF supportsReleaseSavepoint
               THEN /\ SavepointExec(RELEASE(savepointName(depth - 1)), err)
                    /\ depth' = depth - 1
               ELSE ~err /\ UNCHANGED <<session, depth>>
            /\ UNCHANGED <<dialect, closed, sqlTx, durable>>
       ELSE /\ SqlCommit(err)
            /\ closed' = (closed \/ ~err)
            /\ UNCHANGED <<dialect, depth>>

CommitClosesAll(err) ==
    /\ Noted(err)
    /\ closed' = (closed \/ ~err)
    /\ IF depth > 0
       THEN /\ depth' = depth - 1
            /\ SavepointExec(RELEASE(savepointName(depth - 1)), err)
            /\ UNCHANGED <<dialect, sqlTx, durable>>
       ELSE /\ SqlCommit(err)
            /\ UNCHANGED <<dialect, depth>>

(* The level goes down before the database has answered (db/tx.go:166). *)
Commit(err) ==
    /\ Noted(err)
    /\ IF depth > 0
       THEN /\ depth' = depth - 1
            /\ IF supportsReleaseSavepoint
               THEN SavepointExec(RELEASE(savepointName(depth - 1)), err)
               ELSE ~err /\ UNCHANGED session
            /\ UNCHANGED <<dialect, closed, sqlTx, durable>>
       ELSE /\ SqlCommit(err)
            /\ closed' = (closed \/ ~err)
            /\ UNCHANGED <<dialect, depth>>

(* Mutants of Rollback: the level stays when the database refuses; the name *)
(* is made from the level before it goes down.                              *)
RollbackKeepsLevel(err) ==
    /\ Noted(err)
    /\ IF depth > 0
       THEN /\ SavepointExec(ROLLBACKTO(savepointName(depth - 1)), err)
            /\ depth' = IF err THEN depth ELSE depth - 1
            /\ UNCHANGED <<dialect, closed, sqlTx, durable>>
       ELSE /\ SqlRollback(err)
            /\ closed' = (closed \/ ~err)
            /\ UNCHANGED <<dialect, depth>>

RollbackNamesLevel(err) ==
    /\ Noted(err)
    /\ IF depth > 0
       THEN /\ depth' = depth - 1
            /\ SavepointExec(ROLLBACKTO(savepointName(depth)), err)
            /\ UNCHANGED <<dialect, closed, sqlTx, durable>>
       ELSE /\ SqlRollback(err)
            /\ closed' = (closed \/ ~err)
            /\ UNCHANGED <<dialect, depth>>

Rollback(err) ==
    /\ Noted(err)
    /\ IF depth > 0
       THEN /\ depth' = depth - 1
            /\ SavepointExec(ROLLBACKTO(savepointName(depth - 1)), err)
            /\ UNCHANGED <<dialect, closed, sqlTx, durable>>
       ELSE /\ SqlRollback(err)
            /\ closed' = (closed \/ ~err)
            /\ UNCHANGED <<dialect, depth>>

(* Every level is rolled back and then the whole transaction, so what the   *)
(* rollbacks to savepoints did does not outlive the call.                   *)
rollbackFully(err) ==
    /\ Noted(err)
    /\ depth' = 0
    /\ SqlRollback(err)
    /\ closed' = (closed \/ ~err)
    /\ UNCHANGED dialect

(* Mutant: the error of fn is returned and the work is kept. *)
finishTxCommits(fnErr, err) ==
    \E cErr \in BOOLEAN : Commit(cErr) /\ err = (fnErr \/ cErr)

finishTx(fnErr, err) ==
    IF fnErr THEN err /\ \E rbErr \in BOOLEAN : Rollback(rbErr)
             ELSE Commit(err)
-----------------------------------------------------------------------------
(* The calls.                                                               *)

Enter ==
    /\ calls' = calls + 1
    /\ frames' = Append(frames, [id |-> calls + 1, base |-> Len(session.log)])
    /\ ctl' = "fn"
    /\ UNCHANGED <<result, failed, unanswered>>

(* The top call returns; resume is where its caller goes on, if it has one. *)
Leave(err, resume) ==
    /\ frames' = Upto(frames, Len(frames) - 1)
    /\ ctl' = IF Len(frames) = 1 THEN "returned" ELSE resume
    /\ result' = IF err THEN "err" ELSE "nil"
    /\ failed' = IF err THEN failed \cup (Top.id .. calls) ELSE failed
    /\ UNCHANGED calls

(* runNew up to the call of fn, and its return when BeginTx fails. *)
runNew ==
    /\ ctl = "idle"
    /\ Enter
    /\ sqlTx' = "active"
    /\ UNCHANGED <<dialect, depth, closed, db>>

BeginTxFails ==
    /\ ctl = "idle" /\ "refuse" \in Faults
    /\ ctl' = "returned" /\ result' = "err"
    /\ UNCHANGED <<tx, db, frames, hist>>

(* Mutant: the savepoint is named after the level has risen. *)
TransactionRisesFirst ==
    /\ ctl = "fn" /\ calls < MaxCalls
    /\ SavepointExec(SAVEPOINT(savepointName(depth + 1)), FALSE)
    /\ depth' = depth + 1
    /\ Enter
    /\ UNCHANGED <<dialect, closed, sqlTx, durable>>

(* Tx.Transaction up to the call of fn: beginNested, then the level rises.  *)
(* When SAVEPOINT fails the call returns its error and changes nothing.     *)
Transaction ==
    /\ ctl = "fn" /\ calls < MaxCalls
    /\ SavepointExec(SAVEPOINT(savepointName(depth)), FALSE)
    /\ depth' = depth + 1
    /\ Enter
    /\ UNCHANGED <<dialect, closed, sqlTx, durable>>

(* The callback returns nil or an error, and finishTx ends the call. *)
FnReturns ==
    /\ ctl = "fn"
    /\ \E fnErr, err \in BOOLEAN :
          /\ finishTx(fnErr, err)
          /\ Leave(err, "fn")

FnPanics ==
    /\ ctl = "fn"
    /\ ctl' = "panic"
    /\ UNCHANGED <<tx, db, frames, result, hist>>

(* The deferred functions: an inner call rolls back and panics again, the   *)
(* outermost one rolls back all and returns the panic as an error.          *)
Unwind ==
    /\ ctl = "panic"
    /\ \E rbErr \in BOOLEAN :
          IF Len(frames) > 1 THEN Rollback(rbErr) ELSE rollbackFully(rbErr)
    /\ Leave(TRUE, "panic")

(* A callback recovers the panic of a call it made. *)
FnRecovers ==
    /\ ctl = "panic"
    /\ ctl' = "fn"
    /\ UNCHANGED <<tx, db, frames, result, hist>>
-----------------------------------------------------------------------------
(* What a callback does with its Tx.                                        *)

(* A write executed on the transaction; an ended one answers ErrTxDone. *)
Exec ==
    /\ ctl = "fn" /\ sqlTx = "active" /\ Len(session.log) < MaxLog
    /\ session' = Written(session, Top.id)
    /\ UNCHANGED <<tx, durable, frames, ctl, result, hist>>

(* Tx.SavePoint.  A disciplined callback does not take gooq's own names. *)
SavePoint(n) ==
    /\ ctl = "fn" /\ Len(session.marks) < MaxMarks
    /\ Disciplined => n \notin 0 .. MaxCalls
    /\ SavepointExec(SAVEPOINT(n), FALSE)
    /\ UNCHANGED <<tx, durable, frames, ctl, result, hist>>

(* Savepoint i was set by the call that runs: it is later than the one that *)
(* call set for itself.                                                     *)
OfThisCall(i) ==
    /\ session.marks[i].name \notin 0 .. MaxCalls
    /\ session.marks[i].at >= Top.base
    /\ depth > 0 => \A p \in Named(savepointName(depth - 1)) : i > p

(* Tx.RollbackTo. *)
RollbackTo(n) ==
    /\ ctl = "fn"
    /\ Disciplined => \A i \in Named(n) : OfThisCall(i)
    /\ SavepointExec(ROLLBACKTO(n), FALSE)
    /\ UNCHANGED <<tx, durable, frames, ctl, result, hist>>

(* A callback calls Commit or Rollback on the Tx it was given. *)
ManualEnd ==
    /\ ctl = "fn" /\ ~Disciplined
    /\ \E err \in BOOLEAN : Commit(err) \/ Rollback(err)
    /\ UNCHANGED <<frames, ctl, result, calls, failed>>

(* External: the context of BeginTx ends and database/sql rolls back. *)
CtxDone ==
    /\ "cancel" \in Faults /\ sqlTx = "active"
    /\ sqlTx' = "done" /\ session' = EmptySession
    /\ UNCHANGED <<dialect, depth, closed, durable, frames, ctl, result, hist>>

Terminated == ctl = "returned" /\ UNCHANGED vars

Next ==
    \/ runNew \/ BeginTxFails \/ Transaction
    \/ FnReturns \/ FnPanics \/ Unwind \/ FnRecovers
    \/ Exec \/ ManualEnd \/ CtxDone
    \/ \E n \in UserNames : SavePoint(n) \/ RollbackTo(n)
    \/ Terminated

Spec == Init /\ [][Next]_vars
-----------------------------------------------------------------------------
(* Properties.                                                              *)

(* The variables have their types, the level and the names included. *)
TypeOK ==
    /\ dialect \in Dialects
    /\ depth \in Nat
    /\ closed \in BOOLEAN
    /\ sqlTx \in {"none", "active", "done"}
    /\ WellFormed(session)
    /\ durable \in Seq(Nat)
    /\ frames \in Seq(Frame)
    /\ ctl \in {"idle", "fn", "panic", "returned"}
    /\ result \in {"none", "nil", "err"}
    /\ calls \in Nat
    /\ failed \subseteq Nat
    /\ unanswered \in BOOLEAN

(* Whatever the callbacks and the driver do, when runNew has returned the   *)
(* transaction is over and its connection is back in the pool               *)
(* (db/tx.go:122-133): no mismatch of levels makes the last finishTx end a  *)
(* savepoint in place of the transaction.                                   *)
ReturnedReleases == ctl = "returned" => sqlTx # "active"

(* The phases of runNew, and what they say of the transaction. *)
Phase ==
    /\ ctl = "idle" => frames = <<>> /\ depth = 0 /\ sqlTx = "none"
    /\ ctl \in {"fn", "panic"} => frames # <<>>

(* IsClosed never tells of an active transaction that it is closed, so      *)
(* TxFromContext never leaves a live one out (db/tx.go:173-177, 187-191).   *)
ClosedMeansDone == closed => sqlTx = "done"

(* The level never exceeds the number of inner calls under way, even when   *)
(* callbacks end levels themselves or the database refuses statements.      *)
LevelWithinNesting == frames # <<>> => depth < Len(frames)

(* Inductive: what makes ReturnedReleases hold.  The outermost call finds   *)
(* level 0, so what it ends is the transaction.                             *)
SafeInv == TypeOK /\ Phase /\ LevelWithinNesting /\ ReturnedReleases /\ ClosedMeansDone

(* With disciplined callbacks the level counts the inner calls under way,   *)
(* though it goes down before the database has answered (db/tx.go:166, 183) *)
(* and up only after it has (db/tx.go:240).                                 *)
LevelIsNesting == Disciplined /\ frames # <<>> => depth + 1 = Len(frames)

(* The savepoint an inner call would release or roll back to is there and   *)
(* stands where the call began, whichever savepoints of the same name       *)
(* earlier calls left behind: ROLLBACK TO leaves its savepoint standing, DM *)
(* never releases one (db/tx.go:164-170, 184, 237-243).                     *)
SavepointOfCall ==
    Disciplined /\ sqlTx = "active" =>
        \A k \in 2 .. Len(frames) :
            \E i \in Named(k - 2) : session.marks[i].at = frames[k].base

(* A call that returned an error or panicked, and the calls made inside it, *)
(* have no write in the transaction and none in the database, unless the    *)
(* database failed to answer the statement that was to undo or to keep them *)
(* (db/tx.go:136-160, 275-287).                                             *)
NoFailedWork ==
    Disciplined /\ ~unanswered =>
        /\ \A i \in DOMAIN session.log : session.log[i] \notin failed
        /\ \A i \in DOMAIN durable : durable[i] \notin failed

(* Inductive: what makes the three properties above hold for disciplined    *)
(* callbacks.  Calls are numbered in the order of the stack; the log of an  *)
(* active transaction is cut by the bases of the calls into the work of     *)
(* each; and their savepoints stand in the order of the stack.              *)
StackOrder ==
    /\ ctl = "idle" => calls = 0
    /\ Len(frames) <= calls /\ calls <= MaxCalls
    /\ failed \subseteq 1 .. calls
    /\ \A k \in 1 .. Len(frames) : frames[k].id \in (1 .. calls) \ failed
    /\ \A j, k \in 1 .. Len(frames) :
          j < k => frames[j].id < frames[k].id /\ frames[j].base <= frames[k].base

LogByCall ==
    /\ sqlTx # "active" => session = EmptySession
    /\ \A i \in DOMAIN session.log : session.log[i] \in 1 .. calls
    /\ sqlTx = "active" =>
          \A k \in 1 .. Len(frames) :
              /\ frames[k].base <= Len(session.log)
              /\ \A i \in DOMAIN session.log :
                    i > frames[k].base <=> session.log[i] >= frames[k].id

MarksByCall ==
    sqlTx = "active" =>
        \A j, k \in 2 .. Len(frames) :
            j < k => \A p \in Named(j - 2), q \in Named(k - 2) : p < q

NothingYet == ctl = "idle" \/ frames # <<>> => durable = <<>>

NestInv ==
    Disciplined =>
        /\ LevelIsNesting /\ SavepointOfCall /\ NoFailedWork
        /\ StackOrder /\ LogByCall /\ MarksByCall /\ NothingYet
=============================================================================

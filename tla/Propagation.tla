------------------------------ MODULE Propagation ------------------------------
(***************************************************************************)
(* Which transaction a statement runs in: TransactionWithOptions and its   *)
(* seven propagation modes, the table of transactions a context carries,   *)
(* and the connections of the pools (db/tx.go:12-134, 289-373,             *)
(* db/db.go:350-411, dsl/exec.go:40-63).                                   *)
(*                                                                         *)
(* A context holds a reference to a table; `tables' is the heap of tables, *)
(* so that a table two contexts share would be seen to change under both.  *)
(* A scope identifies a pool.  What nested calls do to one transaction is  *)
(* taken from NestedWork, which Tx implements: a transaction is a stack of *)
(* units, each the set of writes it holds, and a unit whose end the        *)
(* database refuses stays with the one around it (Stuck there).  A panic   *)
(* ends the calls it passes as their errors would (see Tx): here callbacks *)
(* return nil or an error, and make every call with the context they were  *)
(* given.                                                                  *)
(*                                                                         *)
(* Beside its table a context carries, as a ghost, for each scope the      *)
(* calls whose outcome a write made with it shares by db/tx.go:15-28.      *)
(***************************************************************************)
EXTENDS Integers, Sequences, FiniteSets

CONSTANTS
    Procs,      \* the goroutines
    Scopes,     \* the pools
    MaxConns,   \* MaxOpenConns of each pool
    Modes,      \* the propagation modes that callbacks ask for
    Faults,     \* "begin", "commit": BeginTx or COMMIT fails; "answer": COMMIT
                \* takes effect and is answered by an error; "savepoint",
                \* "ending": SAVEPOINT, or RELEASE or ROLLBACK TO SAVEPOINT, is
                \* refused in a transaction that lives on; "cancel": the context
                \* of a transaction ends
    MaxCalls,   \* bound: calls in all
    MaxDepth,   \* bound: calls of one goroutine inside each other
    MaxWrites   \* bound: writes begun in all

Propagations == {"nested", "required", "supports", "requires_new", "not_supported",
                 "mandatory", "never"}

ASSUME PropagationAssumption ==
    /\ MaxConns \in [Scopes -> Nat \ {0}]
    /\ Modes \subseteq Propagations
    /\ Faults \subseteq {"begin", "commit", "answer", "savepoint", "ending", "cancel"}
    /\ MaxCalls \in Nat /\ MaxDepth \in Nat /\ MaxWrites \in Nat

VARIABLES
    tables,   \* every txTable made; a context refers to one by its index
    txs,      \* every Tx made
    stack,    \* per goroutine: the calls under way, the outermost first
    wants,    \* per goroutine: what it waits for a connection to do, if anything
    durable,  \* the writes the databases have committed
    written,  \* history: of every write accepted, the calls whose outcome it shares
    outcome   \* history: of every call "running", "ok", "failed", or "kept": it
              \* failed by the answer to the statement that was to end it, after
              \* which the database still has its writes

vars == <<tables, txs, stack, wants, durable, written, outcome>>

None == 0

Stays == {"ok", "kept"}

(* A context is [table, units]: its txTable and, per scope, the calls its   *)
(* transaction belongs to.  A Tx is [scope, by, units, active, closed], and *)
(* a frame of TransactionWithOptions [call, ctx, tx, ends]: what its return *)
(* ends is "tx", "savepoint" or "nothing".                                  *)
Idle == [to |-> "nothing", on |-> None]

Background == [table |-> 1, units |-> [s \in Scopes |-> <<>>]]

Init ==
    /\ tables = << [s \in Scopes |-> None] >> /\ txs = <<>>
    /\ stack = [p \in Procs |-> <<>>]
    /\ wants = [p \in Procs |-> Idle]
    /\ durable = {} /\ written = <<>> /\ outcome = <<>>
-----------------------------------------------------------------------------
Depth(p)   == Len(stack[p])
Top(p)     == stack[p][Depth(p)]
CtxOf(p)   == IF stack[p] = <<>> THEN Background ELSE Top(p).ctx
Running(p) == wants[p] = Idle

(* DB.TxFromContext: the open transaction a context has for the pool. *)
TxFromContext(ctx, s) ==
    LET t == tables[ctx.table][s] IN
    IF t # None /\ ~txs[t].closed THEN t ELSE None

(* Mutant: the table of the context is written, and the child shares it. *)
withScopeTxInPlace(ctx, s, t) ==
    LET table == [tables[ctx.table] EXCEPT ![s] = t] IN
    tables' = Append([tables EXCEPT ![ctx.table] = table], table)

(* withScopeTx: the child context gets a copy of the table, changed.  Child *)
(* is the child context and its ghost.                                      *)
withScopeTx(ctx, s, t) == tables' = Append(tables, [tables[ctx.table] EXCEPT ![s] = t])

Child(ctx, s, units) ==
    [table |-> Len(tables) + 1, units |-> [ctx.units EXCEPT ![s] = units]]

Push(p, ctx, t, ends) ==
    /\ stack' = [stack EXCEPT ![p] =
                    Append(@, [call |-> Len(outcome) + 1, ctx |-> ctx, tx |-> t, ends |-> ends])]
    /\ outcome' = Append(outcome, "running")

Refused == outcome' = Append(outcome, "failed") /\ UNCHANGED stack

(* An active transaction has a connection of its pool. *)
Free(s) == Cardinality({t \in DOMAIN txs : txs[t].scope = s /\ txs[t].active}) < MaxConns[s]
-----------------------------------------------------------------------------
(* TransactionWithOptions, by mode and by what the context carries. *)

MayCall(p, mode) ==
    Running(p) /\ mode \in Modes /\ Len(outcome) < MaxCalls /\ Depth(p) < MaxDepth

(* The callback gets the caller's context, or the call is refused. *)
Join(p, s, mode) ==
    LET current == TxFromContext(CtxOf(p), s) IN
    /\ MayCall(p, mode)
    /\ \/ /\ \/ mode \in {"required", "mandatory"} /\ current # None
             \/ mode = "supports"
             \/ mode = "never" /\ current = None
          /\ Push(p, CtxOf(p), current, "nothing")
       \/ /\ \/ mode = "mandatory" /\ current = None
             \/ mode = "never" /\ current # None
          /\ Refused
    /\ UNCHANGED <<tables, txs, wants, durable, written>>

Suspend(p, s, mode) ==
    /\ MayCall(p, mode) /\ mode = "not_supported"
    /\ withScopeTx(CtxOf(p), s, None)
    /\ Push(p, Child(CtxOf(p), s, <<>>), None, "nothing")
    /\ UNCHANGED <<txs, wants, durable, written>>

(* Tx.Transaction; its SAVEPOINT is refused when the transaction is over,   *)
(* and may be when it is not.                                               *)
Nest(p, s, mode) ==
    LET ctx     == CtxOf(p)
        current == TxFromContext(ctx, s) IN
    /\ MayCall(p, mode) /\ mode = "nested" /\ current # None
    /\ \/ /\ txs[current].active
          /\ txs' = [txs EXCEPT ![current].units = Append(@, {})]
          /\ withScopeTx(ctx, s, current)
          /\ Push(p, Child(ctx, s, Append(ctx.units[s], Len(outcome) + 1)), current, "savepoint")
       \/ /\ ~txs[current].active \/ "savepoint" \in Faults
          /\ Refused /\ UNCHANGED <<tables, txs>>
    /\ UNCHANGED <<wants, durable, written>>

(* runNew asks the pool for a connection. *)
RunNew(p, s, mode) ==
    /\ MayCall(p, mode)
    /\ \/ mode = "requires_new"
       \/ mode \in {"required", "nested"} /\ TxFromContext(CtxOf(p), s) = None
    /\ wants' = [wants EXCEPT ![p] = [to |-> mode, on |-> s]]
    /\ UNCHANGED <<tables, txs, stack, durable, written, outcome>>

(* It gets one, and BeginTx succeeds or fails. *)
Begin(p) ==
    LET s == wants[p].on IN
    /\ wants[p].to \in Modes /\ Free(s)
    /\ wants' = [wants EXCEPT ![p] = Idle]
    /\ \/ /\ txs' = Append(txs, [scope |-> s, by |-> p, units |-> << {} >>,
                                 active |-> TRUE, closed |-> FALSE])
          /\ withScopeTx(CtxOf(p), s, Len(txs) + 1)
          /\ Push(p, Child(CtxOf(p), s, <<Len(outcome) + 1>>), Len(txs) + 1, "tx")
       \/ "begin" \in Faults /\ Refused /\ UNCHANGED <<tables, txs>>
    /\ UNCHANGED <<durable, written>>
-----------------------------------------------------------------------------
(* The callback returns nil or an error, and its call returns. *)

Leave(p, ends, result) ==
    /\ Running(p) /\ stack[p] # <<>> /\ Top(p).ends = ends
    /\ stack' = [stack EXCEPT ![p] = SubSeq(@, 1, Depth(p) - 1)]
    /\ outcome' = [outcome EXCEPT ![Top(p).call] = result]
    /\ UNCHANGED <<tables, wants, written>>

LeaveJoined(p) ==
    /\ \E result \in {"ok", "failed"} : Leave(p, "nothing", result)
    /\ UNCHANGED <<txs, durable>>

(* finishTx of a nested call.  A transaction that is over answers with an   *)
(* error, or is not asked when the dialect has no RELEASE.  When one that   *)
(* lives on refuses RELEASE or ROLLBACK TO SAVEPOINT the call fails and its *)
(* writes stay in the unit around it.                                       *)
LeaveNested(p) ==
    LET t     == Top(p).tx
        units == txs[t].units
        outer == SubSeq(units, 1, Len(units) - 1) IN
    /\ \E result \in Stays \cup {"failed"} :
          /\ Leave(p, "savepoint", result)
          /\ result = "kept" => txs[t].active /\ "ending" \in Faults
          /\ txs' = IF ~txs[t].active THEN txs
                    ELSE [txs EXCEPT ![t].units =
                             IF result \in Stays
                             THEN [outer EXCEPT ![Len(outer)] = @ \cup units[Len(units)]]
                             ELSE outer]
    /\ UNCHANGED durable

Over(t, closed) ==
    txs' = [txs EXCEPT ![t] = [scope |-> @.scope, by |-> @.by, units |-> <<>>,
                               active |-> FALSE, closed |-> closed]]

(* COMMIT takes effect; its answer may be lost.  Only a statement that is   *)
(* answered with success sets closed.                                       *)
CommitNew(p) ==
    LET t == Top(p).tx IN
    \E result \in Stays :
       /\ Leave(p, "tx", result)
       /\ txs[t].active /\ (result = "kept" => "answer" \in Faults)
       /\ Over(t, result = "ok")
       /\ durable' = durable \cup txs[t].units[1]

(* Mutant: an error of the callback is returned and nothing rolled back. *)
LeaveNewOpen(p) ==
    LET t == Top(p).tx IN
    \/ CommitNew(p)
    \/ /\ Leave(p, "tx", "failed")
       /\ UNCHANGED <<txs, durable>>

(* finishTx of runNew: COMMIT, a COMMIT that fails, or ROLLBACK. *)
LeaveNew(p) ==
    LET t == Top(p).tx IN
    \/ CommitNew(p)
    \/ /\ Leave(p, "tx", "failed") /\ (~txs[t].active \/ "commit" \in Faults)
       /\ Over(t, FALSE)
       /\ UNCHANGED durable
    \/ /\ Leave(p, "tx", "failed") /\ txs[t].active
       /\ Over(t, TRUE)
       /\ UNCHANGED durable
-----------------------------------------------------------------------------
(* Statements.                                                              *)

MayWrite(p) ==
    Running(p) /\ Len(written) + Cardinality({q \in Procs : wants[q].to = "write"}) < MaxWrites

(* Mutant: the transaction of the context is not looked up. *)
WriteOutside(p, s) ==
    /\ MayWrite(p)
    /\ wants' = [wants EXCEPT ![p] = [to |-> "write", on |-> s]]
    /\ UNCHANGED <<txs, written, tables, stack, durable, outcome>>

(* DB.Exec: the transaction the context carries, or a connection of the     *)
(* pool.  A transaction that is over answers with an error.                 *)
Write(p, s) ==
    LET ctx     == CtxOf(p)
        current == TxFromContext(ctx, s)
        units   == txs[current].units IN
    /\ MayWrite(p)
    /\ \/ /\ current # None /\ txs[current].active
          /\ txs' = [txs EXCEPT ![current].units =
                        [units EXCEPT ![Len(units)] = @ \cup {Len(written) + 1}]]
          /\ written' = Append(written, ctx.units[s])
          /\ UNCHANGED wants
       \/ /\ current = None
          /\ wants' = [wants EXCEPT ![p] = [to |-> "write", on |-> s]]
          /\ UNCHANGED <<txs, written>>
    /\ UNCHANGED <<tables, stack, durable, outcome>>

(* The connection is there: the write is durable when it returns. *)
WriteAlone(p) ==
    /\ wants[p].to = "write" /\ Free(wants[p].on)
    /\ wants' = [wants EXCEPT ![p] = Idle]
    /\ durable' = durable \cup {Len(written) + 1}
    /\ written' = Append(written, CtxOf(p).units[wants[p].on])
    /\ UNCHANGED <<tables, txs, stack, outcome>>

(* External: the context of a transaction ends and database/sql rolls back. *)
CtxDone(t) ==
    /\ "cancel" \in Faults /\ txs[t].active
    /\ Over(t, FALSE)
    /\ UNCHANGED <<tables, stack, wants, durable, written, outcome>>
-----------------------------------------------------------------------------
Step(p) ==
    \/ Begin(p) \/ WriteAlone(p)
    \/ LeaveJoined(p) \/ LeaveNested(p) \/ LeaveNew(p)
    \/ \E s \in Scopes :
          \/ Write(p, s)
          \/ \E mode \in Modes : Join(p, s, mode) \/ Suspend(p, s, mode) \/ Nest(p, s, mode) \/ RunNew(p, s, mode)

Terminated ==
    /\ \A p \in Procs : stack[p] = <<>> /\ Running(p)
    /\ Len(outcome) >= MaxCalls /\ Len(written) >= MaxWrites
    /\ UNCHANGED vars

Next == (\E p \in Procs : Step(p)) \/ (\E t \in DOMAIN txs : CtxDone(t)) \/ Terminated

Spec == Init /\ [][Next]_vars

(* Callbacks return and goroutines are scheduled; a goroutine that waits    *)
(* for a connection gets one that stays free (database/sql serves waiting   *)
(* requests in the order of their coming).                                  *)
FairSpec == Spec /\ \A p \in Procs : WF_vars(Step(p))
-----------------------------------------------------------------------------
(* Properties.                                                              *)

(* A write is durable exactly when every call it belongs to has succeeded,  *)
(* or has failed only by the answer to the statement that was to end it     *)
(* ("kept"): one in a joined call shares the fate of the transaction        *)
(* joined, one in a nested call that of the call and of those around it,    *)
(* one in a call with requires_new only that of this call, and one that     *)
(* runs without a transaction is durable at once, on every pool and in      *)
(* every combination of the modes.  So a call whose callback failed leaves  *)
(* nothing behind, unless the database refused its ROLLBACK TO SAVEPOINT    *)
(* and every call around it stays (db/tx.go:15-28, 68, 162-191, 279-288).   *)
WorkFollowsUnits ==
    \A w \in DOMAIN written :
        w \in durable <=> \A i \in DOMAIN written[w] : outcome[written[w][i]] \in Stays

(* A goroutine waits for a connection of a pool while one of its own        *)
(* transactions holds one only when it asked to leave that transaction:     *)
(* a joined or nested call and their statements can always go on            *)
(* (db/tx.go:81-115, db/db.go:403-411).                                     *)
WaitsOnlyWhenSuspended ==
    \A p \in Procs :
        /\ ~Running(p)
        /\ \E t \in DOMAIN txs : txs[t].by = p /\ txs[t].scope = wants[p].on /\ txs[t].active
        => wants[p].to = "requires_new" \/ CtxOf(p).units[wants[p].on] = <<>>

(* A goroutine that is outside all calls has no transaction and with it no  *)
(* connection (db/tx.go:117-134).                                           *)
ReturnedHoldsNothing ==
    \A p \in Procs : stack[p] = <<>> => \A t \in DOMAIN txs : txs[t].by = p => ~txs[t].active

(* When no call leaves the transaction it is in, a pool with a single       *)
(* connection is enough for every call to return (db/tx.go:81-115).         *)
CallsReturn == \A p \in Procs : stack[p] # <<>> \/ ~Running(p) ~> stack[p] = <<>> /\ Running(p)
=============================================================================

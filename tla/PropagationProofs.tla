--------------------------- MODULE PropagationProofs ---------------------------
(***************************************************************************)
(* Proofs about Propagation, for any goroutines, pools and calls.          *)
(*                                                                         *)
(* PInv relates the three things that Propagation keeps apart: the frames  *)
(* of the calls under way, the units of the transactions, and the calls    *)
(* each write belongs to.  A frame owns the transaction or the savepoint   *)
(* it ends; the calls of the owners of a transaction are the chain that    *)
(* its contexts carry, and what a unit holds are the writes of its owner   *)
(* whose later calls have all succeeded or been kept.                      *)
(***************************************************************************)
EXTENDS Propagation, TLAPS, SequenceTheorems, FiniteSetTheorems

Context == [table : Nat, units : [Scopes -> Seq(Nat)]]
Frame   == [call : Nat, ctx : Context, tx : Nat, ends : {"tx", "savepoint", "nothing"}]
TxRec   == [scope : Scopes, by : Procs, units : Seq(SUBSET Nat), active : BOOLEAN,
            closed : BOOLEAN]
Results == {"ok", "failed", "kept"}
Want    == [to : {"nothing", "write"} \cup Propagations, on : Scopes \cup {None}]

Typed ==
    /\ tables \in Seq([Scopes -> Nat]) /\ txs \in Seq(TxRec)
    /\ 1 \in DOMAIN tables /\ tables[1] = [s \in Scopes |-> None]
    /\ stack \in [Procs -> Seq(Frame)] /\ wants \in [Procs -> Want]
    /\ written \in Seq(Seq(Nat)) /\ durable \subseteq DOMAIN written
    /\ outcome \in Seq({"running", "ok", "failed", "kept"})

(* What the frame n of a goroutine sees of a pool, and the calls its writes *)
(* there belong to.                                                         *)
Seen(p, n, s)  == tables[stack[p][n].ctx.table][s]
Chain(p, n, s) == stack[p][n].ctx.units[s]
Owns(p, n, t)  == stack[p][n].tx = t /\ stack[p][n].ends # "nothing"
Own(p, n)      == Chain(p, n, txs[stack[p][n].tx].scope)

(* The sequence c is the first i members of u. *)
Cut(c, u, i) == Len(c) = i /\ \A j \in 1 .. i : c[j] = u[j]

(* The calls of the frames are running, and no two frames are of one call. *)
FramesOk ==
    /\ \A p \in Procs : \A n \in 1 .. Depth(p) :
          /\ stack[p][n].call \in DOMAIN outcome /\ outcome[stack[p][n].call] = "running"
          /\ stack[p][n].ctx.table \in DOMAIN tables
          /\ stack[p][n].tx \in 0 .. Len(txs)
    /\ \A p, q \in Procs : \A n \in 1 .. Depth(p), m \in 1 .. Depth(q) :
          stack[p][n].call = stack[q][m].call => p = q /\ n = m

(* A context that has a transaction carries the calls of its owners, in     *)
(* order: every prefix of its chain is that of one of them.                 *)
SeesOk(p, n, s, t, u) ==
    IF t = None THEN u = <<>>
    ELSE /\ t \in DOMAIN txs /\ u # <<>>
         /\ txs[t].scope = s /\ txs[t].by = p /\ ~txs[t].closed
         /\ \A i \in DOMAIN u : \E k \in 1 .. n :
               Owns(p, k, t) /\ Cut(Chain(p, k, s), u, i) /\ stack[p][k].call = u[i]
         /\ \A k \in 1 .. n : Owns(p, k, t) => \E i \in DOMAIN u :
               Cut(Chain(p, k, s), u, i) /\ stack[p][k].call = u[i]

ContextOk(p, n) ==
    \A s \in Scopes : \A t \in {Seen(p, n, s)}, u \in {Chain(p, n, s)} : SeesOk(p, n, s, t, u)

(* An owner sees what it owns; its call is the last of its chain. *)
OwnerOk(p, n) ==
    stack[p][n].ends # "nothing" =>
        LET t == stack[p][n].tx IN
        /\ t \in DOMAIN txs /\ txs[t].by = p /\ Seen(p, n, txs[t].scope) = t
        /\ stack[p][n].call = Own(p, n)[Len(Own(p, n))]
        /\ stack[p][n].ends = "tx" <=> Len(Own(p, n)) = 1

(* The writes of the call x, the i-th of theirs, that are not undone yet. *)
Work(x, i) ==
    {w \in DOMAIN written :
        /\ i \in DOMAIN written[w] /\ written[w][i] = x
        /\ \A j \in DOMAIN written[w] : j > i => outcome[written[w][j]] \in Stays}

(* The units of an active transaction are those of its owners. *)
UnitsOf(t, p, s) ==
    /\ \E n \in 1 .. Depth(p) : Owns(p, n, t) /\ Len(Chain(p, n, s)) = Len(txs[t].units)
    /\ \A n \in 1 .. Depth(p) : Owns(p, n, t) =>
          \A x \in {stack[p][n].call}, i \in {Len(Chain(p, n, s))} :
             i \in DOMAIN txs[t].units /\ txs[t].units[i] = Work(x, i)

UnitsOk(t) ==
    txs[t].active => \A p \in {txs[t].by}, s \in {txs[t].scope} : UnitsOf(t, p, s)

(* A write belongs to calls that own something, in the order of their chain. *)
WrittenOk ==
    \A w \in DOMAIN written : \A j \in DOMAIN written[w] :
        /\ written[w][j] \in DOMAIN outcome
        /\ \A p \in Procs : \A n \in 1 .. Depth(p) : stack[p][n].call = written[w][j] =>
              stack[p][n].ends # "nothing" /\ Cut(Own(p, n), written[w], j)

(* Who waits has asked to leave the transaction of the context, or it has none. *)
WaitsOk ==
    \A p \in Procs : ~Running(p) =>
        /\ wants[p].on \in Scopes /\ wants[p].to # "nothing"
        /\ wants[p].to = "requires_new" \/ CtxOf(p).units[wants[p].on] = <<>>

PInv ==
    /\ Typed /\ FramesOk /\ WrittenOk /\ WaitsOk /\ WorkFollowsUnits
    /\ \A p \in Procs : \A n \in 1 .. Depth(p) : ContextOk(p, n) /\ OwnerOk(p, n)
    /\ \A t \in DOMAIN txs : UnitsOk(t)
-----------------------------------------------------------------------------
(* A call whose writes stay has returned, and not as one that failed. *)
LEMMA StaysReturned ==
    /\ "running" \notin Stays /\ "failed" \notin Stays
    /\ \A r \in Results : r \in Stays <=> r # "failed"
BY DEF Stays, Results

(* What the invariant says of one frame.                                    *)

(* The types of a frame and of what it sees. *)
LEMMA FrameTypes ==
    ASSUME Typed, NEW p \in Procs
    PROVE  /\ stack[p] \in Seq(Frame) /\ Depth(p) \in Nat
           /\ \A n \in 1 .. Depth(p) :
                 /\ stack[p][n] \in Frame /\ stack[p][n].call \in Nat /\ stack[p][n].tx \in Nat
                 /\ stack[p][n].ctx \in Context /\ stack[p][n].ctx.table \in Nat
                 /\ stack[p][n].ends \in {"tx", "savepoint", "nothing"}
                 /\ \A s \in Scopes : Chain(p, n, s) \in Seq(Nat) /\ Len(Chain(p, n, s)) \in Nat
<1>1. stack[p] \in Seq(Frame) /\ Depth(p) \in Nat /\ DOMAIN stack[p] = 1 .. Depth(p)
  BY DEF Typed, Depth
<1>2. ASSUME NEW n \in 1 .. Depth(p)
      PROVE  /\ stack[p][n] \in Frame /\ stack[p][n].call \in Nat /\ stack[p][n].tx \in Nat
             /\ stack[p][n].ctx \in Context /\ stack[p][n].ctx.table \in Nat
             /\ stack[p][n].ends \in {"tx", "savepoint", "nothing"}
             /\ \A s \in Scopes : Chain(p, n, s) \in Seq(Nat) /\ Len(Chain(p, n, s)) \in Nat
  <2>1. stack[p][n] \in Frame
    BY <1>1
  <2>2. stack[p][n].ctx \in Context
    BY <2>1 DEF Frame
  <2>3. stack[p][n].ctx.units \in [Scopes -> Seq(Nat)]
    BY <2>2 DEF Context
  <2>4. \A s \in Scopes : Chain(p, n, s) \in Seq(Nat) /\ Len(Chain(p, n, s)) \in Nat
    BY <2>3 DEF Chain
  <2>5. QED
    BY <2>1, <2>2, <2>4 DEF Frame, Context
<1>3. QED
  BY <1>1, <1>2

(* The types of a transaction. *)
LEMMA TxTypes ==
    ASSUME Typed, NEW t \in DOMAIN txs
    PROVE  /\ txs[t] \in TxRec /\ txs[t].scope \in Scopes /\ txs[t].by \in Procs
           /\ txs[t].units \in Seq(SUBSET Nat) /\ Len(txs[t].units) \in Nat
           /\ txs[t].active \in BOOLEAN /\ txs[t].closed \in BOOLEAN
           /\ t \in Nat /\ t # None
<1>1. txs \in Seq(TxRec)
  BY DEF Typed
<1>2. txs[t] \in TxRec /\ t \in Nat /\ t # None
  BY <1>1 DEF None
<1>3. QED
  BY <1>2 DEF TxRec

(* What an owner sees is what it owns. *)
LEMMA OwnerSees ==
    ASSUME PInv, NEW p \in Procs, NEW n \in 1 .. Depth(p), NEW t, Owns(p, n, t)
    PROVE  LET s == txs[t].scope
               u == Chain(p, n, s)
           IN /\ t \in DOMAIN txs /\ s \in Scopes /\ txs[t].by = p /\ ~txs[t].closed
              /\ t = stack[p][n].tx /\ Seen(p, n, s) = t /\ u = Own(p, n)
              /\ u \in Seq(Nat) /\ Len(u) \in DOMAIN u /\ Len(u) \in Nat \ {0}
              /\ stack[p][n].call = u[Len(u)]
              /\ stack[p][n].ends = "tx" <=> Len(u) = 1
<1> DEFINE s == txs[t].scope
           u == Chain(p, n, s)
<1>1. /\ stack[p][n].tx = t /\ stack[p][n].ends # "nothing"
      /\ OwnerOk(p, n) /\ ContextOk(p, n) /\ Typed
  BY DEF Owns, PInv
<1>2. t \in DOMAIN txs /\ txs[t].by = p /\ Seen(p, n, s) = t
  BY <1>1 DEF OwnerOk
<1>3. s \in Scopes /\ t # None
  BY <1>1, <1>2, TxTypes
<1>4. u \in Seq(Nat) /\ u # <<>> /\ ~txs[t].closed
  BY <1>1, <1>2, <1>3, FrameTypes DEF ContextOk, SeesOk
<1>5. u = Own(p, n)
  BY <1>1 DEF Own
<1>6. Len(u) \in DOMAIN u /\ Len(u) \in Nat \ {0}
  <2> HIDE DEF u
  <2>1. QED
    BY <1>4
<1>7. stack[p][n].call = u[Len(u)] /\ (stack[p][n].ends = "tx" <=> Len(u) = 1)
  BY <1>1, <1>5 DEF OwnerOk
<1>8. QED
  BY <1>1, <1>2, <1>3, <1>4, <1>5, <1>6, <1>7

(* A context that sees a transaction sees the chain of its owners. *)
LEMMA ContextSees ==
    ASSUME PInv, NEW p \in Procs, NEW n \in 1 .. Depth(p), NEW s \in Scopes
    PROVE  LET t == Seen(p, n, s)
               u == Chain(p, n, s)
           IN /\ u \in Seq(Nat)
              /\ t = None => u = <<>>
              /\ t # None =>
                    /\ t \in DOMAIN txs /\ txs[t].scope = s /\ txs[t].by = p /\ ~txs[t].closed
                    /\ Len(u) \in DOMAIN u /\ 1 \in DOMAIN u /\ Len(u) \in Nat \ {0}
                    /\ \A i \in DOMAIN u : \E k \in 1 .. n :
                          Owns(p, k, t) /\ Cut(Chain(p, k, s), u, i) /\ stack[p][k].call = u[i]
                    /\ \A k \in 1 .. n : Owns(p, k, t) => \E i \in DOMAIN u :
                          Cut(Chain(p, k, s), u, i) /\ stack[p][k].call = u[i]
<1> DEFINE t == Seen(p, n, s)
           u == Chain(p, n, s)
<1>1. ContextOk(p, n) /\ Typed
  BY DEF PInv
<1>2. u \in Seq(Nat)
  BY <1>1, FrameTypes
<1>3. t = None => u = <<>>
  BY <1>1 DEF ContextOk, SeesOk
<1>4. ASSUME t # None
      PROVE  /\ t \in DOMAIN txs /\ u # <<>>
             /\ txs[t].scope = s /\ txs[t].by = p /\ ~txs[t].closed
             /\ \A i \in DOMAIN u : \E k \in 1 .. n :
                   Owns(p, k, t) /\ Cut(Chain(p, k, s), u, i) /\ stack[p][k].call = u[i]
             /\ \A k \in 1 .. n : Owns(p, k, t) => \E i \in DOMAIN u :
                   Cut(Chain(p, k, s), u, i) /\ stack[p][k].call = u[i]
  BY <1>1, <1>4 DEF ContextOk, SeesOk
<1>5. u # <<>> => Len(u) \in DOMAIN u /\ 1 \in DOMAIN u /\ Len(u) \in Nat \ {0}
  <2> HIDE DEF u
  <2>1. QED
    BY <1>2
<1> HIDE DEF t, u
<1>6. QED
  BY <1>2, <1>3, <1>4, <1>5 DEF t, u

(* Two owners whose calls one write belongs to own the same transaction. *)
LEMMA Shared ==
    ASSUME PInv, NEW p \in Procs, NEW n \in 1 .. Depth(p),
           NEW q \in Procs, NEW m \in 1 .. Depth(q), NEW w \in DOMAIN written,
           NEW i \in DOMAIN written[w], NEW j \in DOMAIN written[w], i <= j,
           written[w][i] = stack[p][n].call, written[w][j] = stack[q][m].call
    PROVE  p = q /\ stack[p][n].tx = stack[q][m].tx
<1> DEFINE t == stack[q][m].tx
           s == txs[t].scope
           u == Chain(q, m, s)
<1>1. Owns(q, m, t) /\ Cut(Own(q, m), written[w], j) /\ written[w] \in Seq(Nat)
  <2>1. Typed /\ WrittenOk
    BY DEF PInv
  <2>2. stack[q][m].ends # "nothing" /\ Cut(Own(q, m), written[w], j)
    BY <2>1 DEF WrittenOk
  <2>3. written \in Seq(Seq(Nat))
    BY <2>1 DEF Typed
  <2>4. written[w] \in Seq(Nat)
    BY <2>3
  <2>5. QED
    BY <2>2, <2>4 DEF Owns
<1>2. /\ s \in Scopes /\ Seen(q, m, s) = t /\ t # None /\ u = Own(q, m) /\ u \in Seq(Nat)
      /\ t \in DOMAIN txs
  BY <1>1, OwnerSees, TxTypes DEF PInv
<1>3. i \in DOMAIN u /\ u[i] = written[w][i]
  <2> HIDE DEF u
  <2>1. Len(u) = j /\ \A l \in 1 .. j : u[l] = written[w][l]
    BY <1>1, <1>2 DEF Cut
  <2>2. i \in 1 .. j
    BY <1>1
  <2>3. QED
    BY <1>2, <2>1, <2>2
<1>4. PICK k \in 1 .. m : Owns(q, k, t) /\ stack[q][k].call = u[i]
  BY <1>2, <1>3, ContextSees
<1>5. k \in 1 .. Depth(q)
  BY FrameTypes DEF PInv
<1>6. p = q /\ n = k
  BY <1>3, <1>4, <1>5 DEF PInv, FramesOk
<1>7. QED
  BY <1>4, <1>6 DEF Owns

(* The calls of a chain are those of frames below, and they are running. *)
LEMMA ChainRuns ==
    ASSUME PInv, NEW p \in Procs, NEW n \in 1 .. Depth(p), NEW s \in Scopes,
           NEW i \in DOMAIN Chain(p, n, s)
    PROVE  \E k \in 1 .. n :
              /\ k \in 1 .. Depth(p) /\ Owns(p, k, Seen(p, n, s))
              /\ Cut(Chain(p, k, s), Chain(p, n, s), i)
              /\ stack[p][k].call = Chain(p, n, s)[i]
              /\ Chain(p, n, s)[i] \in DOMAIN outcome
              /\ outcome[Chain(p, n, s)[i]] = "running"
<1>1. Seen(p, n, s) # None
  BY ContextSees
<1>2. PICK k \in 1 .. n : /\ Owns(p, k, Seen(p, n, s))
                          /\ Cut(Chain(p, k, s), Chain(p, n, s), i)
                          /\ stack[p][k].call = Chain(p, n, s)[i]
  BY <1>1, ContextSees
<1>3. k \in 1 .. Depth(p)
  BY FrameTypes DEF PInv
<1>4. stack[p][k].call \in DOMAIN outcome /\ outcome[stack[p][k].call] = "running"
  BY <1>3 DEF PInv, FramesOk
<1>5. QED
  BY <1>2, <1>3, <1>4

(* What a call finds in the context it is made with. *)
LEMMA TopContext ==
    ASSUME PInv, NEW p \in Procs, NEW s \in Scopes
    PROVE  LET t == tables[CtxOf(p).table][s]
               u == CtxOf(p).units[s]
           IN /\ CtxOf(p) \in Context /\ CtxOf(p).table \in DOMAIN tables
              /\ t \in Nat /\ u \in Seq(Nat)
              /\ TxFromContext(CtxOf(p), s) = t
              /\ SeesOk(p, Depth(p), s, t, u)
              /\ t # None => /\ Depth(p) \in 1 .. Depth(p)
                             /\ t = Seen(p, Depth(p), s) /\ u = Chain(p, Depth(p), s)
<1> DEFINE t == tables[CtxOf(p).table][s]
           u == CtxOf(p).units[s]
<1>0. Typed
  BY DEF PInv
<1>1. CASE stack[p] = <<>>
  <2>1. CtxOf(p) = Background /\ Background.table = 1 /\ Background.units = [x \in Scopes |-> <<>>]
    BY <1>1 DEF CtxOf, Background
  <2>2. t = None /\ u = <<>>
    BY <1>0, <2>1 DEF Typed
  <2>3. [x \in Scopes |-> <<>>] \in [Scopes -> Seq(Nat)]
    OBVIOUS
  <2>4. CtxOf(p) \in Context /\ CtxOf(p).table \in DOMAIN tables
    BY <1>0, <2>1, <2>3 DEF Typed, Background, Context
  <2>5. TxFromContext(CtxOf(p), s) = None
    BY <2>2 DEF TxFromContext
  <2>6. QED
    BY <2>2, <2>4, <2>5 DEF SeesOk, None
<1>2. CASE stack[p] # <<>>
  <2>1. stack[p] \in Seq(Frame) /\ Depth(p) = Len(stack[p]) /\ Depth(p) \in 1 .. Depth(p)
    BY <1>0, <1>2, FrameTypes DEF Depth
  <2>2. CtxOf(p) = stack[p][Depth(p)].ctx
    BY <1>2 DEF CtxOf, Top
  <2>3. t = Seen(p, Depth(p), s) /\ u = Chain(p, Depth(p), s)
    BY <2>2 DEF Seen, Chain
  <2>4. ContextOk(p, Depth(p))
    BY <2>1 DEF PInv
  <2>5. SeesOk(p, Depth(p), s, t, u)
    BY <2>3, <2>4 DEF ContextOk
  <2>6. CtxOf(p) \in Context /\ CtxOf(p).table \in DOMAIN tables
    <3>1. stack[p][Depth(p)].ctx \in Context
      BY <1>0, <2>1, FrameTypes
    <3>2. stack[p][Depth(p)].ctx.table \in DOMAIN tables
      BY <2>1 DEF PInv, FramesOk
    <3>3. QED
      BY <2>2, <3>1, <3>2
  <2>7. t \in Nat /\ u \in Seq(Nat)
    <3>1. tables[CtxOf(p).table] \in [Scopes -> Nat] /\ CtxOf(p).units \in [Scopes -> Seq(Nat)]
      BY <1>0, <2>6 DEF Typed, Context
    <3>2. QED
      BY <3>1
  <2>8. TxFromContext(CtxOf(p), s) = t
    BY <2>5 DEF TxFromContext, SeesOk
  <2>9. QED
    BY <2>1, <2>3, <2>5, <2>6, <2>7, <2>8
<1>3. QED
  BY <1>1, <1>2

(* The context of the innermost frame carries the owners of every unit. *)
LEMMA TopChain ==
    ASSUME PInv, NEW p \in Procs, Depth(p) \in 1 .. Depth(p), NEW s \in Scopes,
           NEW t, t = Seen(p, Depth(p), s), t # None, txs[t].active
    PROVE  /\ t \in DOMAIN txs /\ txs[t].by = p /\ txs[t].scope = s
           /\ Len(Chain(p, Depth(p), s)) = Len(txs[t].units)
           /\ Len(txs[t].units) \in DOMAIN txs[t].units
<1> DEFINE D == Depth(p)
           u == Chain(p, D, s)
<1>1. /\ t \in DOMAIN txs /\ txs[t].scope = s /\ txs[t].by = p /\ u \in Seq(Nat)
      /\ Len(u) \in DOMAIN u /\ Len(u) \in Nat
      /\ \A i \in DOMAIN u : \E k \in 1 .. D : Owns(p, k, t) /\ Cut(Chain(p, k, s), u, i)
      /\ \A k \in 1 .. D : Owns(p, k, t) => \E i \in DOMAIN u : Cut(Chain(p, k, s), u, i)
  BY ContextSees
<1>2. UnitsOf(t, p, s)
  BY <1>1 DEF PInv, UnitsOk
<1>3. PICK n \in 1 .. D : Owns(p, n, t) /\ Len(Chain(p, n, s)) = Len(txs[t].units)
  BY <1>2 DEF UnitsOf
<1>4. Len(Chain(p, n, s)) <= Len(u)
  BY <1>1, <1>3 DEF Cut
<1>5. PICK k \in 1 .. D : Owns(p, k, t) /\ Len(Chain(p, k, s)) = Len(u)
  BY <1>1 DEF Cut
<1>6. Len(u) \in DOMAIN txs[t].units
  <2>1. \A x \in {stack[p][k].call}, i \in {Len(Chain(p, k, s))} : i \in DOMAIN txs[t].units
    BY <1>2, <1>5 DEF UnitsOf
  <2>2. QED
    BY <1>5, <2>1
<1>7. txs[t].units \in Seq(SUBSET Nat)
  BY <1>1, TxTypes DEF PInv
<1>8. Len(u) = Len(txs[t].units)
  <2> DEFINE v == txs[t].units
  <2>1. v \in Seq(SUBSET Nat) /\ Len(u) \in DOMAIN v /\ Len(v) <= Len(u) /\ Len(u) \in Nat
    BY <1>1, <1>3, <1>4, <1>6, <1>7
  <2> HIDE DEF v, u
  <2>2. Len(v) \in Nat /\ Len(u) \in 1 .. Len(v)
    BY <2>1
  <2>3. Len(u) = Len(v)
    BY <2>1, <2>2
  <2>4. QED
    BY <2>3 DEF u, v
<1>9. QED
  BY <1>1, <1>6, <1>8

-----------------------------------------------------------------------------
(* What a step keeps.                                                       *)

(* Tables and transactions are added; who a transaction is of stays. *)
Kept ==
    /\ DOMAIN tables \subseteq DOMAIN tables' /\ \A i \in DOMAIN tables : tables'[i] = tables[i]
    /\ DOMAIN txs \subseteq DOMAIN txs'
    /\ \A t \in DOMAIN txs : txs'[t].scope = txs[t].scope /\ txs'[t].by = txs[t].by

(* A frame stays as it is, unless a transaction that it sees was closed. *)
LEMMA FrameKept ==
    ASSUME PInv, Kept, NEW p \in Procs, NEW n \in 1 .. Depth(p),
           \A k \in 1 .. n : stack'[p][k] = stack[p][k],
           \A s \in Scopes : Seen(p, n, s) # None => ~txs'[Seen(p, n, s)].closed
    PROVE  ContextOk(p, n)' /\ OwnerOk(p, n)'
<1>0. Typed /\ ContextOk(p, n) /\ OwnerOk(p, n) /\ FramesOk
  BY DEF PInv
<1>1. n \in 1 .. n /\ \A k \in 1 .. n : k \in 1 .. Depth(p)
  BY <1>0, FrameTypes
<1>2. \A k \in 1 .. n : stack[p][k].ctx.table \in DOMAIN tables
  BY <1>0, <1>1 DEF FramesOk
<1>3. ASSUME NEW s \in Scopes, NEW t \in {Seen(p, n, s)'}, NEW u \in {Chain(p, n, s)'}
      PROVE  SeesOk(p, n, s, t, u)'
  <2>1. t = Seen(p, n, s) /\ u = Chain(p, n, s)
    BY <1>1, <1>2 DEF Kept, Seen, Chain
  <2>2. SeesOk(p, n, s, t, u)
    BY <1>0, <2>1 DEF ContextOk
  <2>3. \A k \in 1 .. n : Chain(p, k, s)' = Chain(p, k, s) /\ (Owns(p, k, t)' <=> Owns(p, k, t))
    BY DEF Chain, Owns
  <2>4. CASE t = None
    BY <2>2, <2>4 DEF SeesOk
  <2>5. CASE t # None
    <3>1. ~txs'[t].closed /\ t \in DOMAIN txs
      BY <2>1, <2>2, <2>5 DEF SeesOk
    <3>2. txs'[t].scope = txs[t].scope /\ txs'[t].by = txs[t].by /\ t \in DOMAIN txs'
      BY <3>1 DEF Kept
    <3>3. QED
      BY <2>2, <2>3, <2>5, <3>1, <3>2 DEF SeesOk
  <2>6. QED
    BY <2>4, <2>5
<1>3a. ContextOk(p, n)'
  BY <1>3 DEF ContextOk
<1>4. OwnerOk(p, n)'
  BY <1>0, <1>1, <1>2 DEF OwnerOk, Kept, Owns, Own, Chain, Seen
<1>5. QED
  BY <1>3a, <1>4

(* A write that is not new is of the calls that the outcomes leave alone. *)
LEMMA WorkSame ==
    ASSUME NEW x, NEW i, written' = written,
           \A w \in DOMAIN written : i \in DOMAIN written[w] /\ written[w][i] = x =>
              \A j \in DOMAIN written[w] : j > i =>
                 (outcome'[written[w][j]] \in Stays <=> outcome[written[w][j]] \in Stays)
    PROVE  Work(x, i)' = Work(x, i)
<1>1. ASSUME NEW w
      PROVE  w \in Work(x, i)' <=> w \in Work(x, i)
  BY DEF Work
<1>2. QED
  BY <1>1 DEF Work

(* A write of other calls is none of this one's. *)
LEMMA WorkOfOthers ==
    ASSUME Typed, NEW x, NEW i, NEW e, written' = Append(written, e), outcome' = outcome,
           ~(i \in DOMAIN e /\ e[i] = x)
    PROVE  Work(x, i)' = Work(x, i)
<1>1. written \in Seq(Seq(Nat))
  BY DEF Typed
<1>2. /\ DOMAIN written = 1 .. Len(written) /\ DOMAIN written' = 1 .. Len(written) + 1
      /\ Len(written) \in Nat /\ written'[Len(written) + 1] = e
      /\ \A w \in DOMAIN written : written'[w] = written[w]
  BY <1>1
<1>3. ASSUME NEW w
      PROVE  w \in Work(x, i)' <=> w \in Work(x, i)
  <2>1. w \in DOMAIN written' <=> w \in DOMAIN written \/ w = Len(written) + 1
    BY <1>2
  <2>2. CASE w = Len(written) + 1
    BY <1>2, <2>2 DEF Work
  <2>3. CASE w # Len(written) + 1
    BY <1>2, <2>1, <2>3 DEF Work
  <2>4. QED
    BY <2>2, <2>3
<1>4. QED
  BY <1>3 DEF Work

(* The units of a transaction stay those of its owners. *)
LEMMA UnitsKept ==
    ASSUME PInv, NEW t \in DOMAIN txs, NEW p, p = txs[t].by, NEW s, s = txs[t].scope,
           txs'[t].by = p, txs'[t].scope = s, txs'[t].units = txs[t].units,
           txs'[t].active => txs[t].active,
           \A n \in 1 .. Depth(p) : Owns(p, n, t) =>
              /\ n \in 1 .. Depth(p)' /\ stack'[p][n] = stack[p][n]
              /\ \A x \in {stack[p][n].call}, i \in {Len(Chain(p, n, s))} :
                    Work(x, i)' = Work(x, i),
           \A n \in 1 .. Depth(p)' : Owns(p, n, t)' =>
              n \in 1 .. Depth(p) /\ stack'[p][n] = stack[p][n]
    PROVE  UnitsOk(t)'
<1>1. SUFFICES ASSUME txs'[t].active PROVE UnitsOf(t, p, s)'
  BY DEF UnitsOk
<1>2. UnitsOf(t, p, s)
  BY <1>1 DEF PInv, UnitsOk
<1>3. PICK n \in 1 .. Depth(p) : Owns(p, n, t) /\ Len(Chain(p, n, s)) = Len(txs[t].units)
  BY <1>2 DEF UnitsOf
<1>4. n \in 1 .. Depth(p)' /\ Owns(p, n, t)' /\ Chain(p, n, s)' = Chain(p, n, s)
  BY <1>3 DEF Owns, Chain
<1>5. ASSUME NEW m \in 1 .. Depth(p)', Owns(p, m, t)',
             NEW x \in {stack'[p][m].call}, NEW i \in {Len(Chain(p, m, s)')}
      PROVE  i \in DOMAIN txs'[t].units /\ txs'[t].units[i] = Work(x, i)'
  <2>1. m \in 1 .. Depth(p) /\ stack'[p][m] = stack[p][m]
    BY <1>5
  <2>2. Owns(p, m, t) /\ x = stack[p][m].call /\ i = Len(Chain(p, m, s))
    BY <1>5, <2>1 DEF Owns, Chain
  <2>3. i \in DOMAIN txs[t].units /\ txs[t].units[i] = Work(x, i)
    BY <1>2, <2>1, <2>2 DEF UnitsOf
  <2>4. Work(x, i)' = Work(x, i)
    BY <2>1, <2>2
  <2>5. QED
    BY <2>3, <2>4
<1>6. QED
  BY <1>3, <1>4, <1>5 DEF UnitsOf

(* What has failed or is new changes no outcome that was there. *)
LEMMA OutcomeGrows ==
    ASSUME PInv, NEW r \in {"running", "failed"}, outcome' = Append(outcome, r)
    PROVE  /\ DOMAIN outcome \subseteq DOMAIN outcome' /\ Len(outcome) + 1 \in DOMAIN outcome'
           /\ Len(outcome) + 1 \notin DOMAIN outcome /\ outcome'[Len(outcome) + 1] = r
           /\ \A x \in DOMAIN outcome : outcome'[x] = outcome[x]
           /\ \A w \in DOMAIN written : \A j \in DOMAIN written[w] :
                 outcome'[written[w][j]] = outcome[written[w][j]]
<1>1. outcome \in Seq({"running", "ok", "failed", "kept"}) /\ WrittenOk
  BY DEF PInv, Typed
<1>2. /\ DOMAIN outcome \subseteq DOMAIN outcome' /\ Len(outcome) + 1 \in DOMAIN outcome'
      /\ Len(outcome) + 1 \notin DOMAIN outcome /\ outcome'[Len(outcome) + 1] = r
      /\ \A x \in DOMAIN outcome : outcome'[x] = outcome[x]
  BY <1>1
<1>3. QED
  BY <1>1, <1>2 DEF WrittenOk

(* The chain of an owner that stays. *)
LEMMA OwnKept ==
    ASSUME PInv, Kept, NEW p \in Procs, NEW n \in 1 .. Depth(p),
           stack'[p][n] = stack[p][n], stack[p][n].ends # "nothing"
    PROVE  Own(p, n)' = Own(p, n)
<1>1. stack[p][n].tx \in DOMAIN txs
  BY DEF PInv, OwnerOk
<1>2. QED
  BY <1>1 DEF Own, Chain, Kept

(* A frame that stays, of a call that goes on. *)
LEMMA FrameStays ==
    ASSUME PInv, Typed', Kept, DOMAIN outcome \subseteq DOMAIN outcome',
           NEW p \in Procs, NEW n \in 1 .. Depth(p), stack'[p][n] = stack[p][n],
           outcome'[stack[p][n].call] = outcome[stack[p][n].call]
    PROVE  /\ stack'[p][n].call \in DOMAIN outcome' /\ outcome'[stack'[p][n].call] = "running"
           /\ stack'[p][n].ctx.table \in DOMAIN tables'
           /\ stack'[p][n].tx \in 0 .. Len(txs')
<1>1. /\ stack[p][n].call \in DOMAIN outcome /\ outcome[stack[p][n].call] = "running"
      /\ stack[p][n].ctx.table \in DOMAIN tables
      /\ stack[p][n].tx \in 0 .. Len(txs)
  BY DEF PInv, FramesOk
<1>2. Len(txs) <= Len(txs') /\ Len(txs) \in Nat /\ Len(txs') \in Nat
  <2>1. txs \in Seq(TxRec) /\ txs' \in Seq(TxRec)
    BY DEF PInv, Typed
  <2>2. Len(txs) = 0 \/ Len(txs) \in DOMAIN txs'
    BY <2>1 DEF Kept
  <2>3. QED
    BY <2>1, <2>2
<1>3. QED
  BY <1>1, <1>2 DEF Kept

-----------------------------------------------------------------------------
(* Steps that leave the frames alone, or add one.                           *)

(* Nothing is written and no call ends; a transaction may end. *)
LEMMA QuietStep ==
    ASSUME PInv, Typed', WaitsOk', UNCHANGED <<stack, tables, written, durable>>,
           \/ outcome' = outcome
           \/ outcome' = Append(outcome, "failed"),
           DOMAIN txs' = DOMAIN txs,
           \A t \in DOMAIN txs :
              \/ txs'[t] = txs[t]
              \/ /\ txs'[t].scope = txs[t].scope /\ txs'[t].by = txs[t].by
                 /\ ~txs'[t].active /\ ~txs'[t].closed
    PROVE  PInv'
<1>0. Typed /\ FramesOk /\ WrittenOk /\ WorkFollowsUnits /\ Kept /\ UNCHANGED <<written, durable, stack>>
  BY DEF PInv, Kept
<1>1. /\ \A x \in DOMAIN outcome : outcome'[x] = outcome[x]
      /\ DOMAIN outcome \subseteq DOMAIN outcome'
  BY OutcomeGrows
<1>2. \A w \in DOMAIN written : \A j \in DOMAIN written[w] :
         written[w][j] \in DOMAIN outcome /\ outcome'[written[w][j]] = outcome[written[w][j]]
  BY <1>0, <1>1 DEF WrittenOk
<1>3. FramesOk'
  <2>1. \A p \in Procs : \A n \in 1 .. Depth(p) :
           /\ stack'[p][n] = stack[p][n]
           /\ outcome'[stack[p][n].call] = outcome[stack[p][n].call]
    BY <1>0, <1>1 DEF FramesOk
  <2>2. \A p : Depth(p)' = Depth(p)
    BY <1>0 DEF Depth
  <2>3. \A p \in Procs : \A n \in 1 .. Depth(p) :
           /\ stack'[p][n].call \in DOMAIN outcome' /\ outcome'[stack'[p][n].call] = "running"
           /\ stack'[p][n].ctx.table \in DOMAIN tables'
           /\ stack'[p][n].tx \in 0 .. Len(txs')
    BY <1>0, <1>1, <2>1, FrameStays
  <2>4. QED
    BY <1>0, <2>2, <2>3 DEF FramesOk
<1>4. WrittenOk'
  <2>1. \A p \in Procs : \A n \in 1 .. Depth(p) :
           stack'[p][n].ends # "nothing" => Own(p, n)' = Own(p, n)
    BY <1>0, OwnKept
  <2>2. \A p : Depth(p)' = Depth(p)
    BY <1>0 DEF Depth
  <2>3. QED
    BY <1>0, <1>1, <2>1, <2>2 DEF WrittenOk
<1>5. WorkFollowsUnits'
  BY <1>0, <1>2 DEF WorkFollowsUnits
<1>6. ASSUME NEW p \in Procs, NEW n \in 1 .. Depth(p)'
      PROVE  ContextOk(p, n)' /\ OwnerOk(p, n)'
  <2>1. n \in 1 .. Depth(p)
    BY <1>0, <1>6 DEF Depth
  <2>2. \A s \in Scopes : Seen(p, n, s) # None => ~txs'[Seen(p, n, s)].closed
    BY <2>1, ContextSees
  <2>3. \A k \in 1 .. n : stack'[p][k] = stack[p][k]
    BY <1>0
  <2>4. QED
    BY <1>0, <2>1, <2>2, <2>3, FrameKept
<1>7. ASSUME NEW t \in DOMAIN txs'
      PROVE  UnitsOk(t)'
  <2>1. t \in DOMAIN txs
    BY <1>7
  <2>2. CASE ~txs'[t].active
    BY <2>2 DEF UnitsOk
  <2>3. CASE txs'[t] = txs[t]
    <3>1. \A x, i : Work(x, i)' = Work(x, i)
      BY <1>0, <1>2, WorkSame
    <3>2. \A p : Depth(p)' = Depth(p) /\ stack'[p] = stack[p]
      BY <1>0 DEF Depth
    <3>3. \A p, n : Owns(p, n, t)' <=> Owns(p, n, t)
      BY <1>0 DEF Owns
    <3>4. QED
      BY <2>1, <2>3, <3>1, <3>2, <3>3, UnitsKept
  <2>4. QED
    BY <2>1, <2>2, <2>3
<1>8. QED
  BY <1>3, <1>4, <1>5, <1>6, <1>7 DEF PInv

(* A call begins: f is its frame. *)
Pushed(p, f) ==
    /\ stack' = [stack EXCEPT ![p] = Append(@, f)]
    /\ f.call = Len(outcome) + 1 /\ f.ctx.table \in DOMAIN tables' /\ f.tx \in 0 .. Len(txs')
    /\ outcome' = Append(outcome, "running")
    /\ Kept /\ UNCHANGED <<written, durable>>
    /\ \A t \in DOMAIN txs : txs'[t].closed = txs[t].closed

(* The frames that were there stay. *)
LEMMA PushedFrames ==
    ASSUME PInv, NEW p \in Procs, NEW f, Pushed(p, f)
    PROVE  /\ Depth(p)' = Depth(p) + 1 /\ Depth(p) \in Nat
           /\ stack'[p][Depth(p) + 1] = f
           /\ \A n \in 1 .. Depth(p) : stack'[p][n] = stack[p][n]
           /\ \A q \in Procs \ {p} : stack'[q] = stack[q] /\ Depth(q)' = Depth(q)
           /\ \A q \in Procs : \A n \in 1 .. Depth(q)' :
                 \/ q = p /\ n = Depth(p) + 1 /\ stack'[q][n] = f
                 \/ n \in 1 .. Depth(q) /\ stack'[q][n] = stack[q][n]
           /\ \A q \in Procs : \A n \in 1 .. Depth(q) :
                 n \in 1 .. Depth(q)' /\ stack'[q][n] = stack[q][n]
<1>1. stack \in [Procs -> Seq(Frame)] /\ stack[p] \in Seq(Frame)
  BY DEF PInv, Typed
<1>2. /\ stack'[p] = Append(stack[p], f)
      /\ \A q \in Procs \ {p} : stack'[q] = stack[q]
  BY <1>1 DEF Pushed
<1>3. /\ Depth(p)' = Depth(p) + 1 /\ Depth(p) \in Nat
      /\ stack'[p][Depth(p) + 1] = f
      /\ \A n \in 1 .. Depth(p) : stack'[p][n] = stack[p][n]
  BY <1>1, <1>2 DEF Depth
<1>4. \A q \in Procs \ {p} : stack'[q] = stack[q] /\ Depth(q)' = Depth(q)
  BY <1>2 DEF Depth
<1>5. ASSUME NEW q \in Procs, NEW n \in 1 .. Depth(q)'
      PROVE  \/ q = p /\ n = Depth(p) + 1 /\ stack'[q][n] = f
             \/ n \in 1 .. Depth(q) /\ stack'[q][n] = stack[q][n]
  BY <1>3, <1>4
<1>6. ASSUME NEW q \in Procs, NEW n \in 1 .. Depth(q)
      PROVE  n \in 1 .. Depth(q)' /\ stack'[q][n] = stack[q][n]
  BY <1>3, <1>4
<1>7. QED
  BY <1>3, <1>4, <1>5, <1>6

(* Frames, writes and units of before, when a call begins. *)
LEMMA PushStep ==
    ASSUME PInv, Typed', NEW p \in Procs, NEW f, Pushed(p, f)
    PROVE  /\ FramesOk' /\ WrittenOk' /\ WorkFollowsUnits'
           /\ \A q \in Procs : \A n \in 1 .. Depth(q) : ContextOk(q, n)' /\ OwnerOk(q, n)'
           /\ \A x, i : Work(x, i)' = Work(x, i)
           /\ \A i : Work(f.call, i) = {}
           /\ \A t \in DOMAIN txs :
                 txs'[t] = txs[t] /\ (f.tx # t \/ f.ends = "nothing") => UnitsOk(t)'
<1>0. /\ Typed /\ FramesOk /\ WrittenOk /\ WorkFollowsUnits /\ Kept
      /\ written' = written /\ durable' = durable
  BY DEF PInv, Pushed
<1>1. /\ \A x \in DOMAIN outcome : outcome'[x] = outcome[x]
      /\ DOMAIN outcome \subseteq DOMAIN outcome' /\ f.call \in DOMAIN outcome'
      /\ f.call \notin DOMAIN outcome /\ outcome'[f.call] = "running"
  BY OutcomeGrows DEF Pushed
<1>2. \A w \in DOMAIN written : \A j \in DOMAIN written[w] :
         /\ written[w][j] \in DOMAIN outcome /\ outcome'[written[w][j]] = outcome[written[w][j]]
         /\ written[w][j] # f.call
  BY <1>0, <1>1 DEF WrittenOk
<1>3. \A x, i : Work(x, i)' = Work(x, i)
  BY <1>0, <1>2, WorkSame
<1>4. \A i : Work(f.call, i) = {}
  BY <1>2 DEF Work
<1>5. FramesOk'
  <2>1. \A q \in Procs : \A n \in 1 .. Depth(q) :
           /\ stack'[q][n] = stack[q][n]
           /\ outcome'[stack[q][n].call] = outcome[stack[q][n].call]
           /\ stack[q][n].call # f.call
    BY <1>0, <1>1, PushedFrames DEF FramesOk
  <2>2. \A q \in Procs : \A n \in 1 .. Depth(q) :
           /\ stack'[q][n].call \in DOMAIN outcome' /\ outcome'[stack'[q][n].call] = "running"
           /\ stack'[q][n].ctx.table \in DOMAIN tables'
           /\ stack'[q][n].tx \in 0 .. Len(txs')
    BY <1>0, <1>1, <2>1, FrameStays
  <2>3. ASSUME NEW q \in Procs, NEW n \in 1 .. Depth(q)'
        PROVE  /\ stack'[q][n].call \in DOMAIN outcome'
               /\ outcome'[stack'[q][n].call] = "running"
               /\ stack'[q][n].ctx.table \in DOMAIN tables'
               /\ stack'[q][n].tx \in 0 .. Len(txs')
    <3>1. \/ stack'[q][n] = f
          \/ n \in 1 .. Depth(q)
      BY PushedFrames
    <3>2. CASE stack'[q][n] = f
      BY <1>1, <3>2 DEF Pushed
    <3>3. CASE n \in 1 .. Depth(q)
      BY <2>2, <3>3
    <3>4. QED
      BY <3>1, <3>2, <3>3
  <2>4. ASSUME NEW q \in Procs, NEW m \in 1 .. Depth(q)', NEW r \in Procs,
               NEW n \in 1 .. Depth(r)', stack'[q][m].call = stack'[r][n].call
        PROVE  q = r /\ m = n
    <3>1. \/ q = p /\ m = Depth(p) + 1 /\ stack'[q][m] = f
          \/ m \in 1 .. Depth(q) /\ stack'[q][m] = stack[q][m]
      BY PushedFrames
    <3>2. \/ r = p /\ n = Depth(p) + 1 /\ stack'[r][n] = f
          \/ n \in 1 .. Depth(r) /\ stack'[r][n] = stack[r][n]
      BY PushedFrames
    <3>3. QED
      BY <1>0, <2>1, <2>4, <3>1, <3>2 DEF FramesOk
  <2>5. QED
    BY <2>3, <2>4 DEF FramesOk
<1>6. WrittenOk'
  <2>1. ASSUME NEW w \in DOMAIN written, NEW j \in DOMAIN written[w], NEW q \in Procs,
               NEW n \in 1 .. Depth(q)', stack'[q][n].call = written[w][j]
        PROVE  stack'[q][n].ends # "nothing" /\ Cut(Own(q, n)', written[w], j)
    <3>1. n \in 1 .. Depth(q) /\ stack'[q][n] = stack[q][n]
      BY <1>2, <2>1, PushedFrames
    <3>2. stack[q][n].ends # "nothing" /\ Cut(Own(q, n), written[w], j)
      BY <1>0, <2>1, <3>1 DEF WrittenOk
    <3>3. Own(q, n)' = Own(q, n)
      BY <1>0, <3>1, <3>2, OwnKept
    <3>4. QED
      BY <3>1, <3>2, <3>3
  <2>2. QED
    BY <1>0, <1>1, <1>2, <2>1 DEF WrittenOk
<1>7. WorkFollowsUnits'
  BY <1>0, <1>2 DEF WorkFollowsUnits
<1>8. ASSUME NEW q \in Procs, NEW n \in 1 .. Depth(q)
      PROVE  ContextOk(q, n)' /\ OwnerOk(q, n)'
  <2>1. n \in Nat /\ \A k \in 1 .. n : k \in 1 .. Depth(q)
    BY <1>0, FrameTypes
  <2>2. \A k \in 1 .. n : stack'[q][k] = stack[q][k]
    BY <2>1, PushedFrames
  <2>3. \A s \in Scopes : Seen(q, n, s) # None => ~txs'[Seen(q, n, s)].closed
    BY ContextSees DEF Pushed
  <2>4. QED
    BY <1>0, <2>2, <2>3, FrameKept
<1>9. ASSUME NEW t \in DOMAIN txs, txs'[t] = txs[t], f.tx # t \/ f.ends = "nothing"
      PROVE  UnitsOk(t)'
  <2>1. txs[t].by \in Procs
    BY <1>0, TxTypes
  <2>2. \A n \in 1 .. Depth(txs[t].by)' : Owns(txs[t].by, n, t)' =>
           n \in 1 .. Depth(txs[t].by) /\ stack'[txs[t].by][n] = stack[txs[t].by][n]
    BY <1>9, <2>1, PushedFrames DEF Owns
  <2>3. QED
    BY <1>3, <1>9, <2>1, <2>2, PushedFrames, UnitsKept
<1>10. QED
  BY <1>3, <1>4, <1>5, <1>6, <1>7, <1>8, <1>9
-----------------------------------------------------------------------------
(* The types that a step keeps.                                             *)

(* The types after a push. *)
LEMMA PushedTypes ==
    ASSUME PInv, NEW p \in Procs, NEW s \in Scopes, NEW units \in Seq(Nat), NEW t \in Nat,
           NEW ends \in {"tx", "savepoint", "nothing"}
    PROVE  /\ Child(CtxOf(p), s, units) \in Context
           /\ \A ctx \in Context :
                 Push(p, ctx, t, ends) =>
                    /\ stack' \in [Procs -> Seq(Frame)]
                    /\ outcome' \in Seq({"running", "ok", "failed", "kept"})
           /\ withScopeTx(CtxOf(p), s, t) =>
                 /\ tables' \in Seq([Scopes -> Nat]) /\ 1 \in DOMAIN tables'
                 /\ tables'[1] = [x \in Scopes |-> None]
                 /\ Len(tables) + 1 \in DOMAIN tables'
                 /\ tables'[Len(tables) + 1] = [tables[CtxOf(p).table] EXCEPT ![s] = t]
                 /\ DOMAIN tables \subseteq DOMAIN tables'
                 /\ \A i \in DOMAIN tables : tables'[i] = tables[i]
<1>0. Typed /\ CtxOf(p) \in Context /\ CtxOf(p).table \in DOMAIN tables
  BY TopContext DEF PInv
<1>1. tables \in Seq([Scopes -> Nat]) /\ tables[CtxOf(p).table] \in [Scopes -> Nat]
  BY <1>0 DEF Typed
<1>2. Child(CtxOf(p), s, units) \in Context
  BY <1>0, <1>1 DEF Child, Context
<1>3. ASSUME NEW ctx \in Context, Push(p, ctx, t, ends)
      PROVE  /\ stack' \in [Procs -> Seq(Frame)]
             /\ outcome' \in Seq({"running", "ok", "failed", "kept"})
  <2>1. outcome \in Seq({"running", "ok", "failed", "kept"}) /\ stack \in [Procs -> Seq(Frame)]
    BY <1>0 DEF Typed
  <2>2. [call |-> Len(outcome) + 1, ctx |-> ctx, tx |-> t, ends |-> ends] \in Frame
    BY <2>1 DEF Frame
  <2>3. outcome' \in Seq({"running", "ok", "failed", "kept"})
    BY <1>3, <2>1 DEF Push
  <2>4. Append(stack[p], [call |-> Len(outcome) + 1, ctx |-> ctx, tx |-> t, ends |-> ends])
           \in Seq(Frame)
    BY <2>1, <2>2
  <2>5. QED
    BY <1>3, <2>1, <2>3, <2>4 DEF Push
<1>4. ASSUME withScopeTx(CtxOf(p), s, t)
      PROVE  /\ tables' \in Seq([Scopes -> Nat]) /\ 1 \in DOMAIN tables'
             /\ tables'[1] = [x \in Scopes |-> None]
             /\ Len(tables) + 1 \in DOMAIN tables'
             /\ tables'[Len(tables) + 1] = [tables[CtxOf(p).table] EXCEPT ![s] = t]
             /\ DOMAIN tables \subseteq DOMAIN tables'
             /\ \A i \in DOMAIN tables : tables'[i] = tables[i]
  <2> DEFINE new == [tables[CtxOf(p).table] EXCEPT ![s] = t]
  <2>1. new \in [Scopes -> Nat] /\ tables' = Append(tables, new)
    BY <1>1, <1>4 DEF withScopeTx
  <2>2. 1 \in DOMAIN tables /\ tables[1] = [x \in Scopes |-> None]
    BY <1>0 DEF Typed
  <2> HIDE DEF new
  <2>3. QED
    BY <1>1, <2>1, <2>2 DEF new
<1>5. QED
  BY <1>2, <1>3, <1>4

(* Who waits goes on waiting with the context it had. *)
LEMMA WaitsStay ==
    ASSUME PInv, NEW p \in Procs, Running(p)',
           \A q \in Procs \ {p} : wants'[q] = wants[q] /\ stack'[q] = stack[q]
    PROVE  WaitsOk'
<1>1. ASSUME NEW q \in Procs, ~Running(q)'
      PROVE  /\ wants'[q].on \in Scopes /\ wants'[q].to # "nothing"
             /\ wants'[q].to = "requires_new" \/ CtxOf(q)'.units[wants'[q].on] = <<>>
  <2>1. q # p /\ wants'[q] = wants[q] /\ stack'[q] = stack[q] /\ ~Running(q)
    BY <1>1 DEF Running
  <2>2. CtxOf(q)' = CtxOf(q)
    BY <2>1 DEF CtxOf, Top, Depth
  <2>3. QED
    BY <2>1, <2>2 DEF PInv, WaitsOk
<1>2. QED
  BY <1>1 DEF WaitsOk

(* What a context that is handed down sees of a pool that the call leaves alone. *)
LEMMA HandedDown ==
    ASSUME PInv, NEW p \in Procs, NEW f, Pushed(p, f), NEW n, n = Depth(p) + 1,
           NEW s \in Scopes, NEW t, NEW u, t = tables[CtxOf(p).table][s],
           u = CtxOf(p).units[s],
           f.ends # "nothing" => f.tx # t
    PROVE  SeesOk(p, n, s, t, u)'
<1>0. PICK D : D = Depth(p)
  OBVIOUS
<1>1. /\ D \in Nat /\ SeesOk(p, D, s, t, u) /\ u \in Seq(Nat)
      /\ n = D + 1 /\ stack'[p][n] = f
      /\ \A k \in 1 .. D : stack'[p][k] = stack[p][k]
  BY <1>0, PushedFrames, TopContext
<1>2. /\ \A k \in 1 .. D : Chain(p, k, s)' = Chain(p, k, s) /\ (Owns(p, k, t)' <=> Owns(p, k, t))
      /\ ~Owns(p, n, t)'
  BY <1>1 DEF Chain, Owns
<1>3. CASE t = None
  BY <1>1, <1>3 DEF SeesOk
<1>4. CASE t # None
  <2>1. /\ t \in DOMAIN txs /\ u # <<>>
        /\ txs[t].scope = s /\ txs[t].by = p /\ ~txs[t].closed
        /\ \A i \in DOMAIN u : \E k \in 1 .. D :
              Owns(p, k, t) /\ Cut(Chain(p, k, s), u, i) /\ stack[p][k].call = u[i]
        /\ \A k \in 1 .. D : Owns(p, k, t) => \E i \in DOMAIN u :
              Cut(Chain(p, k, s), u, i) /\ stack[p][k].call = u[i]
    BY <1>1, <1>4 DEF SeesOk
  <2>2. t \in DOMAIN txs' /\ txs'[t].scope = s /\ txs'[t].by = p /\ ~txs'[t].closed
    BY <2>1 DEF Pushed, Kept
  <2>3. ASSUME NEW i \in DOMAIN u
        PROVE  \E k \in 1 .. n :
                  Owns(p, k, t)' /\ Cut(Chain(p, k, s)', u, i) /\ stack'[p][k].call = u[i]
    <3>1. PICK k \in 1 .. D : Owns(p, k, t) /\ Cut(Chain(p, k, s), u, i) /\ stack[p][k].call = u[i]
      BY <2>1
    <3>2. k \in 1 .. n
      BY <1>1
    <3>3. Owns(p, k, t)' /\ Chain(p, k, s)' = Chain(p, k, s) /\ stack'[p][k] = stack[p][k]
      BY <1>1, <1>2, <3>1
    <3>4. QED
      BY <3>1, <3>2, <3>3
  <2>4. ASSUME NEW k \in 1 .. n, Owns(p, k, t)'
        PROVE  \E i \in DOMAIN u : Cut(Chain(p, k, s)', u, i) /\ stack'[p][k].call = u[i]
    <3>1. k \in 1 .. D
      BY <1>1, <1>2, <2>4
    <3>2. Owns(p, k, t) /\ Chain(p, k, s)' = Chain(p, k, s) /\ stack'[p][k] = stack[p][k]
      BY <1>1, <1>2, <2>4, <3>1
    <3>3. QED
      BY <2>1, <3>1, <3>2
  <2>5. QED
    BY <1>4, <2>1, <2>2, <2>3, <2>4 DEF SeesOk
<1>5. QED
  BY <1>3, <1>4

(* The invariant, when what the new frame adds to it is right. *)
LEMMA PushKeeps ==
    ASSUME PInv, Typed', NEW p \in Procs, NEW f, Pushed(p, f), Running(p)',
           NEW m, m = Depth(p) + 1,
           \A q \in Procs \ {p} : wants'[q] = wants[q],
           ContextOk(p, m)', OwnerOk(p, m)',
           \A t \in DOMAIN txs' :
              \/ t \in DOMAIN txs /\ txs'[t] = txs[t] /\ (f.ends # "nothing" => f.tx # t)
              \/ UnitsOk(t)'
    PROVE  PInv'
<1>1. /\ FramesOk' /\ WrittenOk' /\ WorkFollowsUnits'
      /\ \A q \in Procs : \A n \in 1 .. Depth(q) : ContextOk(q, n)' /\ OwnerOk(q, n)'
      /\ \A t \in DOMAIN txs :
            txs'[t] = txs[t] /\ (f.tx # t \/ f.ends = "nothing") => UnitsOk(t)'
  BY PushStep
<1>2. WaitsOk'
  BY PushedFrames, WaitsStay
<1>3. ASSUME NEW q \in Procs, NEW n \in 1 .. Depth(q)'
      PROVE  ContextOk(q, n)' /\ OwnerOk(q, n)'
  <2>1. (q = p /\ n = m) \/ n \in 1 .. Depth(q)
    BY PushedFrames
  <2>2. QED
    BY <1>1, <2>1
<1>4. \A t \in DOMAIN txs' : UnitsOk(t)'
  BY <1>1
<1>5. QED
  BY <1>1, <1>2, <1>3, <1>4 DEF PInv
-----------------------------------------------------------------------------
(* The calls of TransactionWithOptions.                                     *)

(* A refused call leaves only its outcome. *)
LEMMA RefusedStep ==
    ASSUME PInv, Refused, UNCHANGED <<tables, txs, written, durable>>,
           wants' \in [Procs -> Want], NEW p \in Procs, Running(p)',
           \A q \in Procs \ {p} : wants'[q] = wants[q]
    PROVE  PInv'
<1>1. Typed /\ stack' = stack /\ outcome' = Append(outcome, "failed")
  BY DEF PInv, Refused
<1>2. outcome' \in Seq({"running", "ok", "failed", "kept"})
  BY <1>1 DEF Typed
<1>3. Typed'
  BY <1>1, <1>2 DEF Typed
<1>4. WaitsOk'
  BY <1>1, WaitsStay
<1>5. QED
  BY <1>1, <1>3, <1>4, QuietStep

(* What the frame of a call with a transaction of the context may name. *)
LEMMA CurrentTx ==
    ASSUME PInv, NEW p \in Procs, NEW s \in Scopes, NEW t, t = TxFromContext(CtxOf(p), s)
    PROVE  /\ t \in Nat /\ t \in 0 .. Len(txs) /\ t = tables[CtxOf(p).table][s]
           /\ t # None => t \in DOMAIN txs
<1>1. t = tables[CtxOf(p).table][s] /\ t \in Nat /\ SeesOk(p, Depth(p), s, t, CtxOf(p).units[s])
  BY TopContext
<1>2. t # None => t \in DOMAIN txs
  BY <1>1 DEF SeesOk
<1>3. txs \in Seq(TxRec)
  BY DEF PInv, Typed
<1>4. t \in 0 .. Len(txs)
  BY <1>1, <1>2, <1>3 DEF None
<1>5. QED
  BY <1>1, <1>2, <1>4

(* A joined call gets the context of its caller, with all it sees. *)
LEMMA JoinStep ==
    ASSUME PInv, NEW p \in Procs, NEW s \in Scopes, NEW mode, Join(p, s, mode)
    PROVE  PInv'
<1>1. PICK t : t = TxFromContext(CtxOf(p), s)
  OBVIOUS
<1>2. /\ Typed /\ Running(p) /\ UNCHANGED <<tables, txs, wants, durable, written>>
      /\ Push(p, CtxOf(p), t, "nothing") \/ Refused
  BY <1>1 DEF Join, MayCall, PInv
<1>3. wants' = wants /\ Running(p)'
  BY <1>2 DEF Running
<1>4. CASE Refused
  BY <1>2, <1>3, <1>4, RefusedStep DEF Typed
<1>5. CASE Push(p, CtxOf(p), t, "nothing")
  <2>1. PICK f : f = [call |-> Len(outcome) + 1, ctx |-> CtxOf(p), tx |-> t, ends |-> "nothing"]
    OBVIOUS
  <2>2. PICK m : m = Depth(p) + 1
    OBVIOUS
  <2>3. t \in Nat /\ t \in 0 .. Len(txs) /\ CtxOf(p) \in Context /\ CtxOf(p).table \in DOMAIN tables
    BY <1>1, CurrentTx, TopContext
  <2>4. Typed'
    <3>1. /\ stack' \in [Procs -> Seq(Frame)]
          /\ outcome' \in Seq({"running", "ok", "failed", "kept"})
      <4>1. <<>> \in Seq(Nat) /\ "nothing" \in {"tx", "savepoint", "nothing"}
        OBVIOUS
      <4>2. QED
        BY <1>5, <2>3, <4>1, PushedTypes
    <3>2. QED
      BY <1>2, <3>1 DEF Typed
  <2>5. Pushed(p, f)
    BY <1>2, <1>5, <2>1, <2>3 DEF Pushed, Push, Kept
  <2>6. m = Depth(p)' /\ stack'[p][m] = f
    BY <2>2, <2>5, PushedFrames
  <2>7. ContextOk(p, m)'
    <3>1. ASSUME NEW x \in Scopes, NEW v \in {Seen(p, m, x)'}, NEW u \in {Chain(p, m, x)'}
          PROVE  SeesOk(p, m, x, v, u)'
      <4>1. v = tables[CtxOf(p).table][x] /\ u = CtxOf(p).units[x]
        BY <1>2, <2>1, <2>6 DEF Seen, Chain
      <4>2. QED
        BY <2>1, <2>2, <2>5, <4>1, HandedDown
    <3>2. QED
      BY <3>1 DEF ContextOk
  <2>8. OwnerOk(p, m)'
    BY <2>1, <2>6 DEF OwnerOk
  <2>9. QED
    BY <1>2, <1>3, <2>1, <2>2, <2>4, <2>5, <2>7, <2>8, PushKeeps
<1>6. QED
  BY <1>2, <1>4, <1>5

(* What a frame with a child context sees. *)
LEMMA ChildSees ==
    ASSUME PInv, NEW p \in Procs, NEW s \in Scopes, NEW t \in Nat, NEW units \in Seq(Nat),
           withScopeTx(CtxOf(p), s, t), NEW m, stack'[p][m].ctx = Child(CtxOf(p), s, units),
           NEW x \in Scopes
    PROVE  /\ x = s => Seen(p, m, x)' = t /\ Chain(p, m, x)' = units
           /\ x # s => /\ Seen(p, m, x)' = tables[CtxOf(p).table][x]
                       /\ Chain(p, m, x)' = CtxOf(p).units[x]
<1>1. Typed /\ CtxOf(p) \in Context /\ CtxOf(p).table \in DOMAIN tables
  BY TopContext DEF PInv
<1>2. CtxOf(p).units \in [Scopes -> Seq(Nat)] /\ tables[CtxOf(p).table] \in [Scopes -> Nat]
  BY <1>1 DEF Context, Typed
<1>3. "nothing" \in {"tx", "savepoint", "nothing"}
  OBVIOUS
<1>4. tables'[Len(tables) + 1] = [tables[CtxOf(p).table] EXCEPT ![s] = t]
  BY <1>3, PushedTypes
<1>5. /\ stack'[p][m].ctx.table = Len(tables) + 1
      /\ stack'[p][m].ctx.units = [CtxOf(p).units EXCEPT ![s] = units]
  BY DEF Child
<1>6. Seen(p, m, x)' = [tables[CtxOf(p).table] EXCEPT ![s] = t][x]
  BY <1>4, <1>5 DEF Seen
<1>7. Chain(p, m, x)' = [CtxOf(p).units EXCEPT ![s] = units][x]
  BY <1>5 DEF Chain
<1>8. QED
  BY <1>2, <1>6, <1>7

(* A suspended call sees no transaction of the pool. *)
LEMMA SuspendStep ==
    ASSUME PInv, NEW p \in Procs, NEW s \in Scopes, NEW mode, Suspend(p, s, mode)
    PROVE  PInv'
<1>1. /\ Typed /\ Running(p) /\ UNCHANGED <<txs, wants, durable, written>>
      /\ withScopeTx(CtxOf(p), s, None)
      /\ Push(p, Child(CtxOf(p), s, <<>>), None, "nothing")
  BY DEF Suspend, MayCall, PInv
<1>2. PICK f : f = [call |-> Len(outcome) + 1, ctx |-> Child(CtxOf(p), s, <<>>), tx |-> None,
                    ends |-> "nothing"]
  OBVIOUS
<1>3. PICK m : m = Depth(p) + 1
  OBVIOUS
<1>4. /\ Child(CtxOf(p), s, <<>>) \in Context
      /\ stack' \in [Procs -> Seq(Frame)] /\ outcome' \in Seq({"running", "ok", "failed", "kept"})
      /\ tables' \in Seq([Scopes -> Nat]) /\ 1 \in DOMAIN tables'
      /\ tables'[1] = [x \in Scopes |-> None]
      /\ Len(tables) + 1 \in DOMAIN tables'
      /\ DOMAIN tables \subseteq DOMAIN tables'
      /\ \A i \in DOMAIN tables : tables'[i] = tables[i]
  <2>1. <<>> \in Seq(Nat) /\ "nothing" \in {"tx", "savepoint", "nothing"} /\ None \in Nat
    BY DEF None
  <2>2. Child(CtxOf(p), s, <<>>) \in Context
    BY <2>1, PushedTypes
  <2>3. stack' \in [Procs -> Seq(Frame)] /\ outcome' \in Seq({"running", "ok", "failed", "kept"})
    BY <1>1, <2>1, <2>2, PushedTypes
  <2>4. /\ tables' \in Seq([Scopes -> Nat]) /\ 1 \in DOMAIN tables'
        /\ tables'[1] = [x \in Scopes |-> None]
        /\ Len(tables) + 1 \in DOMAIN tables'
        /\ DOMAIN tables \subseteq DOMAIN tables'
        /\ \A i \in DOMAIN tables : tables'[i] = tables[i]
    BY <1>1, <2>1, PushedTypes
  <2>5. QED
    BY <2>2, <2>3, <2>4
<1>5. Typed'
  BY <1>1, <1>4 DEF Typed
<1>6. Pushed(p, f)
  <2>1. f.tx \in 0 .. Len(txs')
    BY <1>2, <1>5 DEF Typed, None
  <2>2. f.ctx.table \in DOMAIN tables'
    BY <1>2, <1>4 DEF Child
  <2>3. QED
    BY <1>1, <1>2, <1>4, <2>1, <2>2 DEF Pushed, Push, Kept
<1>7. m = Depth(p)' /\ stack'[p][m] = f
  BY <1>3, <1>6, PushedFrames
<1>8. ContextOk(p, m)'
  <2>1. ASSUME NEW x \in Scopes, NEW v \in {Seen(p, m, x)'}, NEW u \in {Chain(p, m, x)'}
        PROVE  SeesOk(p, m, x, v, u)'
    <3>0. /\ stack'[p][m].ctx = Child(CtxOf(p), s, <<>>) /\ None \in Nat /\ <<>> \in Seq(Nat)
      BY <1>2, <1>7 DEF None
    <3>1. /\ x = s => v = None /\ u = <<>>
          /\ x # s => v = tables[CtxOf(p).table][x] /\ u = CtxOf(p).units[x]
      <4>1. v = Seen(p, m, x)' /\ u = Chain(p, m, x)'
        OBVIOUS
      <4>2. /\ x = s => Seen(p, m, x)' = None /\ Chain(p, m, x)' = <<>>
            /\ x # s => /\ Seen(p, m, x)' = tables[CtxOf(p).table][x]
                        /\ Chain(p, m, x)' = CtxOf(p).units[x]
        <5>1. PICK none, e : none = None /\ e = <<>>
          OBVIOUS
        <5>2. /\ withScopeTx(CtxOf(p), s, none) /\ stack'[p][m].ctx = Child(CtxOf(p), s, e)
              /\ none \in Nat /\ e \in Seq(Nat)
          BY <1>1, <3>0, <5>1
        <5>3. /\ x = s => Seen(p, m, x)' = none /\ Chain(p, m, x)' = e
              /\ x # s => /\ Seen(p, m, x)' = tables[CtxOf(p).table][x]
                          /\ Chain(p, m, x)' = CtxOf(p).units[x]
          BY <5>2, ChildSees
        <5>4. QED
          BY <5>1, <5>3
      <4>3. QED
        BY <4>1, <4>2
    <3>2. CASE x = s
      BY <3>1, <3>2 DEF SeesOk
    <3>3. CASE x # s
      BY <1>2, <1>3, <1>6, <3>1, <3>3, HandedDown
    <3>4. QED
      BY <3>2, <3>3
  <2>2. QED
    BY <2>1 DEF ContextOk
<1>9. OwnerOk(p, m)'
  BY <1>2, <1>7 DEF OwnerOk
<1>10. wants' = wants /\ Running(p)' /\ txs' = txs
  BY <1>1 DEF Running
<1>11. QED
  BY <1>2, <1>3, <1>5, <1>6, <1>8, <1>9, <1>10, PushKeeps

(* The units of one transaction change. *)
LEMMA UnitsChange ==
    ASSUME Typed, NEW t \in DOMAIN txs, NEW us \in Seq(SUBSET Nat),
           txs' = [txs EXCEPT ![t].units = us]
    PROVE  /\ txs' \in Seq(TxRec) /\ DOMAIN txs' = DOMAIN txs /\ txs'[t].units = us
           /\ \A x \in DOMAIN txs :
                 /\ txs'[x].scope = txs[x].scope /\ txs'[x].by = txs[x].by
                 /\ txs'[x].active = txs[x].active /\ txs'[x].closed = txs[x].closed
                 /\ x # t => txs'[x] = txs[x]
<1>1. txs \in Seq(TxRec) /\ txs[t] \in TxRec
  BY TxTypes DEF Typed
<1>2. PICK new : new = [txs[t] EXCEPT !.units = us]
  OBVIOUS
<1>3. new \in TxRec /\ new.units = us
  BY <1>1, <1>2 DEF TxRec
<1>4. /\ new.scope = txs[t].scope /\ new.by = txs[t].by
      /\ new.active = txs[t].active /\ new.closed = txs[t].closed
  BY <1>1, <1>2 DEF TxRec
<1>5. txs' = [txs EXCEPT ![t] = new]
  BY <1>2
<1>6. txs' \in Seq(TxRec) /\ DOMAIN txs' = DOMAIN txs
  <2>1. PICK S, old, after : S = TxRec /\ old = txs /\ after = txs'
    OBVIOUS
  <2>2. /\ old \in Seq(S) /\ new \in S /\ t \in 1 .. Len(old) /\ after = [old EXCEPT ![t] = new]
        /\ DOMAIN old = 1 .. Len(old)
    BY <1>1, <1>3, <1>5, <2>1, LenProperties
  <2>3. after \in Seq(S) /\ Len(after) = Len(old)
    BY <2>2, ExceptSeq
  <2>4. DOMAIN after = DOMAIN old
    BY <2>2
  <2>. QED
    BY <2>1, <2>3, <2>4
<1>7. txs'[t] = new /\ \A x \in DOMAIN txs : x # t => txs'[x] = txs[x]
  BY <1>1, <1>5
<1>8. QED
  BY <1>3, <1>4, <1>6, <1>7

(* A nested call owns the chain of its context and itself. *)
LEMMA NestedChain ==
    ASSUME NEW u \in Seq(Nat), NEW c, NEW v, v = Append(u, c)
    PROVE  /\ Len(v) = Len(u) + 1 /\ Len(v) \in DOMAIN v /\ v[Len(v)] = c /\ v # <<>>
           /\ \A i \in DOMAIN v : i = Len(v) \/ i \in DOMAIN u
           /\ \A i \in DOMAIN u : i \in DOMAIN v /\ i \in Nat /\ v[i] = u[i] /\ i # Len(v)
           /\ \A i \in DOMAIN u : \A d : Cut(d, u, i) => Cut(d, v, i)
           /\ Cut(v, v, Len(v)) /\ (c \in Nat => v \in Seq(Nat))
<1>1. /\ Len(v) = Len(u) + 1 /\ Len(u) \in Nat /\ DOMAIN v = 1 .. Len(u) + 1
      /\ DOMAIN u = 1 .. Len(u) /\ v[Len(u) + 1] = c
      /\ \A i \in 1 .. Len(u) : v[i] = u[i]
      /\ c \in Nat => v \in Seq(Nat)
  OBVIOUS
<1>2. \A i \in DOMAIN u : i \in Nat /\ \A j \in 1 .. i : v[j] = u[j]
  BY <1>1
<1>3. v # <<>>
  BY <1>1
<1>4. QED
  BY <1>1, <1>2, <1>3 DEF Cut

(* A nested call owns a new unit, empty, and its chain ends with it. *)
LEMMA NestStep ==
    ASSUME PInv, NEW p \in Procs, NEW s \in Scopes, NEW mode, Nest(p, s, mode)
    PROVE  PInv'
<1>1. PICK t, u, c : t = TxFromContext(CtxOf(p), s) /\ u = CtxOf(p).units[s] /\ c = Len(outcome) + 1
  OBVIOUS
<1>2. /\ Typed /\ Running(p) /\ UNCHANGED <<wants, durable, written>> /\ t # None
      /\ \/ /\ txs[t].active
            /\ txs' = [txs EXCEPT ![t].units = Append(@, {})]
            /\ withScopeTx(CtxOf(p), s, t)
            /\ Push(p, Child(CtxOf(p), s, Append(u, c)), t, "savepoint")
         \/ Refused /\ UNCHANGED <<tables, txs>>
  BY <1>1 DEF Nest, MayCall, PInv
<1>3. wants' = wants /\ Running(p)'
  BY <1>2 DEF Running
<1>4. CASE Refused /\ UNCHANGED <<tables, txs>>
  BY <1>2, <1>3, <1>4, RefusedStep DEF Typed
<1>5. CASE /\ txs[t].active
           /\ txs' = [txs EXCEPT ![t].units = Append(@, {})]
           /\ withScopeTx(CtxOf(p), s, t)
           /\ Push(p, Child(CtxOf(p), s, Append(u, c)), t, "savepoint")
  <2>1. PICK v, us, m, D : /\ v = Append(u, c) /\ us = Append(txs[t].units, {})
                           /\ m = Depth(p) + 1 /\ D = Depth(p)
    OBVIOUS
  <2>2. PICK f : f = [call |-> c, ctx |-> Child(CtxOf(p), s, v), tx |-> t, ends |-> "savepoint"]
    OBVIOUS
  <2>3. /\ t \in Nat /\ t \in 0 .. Len(txs) /\ t \in DOMAIN txs
        /\ u \in Seq(Nat) /\ D \in 1 .. D /\ D \in Nat
        /\ t = tables[CtxOf(p).table][s] /\ t = Seen(p, D, s) /\ u = Chain(p, D, s)
        /\ SeesOk(p, D, s, t, u) /\ CtxOf(p).table \in DOMAIN tables
    BY <1>1, <1>2, <2>1, CurrentTx, TopContext
  <2>4. c \in Nat /\ v \in Seq(Nat)
    BY <1>1, <1>2, <2>1, <2>3, NestedChain DEF Typed
  <2>4a. /\ Len(v) = Len(u) + 1 /\ Len(v) \in DOMAIN v /\ v[Len(v)] = c /\ v # <<>>
         /\ \A i \in DOMAIN v : i = Len(v) \/ i \in DOMAIN u
         /\ \A i \in DOMAIN u : i \in DOMAIN v /\ i \in Nat /\ v[i] = u[i] /\ i # Len(v)
         /\ \A i \in DOMAIN u : \A d : Cut(d, u, i) => Cut(d, v, i)
         /\ Cut(v, v, Len(v))
    <3>1. v = Append(u, c) /\ u \in Seq(Nat)
      BY <2>1, <2>3
    <3>2. Len(v) = Len(u) + 1 /\ Len(v) \in DOMAIN v /\ v[Len(v)] = c /\ v # <<>>
      BY <3>1, NestedChain
    <3>3. \A i \in DOMAIN v : i = Len(v) \/ i \in DOMAIN u
      BY <3>1, NestedChain
    <3>4. \A i \in DOMAIN u : i \in DOMAIN v /\ i \in Nat /\ v[i] = u[i] /\ i # Len(v)
      BY <3>1, NestedChain
    <3>5. \A i \in DOMAIN u : \A d : Cut(d, u, i) => Cut(d, v, i)
      BY <3>1, NestedChain
    <3>6. Cut(v, v, Len(v))
      BY <3>1, NestedChain
    <3>7. QED
      BY <3>2, <3>3, <3>4, <3>5, <3>6
  <2>5. /\ us \in Seq(SUBSET Nat) /\ Len(us) = Len(txs[t].units) + 1 /\ Len(us) \in DOMAIN us
        /\ us[Len(us)] = {} /\ Len(us) = Len(v)
        /\ \A i \in DOMAIN txs[t].units : i \in DOMAIN us /\ us[i] = txs[t].units[i]
    <3>1. txs[t].units \in Seq(SUBSET Nat)
      BY <1>2, <2>3, TxTypes
    <3>2. Len(u) = Len(txs[t].units)
      BY <1>2, <1>5, <2>1, <2>3, TopChain
    <3>3. Len(v) = Len(u) + 1
      BY <2>1, <2>3, NestedChain
    <3>4. PICK old : old = txs[t].units
      OBVIOUS
    <3>5. old \in Seq(SUBSET Nat) /\ us = Append(old, {}) /\ Len(old) + 1 = Len(v)
      BY <2>1, <3>1, <3>2, <3>3, <3>4
    <3>6. /\ us \in Seq(SUBSET Nat) /\ Len(us) = Len(old) + 1 /\ Len(us) \in DOMAIN us
          /\ us[Len(us)] = {}
          /\ \A i \in DOMAIN old : i \in DOMAIN us /\ us[i] = old[i]
      BY <3>5
    <3>7. QED
      BY <3>4, <3>5, <3>6
  <2>6. /\ txs' \in Seq(TxRec) /\ DOMAIN txs' = DOMAIN txs /\ txs'[t].units = us
        /\ \A x \in DOMAIN txs :
              /\ txs'[x].scope = txs[x].scope /\ txs'[x].by = txs[x].by
              /\ txs'[x].active = txs[x].active /\ txs'[x].closed = txs[x].closed
              /\ x # t => txs'[x] = txs[x]
    <3>1. txs' = [txs EXCEPT ![t].units = us]
      BY <1>5, <2>1
    <3>2. QED
      BY <1>2, <2>3, <2>5, <3>1, UnitsChange
  <2>7. /\ stack' \in [Procs -> Seq(Frame)] /\ outcome' \in Seq({"running", "ok", "failed", "kept"})
        /\ tables' \in Seq([Scopes -> Nat]) /\ 1 \in DOMAIN tables'
        /\ tables'[1] = [x \in Scopes |-> None]
        /\ Len(tables) + 1 \in DOMAIN tables'
        /\ DOMAIN tables \subseteq DOMAIN tables'
        /\ \A i \in DOMAIN tables : tables'[i] = tables[i]
    <3>1. "savepoint" \in {"tx", "savepoint", "nothing"}
      OBVIOUS
    <3>2. Child(CtxOf(p), s, v) \in Context
      BY <2>3, <2>4, <3>1, PushedTypes
    <3>3. QED
      BY <1>5, <2>1, <2>3, <2>4, <3>1, <3>2, PushedTypes
  <2>8. Typed'
    BY <1>2, <2>6, <2>7 DEF Typed
  <2>9. Pushed(p, f)
    <3>1. Len(txs') = Len(txs)
      BY <1>2, <2>6 DEF Typed
    <3>2. f.ctx.table \in DOMAIN tables'
      BY <2>2, <2>7 DEF Child
    <3>3. QED
      BY <1>1, <1>2, <1>5, <2>1, <2>2, <2>3, <2>6, <2>7, <3>1, <3>2 DEF Pushed, Push, Kept
  <2>10. /\ m = Depth(p)' /\ stack'[p][m] = f /\ m = D + 1
         /\ \A k \in 1 .. D : stack'[p][k] = stack[p][k]
         /\ \A k \in 1 .. m : k \in 1 .. D \/ k = m
         /\ m \in 1 .. m /\ \A k \in 1 .. D : k \in 1 .. m
    BY <2>1, <2>3, <2>9, PushedFrames
  <2>11. \A x \in Scopes :
           /\ x = s => Seen(p, m, x)' = t /\ Chain(p, m, x)' = v
           /\ x # s => /\ Seen(p, m, x)' = tables[CtxOf(p).table][x]
                       /\ Chain(p, m, x)' = CtxOf(p).units[x]
    <3>1. stack'[p][m].ctx = Child(CtxOf(p), s, v)
      BY <2>2, <2>10
    <3>2. QED
      BY <1>5, <2>3, <2>4, <3>1, ChildSees
  <2>12. /\ u # <<>> /\ txs[t].scope = s /\ txs[t].by = p /\ ~txs[t].closed
         /\ \A i \in DOMAIN u : \E k \in 1 .. D :
               Owns(p, k, t) /\ Cut(Chain(p, k, s), u, i) /\ stack[p][k].call = u[i]
         /\ \A k \in 1 .. D : Owns(p, k, t) => \E i \in DOMAIN u :
               Cut(Chain(p, k, s), u, i) /\ stack[p][k].call = u[i]
    BY <1>2, <2>3 DEF SeesOk
  <2>13. /\ Owns(p, m, t)' /\ stack'[p][m].call = c
         /\ \A k \in 1 .. D : Chain(p, k, s)' = Chain(p, k, s) /\ (Owns(p, k, t)' <=> Owns(p, k, t))
    BY <2>2, <2>10 DEF Owns, Chain
  <2>14. SeesOk(p, m, s, t, v)'
    <3>1. ASSUME NEW i \in DOMAIN v
          PROVE  \E k \in 1 .. m :
                    Owns(p, k, t)' /\ Cut(Chain(p, k, s)', v, i) /\ stack'[p][k].call = v[i]
      <4>1. CASE i = Len(v)
        BY <2>4a, <2>10, <2>11, <2>13, <4>1
      <4>2. CASE i \in DOMAIN u
        <5>1. PICK k \in 1 .. D :
                 Owns(p, k, t) /\ Cut(Chain(p, k, s), u, i) /\ stack[p][k].call = u[i]
          BY <2>12, <4>2
        <5>2. Cut(Chain(p, k, s), v, i) /\ v[i] = u[i]
          BY <2>4a, <4>2, <5>1
        <5>3. QED
          BY <2>10, <2>13, <5>1, <5>2
      <4>3. QED
        BY <2>4a, <4>1, <4>2
    <3>2. ASSUME NEW k \in 1 .. m, Owns(p, k, t)'
          PROVE  \E i \in DOMAIN v : Cut(Chain(p, k, s)', v, i) /\ stack'[p][k].call = v[i]
      <4>1. CASE k = m
        BY <2>4a, <2>10, <2>11, <2>13, <4>1
      <4>2. CASE k \in 1 .. D
        <5>1. PICK i \in DOMAIN u : Cut(Chain(p, k, s), u, i) /\ stack[p][k].call = u[i]
          BY <2>12, <2>13, <3>2, <4>2
        <5>2. i \in DOMAIN v /\ Cut(Chain(p, k, s), v, i) /\ v[i] = u[i]
          BY <2>4a, <5>1
        <5>3. QED
          BY <2>10, <2>13, <4>2, <5>1, <5>2
      <4>3. QED
        BY <2>10, <4>1, <4>2
    <3>3. v # <<>>
      BY <2>4a
    <3>4. QED
      BY <1>2, <2>3, <2>6, <2>12, <3>1, <3>2, <3>3 DEF SeesOk
  <2>15. ContextOk(p, m)'
    <3>1. ASSUME NEW x \in Scopes, NEW y \in {Seen(p, m, x)'}, NEW z \in {Chain(p, m, x)'}
          PROVE  SeesOk(p, m, x, y, z)'
      <4>1. CASE x = s
        BY <2>11, <2>14, <4>1
      <4>2. CASE x # s
        <5>1. y = tables[CtxOf(p).table][x] /\ z = CtxOf(p).units[x]
          BY <2>11, <4>2
        <5>2. y # t
          BY <1>2, <2>12, <4>2, <5>1, TopContext DEF SeesOk
        <5>3. QED
          BY <2>1, <2>2, <2>9, <5>1, <5>2, HandedDown
      <4>3. QED
        BY <4>1, <4>2
    <3>2. QED
      BY <3>1 DEF ContextOk
  <2>16. OwnerOk(p, m)'
    <3>1. stack'[p][m].tx = t /\ stack'[p][m].ends = "savepoint" /\ txs'[t].scope = s
      BY <2>2, <2>3, <2>6, <2>10, <2>12
    <3>2. Own(p, m)' = v /\ Seen(p, m, s)' = t
      BY <2>11, <3>1 DEF Own
    <3>3. v[Len(v)] = c /\ Len(v) # 1
      <4>1. Len(u) \in Nat /\ Len(u) # 0
        BY <2>3, <2>12
      <4>2. QED
        BY <2>4a, <2>3, <4>1
    <3>4. Seen(p, m, txs[t].scope)' = t
      BY <2>3, <2>6, <2>12, <3>2 DEF Seen
    <3>5. QED
      BY <2>3, <2>6, <2>12, <2>13, <3>1, <3>2, <3>3, <3>4 DEF OwnerOk, Seen
  <2>17. UnitsOk(t)'
    <3>1. UnitsOf(t, p, s)
      BY <1>5, <2>3, <2>12 DEF PInv, UnitsOk
    <3>2. Owns(p, m, t)' /\ Len(Chain(p, m, s)') = Len(us)
      BY <2>5, <2>11, <2>13
    <3>3. ASSUME NEW n \in 1 .. m, Owns(p, n, t)',
                 NEW x \in {stack'[p][n].call}, NEW i \in {Len(Chain(p, n, s)')}
          PROVE  i \in DOMAIN us /\ us[i] = Work(x, i)'
      <4>0. /\ \A y, j : Work(y, j)' = Work(y, j)
            /\ \A j : Work(c, j) = {}
        <5>1. (\A y, j : Work(y, j)' = Work(y, j)) /\ \A j : Work(f.call, j) = {}
          BY <2>8, <2>9, PushStep
        <5>2. f.call = c
          BY <2>2
        <5>3. QED
          BY <5>1, <5>2
      <4>1. CASE n = m
        BY <2>5, <2>11, <2>13, <4>0, <4>1
      <4>2. CASE n \in 1 .. D
        <5>1. x = stack[p][n].call /\ i = Len(Chain(p, n, s)) /\ Owns(p, n, t) /\ n \in 1 .. Depth(p)
          BY <2>1, <2>10, <2>13, <3>3, <4>2
        <5>2. i \in DOMAIN txs[t].units /\ txs[t].units[i] = Work(x, i)
          BY <3>1, <5>1 DEF UnitsOf
        <5>3. QED
          BY <2>5, <4>0, <5>2
      <4>3. QED
        BY <2>10, <4>1, <4>2
    <3>4. UnitsOf(t, p, s)'
      BY <2>6, <2>10, <3>2, <3>3 DEF UnitsOf
    <3>5. QED
      BY <2>3, <2>6, <2>12, <3>4 DEF UnitsOk
  <2>18. \A x \in DOMAIN txs' :
           \/ x \in DOMAIN txs /\ txs'[x] = txs[x] /\ (f.ends # "nothing" => f.tx # x)
           \/ UnitsOk(x)'
    BY <2>2, <2>6, <2>17
  <2>19. QED
    BY <1>2, <1>3, <2>1, <2>8, <2>9, <2>15, <2>16, <2>18, PushKeeps
<1>6. QED
  BY <1>2, <1>4, <1>5
(* A new transaction has one unit, and its call is the only owner. *)
LEMMA BeginStep ==
    ASSUME PInv, NEW p \in Procs, Begin(p)
    PROVE  PInv'
<1>1. PICK s, t, c, rec : /\ s = wants[p].on /\ t = Len(txs) + 1 /\ c = Len(outcome) + 1
                          /\ rec = [scope |-> s, by |-> p, units |-> << {} >>,
                                    active |-> TRUE, closed |-> FALSE]
  OBVIOUS
<1>2. /\ Typed /\ WaitsOk /\ UNCHANGED <<durable, written>> /\ wants[p].to \in Propagations
      /\ wants' = [wants EXCEPT ![p] = Idle]
      /\ \/ /\ txs' = Append(txs, rec)
            /\ withScopeTx(CtxOf(p), s, t)
            /\ Push(p, Child(CtxOf(p), s, <<c>>), t, "tx")
         \/ Refused /\ UNCHANGED <<tables, txs>>
  BY <1>1, PropagationAssumption DEF Begin, PInv
<1>3. s \in Scopes
  <2>1. ~Running(p)
    BY <1>2 DEF Running, Idle, Propagations
  <2>2. QED
    BY <1>1, <1>2, <2>1 DEF WaitsOk
<1>4. /\ wants' \in [Procs -> Want] /\ Running(p)' /\ \A q \in Procs \ {p} : wants'[q] = wants[q]
  <2>1. Idle \in Want
    BY DEF Idle, Want
  <2>2. wants \in [Procs -> Want]
    BY <1>2 DEF Typed
  <2>3. QED
    BY <1>2, <2>1, <2>2 DEF Running
<1>5. CASE Refused /\ UNCHANGED <<tables, txs>>
  BY <1>2, <1>4, <1>5, RefusedStep
<1>6. CASE /\ txs' = Append(txs, rec)
           /\ withScopeTx(CtxOf(p), s, t)
           /\ Push(p, Child(CtxOf(p), s, <<c>>), t, "tx")
  <2>1. PICK v, m, D : v = <<c>> /\ m = Depth(p) + 1 /\ D = Depth(p)
    OBVIOUS
  <2>2. PICK f : f = [call |-> c, ctx |-> Child(CtxOf(p), s, v), tx |-> t, ends |-> "tx"]
    OBVIOUS
  <2>3. /\ c \in Nat /\ v \in Seq(Nat) /\ Len(v) = 1 /\ v[1] = c /\ v # <<>> /\ DOMAIN v = {1}
        /\ Cut(v, v, 1)
    BY <1>1, <1>2, <2>1 DEF Typed, Cut
  <2>4. rec \in TxRec
    <3>1. << {} >> \in Seq(SUBSET Nat)
      OBVIOUS
    <3>2. QED
      BY <1>1, <1>3, <3>1 DEF TxRec
  <2>5. /\ txs' \in Seq(TxRec) /\ DOMAIN txs \subseteq DOMAIN txs' /\ t \in DOMAIN txs'
        /\ Len(txs') = t /\ t \in Nat /\ t # None /\ t \notin DOMAIN txs /\ txs'[t] = rec
        /\ \A x \in DOMAIN txs : txs'[x] = txs[x] /\ x # t
        /\ \A x \in DOMAIN txs' : x = t \/ x \in DOMAIN txs
    <3>1. txs \in Seq(TxRec)
      BY <1>2 DEF Typed
    <3>2. QED
      BY <1>1, <1>6, <2>4, <3>1 DEF None
  <2>6. /\ Depth(p) \in Nat /\ CtxOf(p).table \in DOMAIN tables
        /\ \A k \in 1 .. D : stack[p][k].tx # t
    <3>1. \A k \in 1 .. D : stack[p][k].tx \in 0 .. Len(txs)
      BY <2>1 DEF PInv, FramesOk
    <3>2. Len(txs) \in Nat
      BY <1>2 DEF Typed
    <3>3. Depth(p) \in Nat /\ CtxOf(p).table \in DOMAIN tables
      BY <1>2, <1>3, FrameTypes, TopContext
    <3>4. QED
      BY <1>1, <3>1, <3>2, <3>3
  <2>7. /\ stack' \in [Procs -> Seq(Frame)] /\ outcome' \in Seq({"running", "ok", "failed", "kept"})
        /\ tables' \in Seq([Scopes -> Nat]) /\ 1 \in DOMAIN tables'
        /\ tables'[1] = [x \in Scopes |-> None]
        /\ Len(tables) + 1 \in DOMAIN tables'
        /\ DOMAIN tables \subseteq DOMAIN tables'
        /\ \A i \in DOMAIN tables : tables'[i] = tables[i]
    <3>1. "tx" \in {"tx", "savepoint", "nothing"}
      OBVIOUS
    <3>2. Child(CtxOf(p), s, v) \in Context
      BY <1>3, <2>3, <2>5, <3>1, PushedTypes
    <3>3. QED
      BY <1>3, <1>6, <2>1, <2>3, <2>5, <3>1, <3>2, PushedTypes
  <2>8. Typed'
    BY <1>2, <1>4, <2>5, <2>7 DEF Typed
  <2>9. Pushed(p, f)
    <3>1. f.ctx.table \in DOMAIN tables'
      BY <2>2, <2>7 DEF Child
    <3>2. f.tx \in 0 .. Len(txs')
      BY <2>2, <2>5
    <3>3. QED
      BY <1>1, <1>2, <1>6, <2>1, <2>2, <2>5, <2>7, <3>1, <3>2 DEF Pushed, Push, Kept
  <2>10. /\ m = Depth(p)' /\ stack'[p][m] = f /\ m = D + 1
         /\ \A k \in 1 .. D : stack'[p][k] = stack[p][k]
         /\ \A k \in 1 .. m : k \in 1 .. D \/ k = m
         /\ m \in 1 .. m
    BY <2>1, <2>6, <2>9, PushedFrames
  <2>11. \A x \in Scopes :
           /\ x = s => Seen(p, m, x)' = t /\ Chain(p, m, x)' = v
           /\ x # s => /\ Seen(p, m, x)' = tables[CtxOf(p).table][x]
                       /\ Chain(p, m, x)' = CtxOf(p).units[x]
    <3>1. stack'[p][m].ctx = Child(CtxOf(p), s, v)
      BY <2>2, <2>10
    <3>2. QED
      BY <1>3, <1>6, <2>3, <2>5, <3>1, ChildSees
  <2>12. Owns(p, m, t)' /\ stack'[p][m].call = c /\ \A k \in 1 .. m : Owns(p, k, t)' => k = m
    BY <2>2, <2>6, <2>10 DEF Owns
  <2>13. SeesOk(p, m, s, t, v)'
    <3>1. txs'[t].scope = s /\ txs'[t].by = p /\ ~txs'[t].closed
      BY <1>1, <2>5
    <3>2. \A i \in DOMAIN v : \E k \in 1 .. m :
             Owns(p, k, t)' /\ Cut(Chain(p, k, s)', v, i) /\ stack'[p][k].call = v[i]
      BY <1>3, <2>3, <2>10, <2>11, <2>12
    <3>3. \A k \in 1 .. m : Owns(p, k, t)' => \E i \in DOMAIN v :
             Cut(Chain(p, k, s)', v, i) /\ stack'[p][k].call = v[i]
      BY <1>3, <2>3, <2>10, <2>11, <2>12
    <3>4. QED
      BY <2>3, <2>5, <3>1, <3>2, <3>3 DEF SeesOk
  <2>14. ContextOk(p, m)'
    <3>1. ASSUME NEW x \in Scopes, NEW y \in {Seen(p, m, x)'}, NEW z \in {Chain(p, m, x)'}
          PROVE  SeesOk(p, m, x, y, z)'
      <4>1. CASE x = s
        BY <2>11, <2>13, <4>1
      <4>2. CASE x # s
        <5>1. y = tables[CtxOf(p).table][x] /\ z = CtxOf(p).units[x]
          BY <2>11, <4>2
        <5>2. y # t
          BY <2>5, <5>1, TopContext DEF SeesOk
        <5>3. QED
          BY <2>1, <2>2, <2>9, <5>1, <5>2, HandedDown
      <4>3. QED
        BY <4>1, <4>2
    <3>2. QED
      BY <3>1 DEF ContextOk
  <2>15. OwnerOk(p, m)'
    <3>1. /\ stack'[p][m].tx = t /\ stack'[p][m].ends = "tx" /\ txs'[t].scope = s
          /\ txs'[t].by = p
      BY <1>1, <2>2, <2>5, <2>10
    <3>2. Own(p, m)' = v /\ Seen(p, m, s)' = t
      BY <1>3, <2>11, <3>1 DEF Own
    <3>3. QED
      BY <2>3, <2>5, <2>12, <3>1, <3>2 DEF OwnerOk, Seen
  <2>16. UnitsOk(t)'
    <3>1. Owns(p, m, t)' /\ Len(Chain(p, m, s)') = 1
      BY <1>3, <2>3, <2>11, <2>12
    <3>2. txs'[t].units = << {} >> /\ txs'[t].by = p /\ txs'[t].scope = s
      BY <1>1, <2>5
    <3>3. ASSUME NEW n \in 1 .. m, Owns(p, n, t)',
                 NEW x \in {stack'[p][n].call}, NEW i \in {Len(Chain(p, n, s)')}
          PROVE  i \in DOMAIN << {} >> /\ << {} >>[i] = Work(x, i)'
      <4>1. (\A y, j : Work(y, j)' = Work(y, j)) /\ \A j : Work(f.call, j) = {}
        BY <2>8, <2>9, PushStep
      <4>2. x = f.call /\ i = 1
        BY <2>2, <2>12, <3>1, <3>3
      <4>3. Work(x, i)' = {}
        BY <4>1, <4>2
      <4>4. QED
        BY <4>2, <4>3
    <3>4. UnitsOf(t, p, s)'
      <4>1. Len(<< {} >>) = 1
        OBVIOUS
      <4>2. QED
        BY <2>10, <3>1, <3>2, <3>3, <4>1 DEF UnitsOf
    <3>5. QED
      BY <3>2, <3>4 DEF UnitsOk
  <2>17. \A x \in DOMAIN txs' :
           \/ x \in DOMAIN txs /\ txs'[x] = txs[x] /\ (f.ends # "nothing" => f.tx # x)
           \/ UnitsOk(x)'
    BY <2>2, <2>5, <2>16
  <2>18. QED
    BY <1>4, <2>1, <2>8, <2>9, <2>14, <2>15, <2>17, PushKeeps
<1>7. QED
  BY <1>2, <1>5, <1>6
-----------------------------------------------------------------------------
(* Who asks for a connection, and the end of a transaction's context.       *)

(* A goroutine begins to wait; nothing else changes. *)
LEMMA AskStep ==
    ASSUME PInv, NEW p \in Procs, NEW s \in Scopes, NEW to \in {"write"} \cup Propagations,
           wants' = [wants EXCEPT ![p] = [to |-> to, on |-> s]],
           UNCHANGED <<tables, txs, stack, durable, written, outcome>>,
           to = "requires_new" \/ TxFromContext(CtxOf(p), s) = None
    PROVE  PInv'
<1>1. Typed /\ wants \in [Procs -> Want] /\ UNCHANGED <<stack, tables, written, durable>>
  BY DEF PInv, Typed
<1>2. [to |-> to, on |-> s] \in Want
  BY DEF Want
<1>3. wants' \in [Procs -> Want] /\ wants'[p] = [to |-> to, on |-> s]
  BY <1>1, <1>2
<1>4. Typed'
  BY <1>1, <1>3 DEF Typed
<1>5. to = "requires_new" \/ CtxOf(p).units[s] = <<>>
  <2>1. PICK t, u : t = tables[CtxOf(p).table][s] /\ u = CtxOf(p).units[s]
    OBVIOUS
  <2>2. t = TxFromContext(CtxOf(p), s) /\ SeesOk(p, Depth(p), s, t, u)
    BY <2>1, TopContext
  <2>3. t = None => u = <<>>
    BY <2>2 DEF SeesOk
  <2>4. QED
    BY <2>1, <2>2, <2>3
<1>6. WaitsOk'
  <2>1. ASSUME NEW q \in Procs, ~Running(q)'
        PROVE  /\ wants'[q].on \in Scopes /\ wants'[q].to # "nothing"
               /\ wants'[q].to = "requires_new" \/ CtxOf(q)'.units[wants'[q].on] = <<>>
    <3>1. CtxOf(q)' = CtxOf(q)
      BY <1>1 DEF CtxOf, Top, Depth
    <3>2. CASE q = p
      BY <1>3, <1>5, <3>1, <3>2 DEF Propagations
    <3>3. CASE q # p
      <4>1. wants'[q] = wants[q] /\ ~Running(q)
        BY <1>1, <2>1, <3>3 DEF Running
      <4>2. QED
        BY <3>1, <4>1 DEF PInv, WaitsOk
    <3>4. QED
      BY <3>2, <3>3
  <2>2. QED
    BY <2>1 DEF WaitsOk
<1>7. QED
  BY <1>1, <1>4, <1>6, QuietStep

(* Who asks for a transaction of its own may have to wait for it. *)
LEMMA RunNewStep ==
    ASSUME PInv, NEW p \in Procs, NEW s \in Scopes, NEW mode, RunNew(p, s, mode)
    PROVE  PInv'
<1>1. mode \in {"write"} \cup Propagations
  BY PropagationAssumption DEF RunNew, MayCall
<1>2. /\ wants' = [wants EXCEPT ![p] = [to |-> mode, on |-> s]]
      /\ UNCHANGED <<tables, txs, stack, durable, written, outcome>>
      /\ mode = "requires_new" \/ TxFromContext(CtxOf(p), s) = None
  BY DEF RunNew
<1>3. QED
  BY <1>1, <1>2, AskStep

(* The transaction that is over has no units. *)
LEMMA OverTypes ==
    ASSUME Typed, NEW t \in DOMAIN txs, NEW closed \in BOOLEAN, Over(t, closed)
    PROVE  /\ txs' \in Seq(TxRec) /\ DOMAIN txs' = DOMAIN txs
           /\ txs'[t].scope = txs[t].scope /\ txs'[t].by = txs[t].by
           /\ ~txs'[t].active /\ txs'[t].closed = closed
           /\ \A x \in DOMAIN txs : x # t => txs'[x] = txs[x]
<1>1. PICK new : new = [scope |-> txs[t].scope, by |-> txs[t].by, units |-> <<>>,
                        active |-> FALSE, closed |-> closed]
  OBVIOUS
<1>2. txs \in Seq(TxRec) /\ txs[t].scope \in Scopes /\ txs[t].by \in Procs
  BY TxTypes DEF Typed
<1>3. new \in TxRec
  <2>1. <<>> \in Seq(SUBSET Nat)
    OBVIOUS
  <2>2. QED
    BY <1>1, <1>2, <2>1 DEF TxRec
<1>4. txs' = [txs EXCEPT ![t] = new]
  BY <1>1 DEF Over
<1>5. /\ txs' \in Seq(TxRec) /\ DOMAIN txs' = DOMAIN txs /\ txs'[t] = new
      /\ \A x \in DOMAIN txs : x # t => txs'[x] = txs[x]
  BY <1>2, <1>3, <1>4
<1>6. QED
  BY <1>1, <1>5

(* The end of its context makes a transaction inactive, not closed. *)
LEMMA CtxDoneStep ==
    ASSUME PInv, NEW t \in DOMAIN txs, CtxDone(t)
    PROVE  PInv'
<1>1. /\ Typed /\ WaitsOk /\ Over(t, FALSE)
      /\ UNCHANGED <<tables, stack, wants, durable, written, outcome>>
  BY DEF CtxDone, PInv
<1>2. /\ txs' \in Seq(TxRec) /\ DOMAIN txs' = DOMAIN txs
      /\ txs'[t].scope = txs[t].scope /\ txs'[t].by = txs[t].by
      /\ ~txs'[t].active /\ txs'[t].closed = FALSE
      /\ \A x \in DOMAIN txs : x # t => txs'[x] = txs[x]
  BY <1>1, OverTypes
<1>3. Typed'
  BY <1>1, <1>2 DEF Typed
<1>4. WaitsOk'
  BY <1>1 DEF WaitsOk, Running, CtxOf, Top, Depth
<1>5. QED
  BY <1>1, <1>2, <1>3, <1>4, QuietStep

(* Nothing changes. *)
LEMMA StutterStep ==
    ASSUME PInv, UNCHANGED vars
    PROVE  PInv'
<1>1. UNCHANGED <<tables, txs, stack, wants, durable, written, outcome>> /\ Typed /\ WaitsOk
  BY DEF vars, PInv
<1>2. Typed' /\ WaitsOk'
  BY <1>1 DEF Typed, WaitsOk, Running, CtxOf, Top, Depth
<1>3. QED
  BY <1>1, <1>2, QuietStep

-----------------------------------------------------------------------------
(* Statements.                                                              *)

(* A write is added: its chain is that of an open context, or empty. *)
LEMMA WriteKeeps ==
    ASSUME PInv, Typed', NEW e, written' = Append(written, e), outcome' = outcome,
           stack' = stack, tables' = tables, WaitsOk', Kept, DOMAIN txs' = DOMAIN txs,
           \A t \in DOMAIN txs : txs'[t].closed = txs[t].closed,
           NEW w, w = Len(written) + 1,
           \/ e = <<>> /\ durable' = durable \cup {w}
           \/ /\ durable' = durable /\ e # <<>>
              /\ \E p \in Procs : \E n \in 1 .. Depth(p), s \in Scopes : e = Chain(p, n, s),
           \A t \in DOMAIN txs' : UnitsOk(t)'
    PROVE  PInv'
<1>0. Typed /\ FramesOk /\ WrittenOk /\ WorkFollowsUnits
  BY DEF PInv
<1>1. /\ w \notin DOMAIN written /\ written'[w] = e
      /\ \A x \in DOMAIN written' : x = w \/ x \in DOMAIN written
      /\ \A x \in DOMAIN written : x \in DOMAIN written' /\ written'[x] = written[x] /\ x # w
      /\ w \in DOMAIN written'
  <2>1. written \in Seq(Seq(Nat))
    BY <1>0 DEF Typed
  <2>2. /\ DOMAIN written = 1 .. Len(written) /\ DOMAIN written' = 1 .. Len(written) + 1
        /\ Len(written) \in Nat /\ written'[Len(written) + 1] = e
        /\ \A x \in DOMAIN written : written'[x] = written[x]
    BY <2>1
  <2>3. QED
    BY <2>2
<1>2. \A p : Depth(p)' = Depth(p)
  BY DEF Depth
<1>3. \A j \in DOMAIN e :
         /\ e[j] \in DOMAIN outcome /\ outcome[e[j]] = "running"
         /\ \A q \in Procs : \A m \in 1 .. Depth(q) : stack[q][m].call = e[j] =>
               stack[q][m].ends # "nothing" /\ Cut(Own(q, m), e, j)
  <2>1. CASE e = <<>>
    BY <2>1
  <2>2. ASSUME NEW p \in Procs, NEW n \in 1 .. Depth(p), NEW s \in Scopes, e = Chain(p, n, s),
               NEW j \in DOMAIN e
        PROVE  /\ e[j] \in DOMAIN outcome /\ outcome[e[j]] = "running"
               /\ \A q \in Procs : \A m \in 1 .. Depth(q) : stack[q][m].call = e[j] =>
                     stack[q][m].ends # "nothing" /\ Cut(Own(q, m), e, j)
    <3>1. PICK k \in 1 .. n :
             /\ k \in 1 .. Depth(p) /\ Owns(p, k, Seen(p, n, s))
             /\ Cut(Chain(p, k, s), e, j) /\ stack[p][k].call = e[j]
             /\ e[j] \in DOMAIN outcome /\ outcome[e[j]] = "running"
      BY <2>2, ChainRuns
    <3>2. txs[Seen(p, n, s)].scope = s
      <4>1. Seen(p, n, s) # None
        BY <2>2, ContextSees
      <4>2. QED
        BY <4>1, ContextSees
    <3>3. Own(p, k) = Chain(p, k, s) /\ stack[p][k].ends # "nothing"
      BY <3>1, <3>2 DEF Own, Owns
    <3>4. \A q \in Procs : \A m \in 1 .. Depth(q) : stack[q][m].call = e[j] => q = p /\ m = k
      BY <1>0, <3>1 DEF FramesOk
    <3>5. QED
      BY <3>1, <3>3, <3>4
  <2>3. QED
    BY <2>1, <2>2
<1>4. WrittenOk'
  <2>1. ASSUME NEW q \in Procs, NEW m \in 1 .. Depth(q), stack[q][m].ends # "nothing"
        PROVE  Own(q, m)' = Own(q, m)
    BY <2>1, OwnKept
  <2>2. ASSUME NEW x \in DOMAIN written', NEW j \in DOMAIN written'[x]
        PROVE  /\ written'[x][j] \in DOMAIN outcome
               /\ \A q \in Procs : \A m \in 1 .. Depth(q) : stack[q][m].call = written'[x][j] =>
                     stack[q][m].ends # "nothing" /\ Cut(Own(q, m), written'[x], j)
    <3>1. CASE x = w
      BY <1>1, <1>3, <2>2, <3>1
    <3>2. CASE x # w
      BY <1>0, <1>1, <2>2, <3>2 DEF WrittenOk
    <3>3. QED
      BY <3>1, <3>2
  <2>3. ASSUME NEW x \in DOMAIN written', NEW j \in DOMAIN written'[x], NEW q \in Procs,
               NEW m \in 1 .. Depth(q)', stack'[q][m].call = written'[x][j]
        PROVE  stack'[q][m].ends # "nothing" /\ Cut(Own(q, m)', written'[x], j)
    BY <1>2, <2>1, <2>2, <2>3
  <2>4. QED
    BY <2>2, <2>3 DEF WrittenOk
<1>5. WorkFollowsUnits'
  <2>1. durable \subseteq DOMAIN written
    BY <1>0 DEF Typed
  <2>2. ASSUME NEW x \in DOMAIN written'
        PROVE  x \in durable' <=> \A i \in DOMAIN written'[x] : outcome'[written'[x][i]] \in Stays
    <3>1. CASE x = w /\ e = <<>>
      BY <1>1, <3>1
    <3>2. CASE x = w /\ e # <<>>
      <4>1. 1 \in DOMAIN e
        <5>1. e \in Seq(Nat)
          BY FrameTypes, <1>0, <3>2
        <5>2. QED
          BY <3>2, <5>1
      <4>2. outcome[e[1]] = "running" /\ x \notin durable'
        BY <1>1, <1>3, <2>1, <3>2, <4>1
      <4>3. QED
        BY <1>1, <3>2, <4>1, <4>2, StaysReturned
    <3>3. CASE x # w
      <4>1. x \in DOMAIN written /\ written'[x] = written[x] /\ (x \in durable' <=> x \in durable)
        BY <1>1, <3>3
      <4>2. QED
        BY <1>0, <4>1 DEF WorkFollowsUnits
    <3>4. QED
      BY <3>1, <3>2, <3>3
  <2>3. QED
    BY <2>2 DEF WorkFollowsUnits
<1>6. FramesOk'
  <2>1. Len(txs') = Len(txs)
    BY <1>0 DEF Typed
  <2>2. QED
    BY <1>0, <1>2, <2>1 DEF FramesOk
<1>7. ASSUME NEW q \in Procs, NEW m \in 1 .. Depth(q)'
      PROVE  ContextOk(q, m)' /\ OwnerOk(q, m)'
  <2>1. m \in 1 .. Depth(q)
    BY <1>2
  <2>2. \A s \in Scopes : Seen(q, m, s) # None => ~txs'[Seen(q, m, s)].closed
    BY <2>1, ContextSees
  <2>3. \A k \in 1 .. m : stack'[q][k] = stack[q][k]
    OBVIOUS
  <2>4. QED
    BY <2>1, <2>2, <2>3, FrameKept
<1>8. QED
  BY <1>4, <1>5, <1>6, <1>7 DEF PInv
(* A write that waited outside a transaction is durable at once. *)
LEMMA WriteAloneStep ==
    ASSUME PInv, NEW p \in Procs, WriteAlone(p)
    PROVE  PInv'
<1>1. PICK s, w : s = wants[p].on /\ w = Len(written) + 1
  OBVIOUS
<1>2. /\ Typed /\ WaitsOk /\ wants[p].to = "write" /\ wants' = [wants EXCEPT ![p] = Idle]
      /\ durable' = durable \cup {w} /\ written' = Append(written, CtxOf(p).units[s])
      /\ UNCHANGED <<tables, txs, stack, outcome>>
  BY <1>1 DEF WriteAlone, PInv
<1>3. s \in Scopes /\ CtxOf(p).units[s] = <<>>
  <2>1. ~Running(p)
    BY <1>2 DEF Running, Idle
  <2>2. QED
    BY <1>1, <1>2, <2>1 DEF WaitsOk
<1>4. /\ wants' \in [Procs -> Want] /\ Running(p)' /\ \A q \in Procs \ {p} : wants'[q] = wants[q]
  <2>1. Idle \in Want
    BY DEF Idle, Want
  <2>2. wants \in [Procs -> Want]
    BY <1>2 DEF Typed
  <2>3. QED
    BY <1>2, <2>1, <2>2 DEF Running
<1>5. PICK e : e = <<>>
  OBVIOUS
<1>6. written' = Append(written, e)
  BY <1>2, <1>3, <1>5
<1>7. Typed'
  <2>1. written \in Seq(Seq(Nat)) /\ durable \subseteq DOMAIN written
    BY <1>2 DEF Typed
  <2>2. e \in Seq(Nat)
    BY <1>5
  <2>3. written' \in Seq(Seq(Nat)) /\ DOMAIN written \subseteq DOMAIN written' /\ w \in DOMAIN written'
    BY <1>1, <1>6, <2>1, <2>2
  <2>4. QED
    BY <1>2, <1>4, <2>1, <2>3 DEF Typed
<1>8. WaitsOk'
  BY <1>2, <1>4, WaitsStay
<1>9. ASSUME NEW t \in DOMAIN txs'
      PROVE  UnitsOk(t)'
  <2>1. \A x, i : ~(i \in DOMAIN e /\ e[i] = x)
    BY <1>5
  <2>2. \A x, i : Work(x, i)' = Work(x, i)
    BY <1>2, <1>6, <2>1, WorkOfOthers
  <2>3. \A q : Depth(q)' = Depth(q) /\ stack'[q] = stack[q]
    BY <1>2 DEF Depth
  <2>4. \A q, n : Owns(q, n, t)' <=> Owns(q, n, t)
    BY <1>2 DEF Owns
  <2>5. QED
    BY <1>2, <2>2, <2>3, <2>4, UnitsKept
<1>10. Kept
  BY <1>2 DEF Kept
<1>11. QED
  BY <1>1, <1>2, <1>5, <1>6, <1>7, <1>8, <1>9, <1>10, WriteKeeps

(* A new write is of the innermost call of its chain, while that runs. *)
LEMMA WorkAppend ==
    ASSUME Typed, NEW u \in Seq(Nat), written' = Append(written, u), outcome' = outcome,
           NEW i \in DOMAIN u, NEW x, x = u[i], NEW w, w = Len(written) + 1,
           outcome[u[Len(u)]] \notin Stays
    PROVE  Work(x, i)' = IF i = Len(u) THEN Work(x, i) \cup {w} ELSE Work(x, i)
<1>1. written \in Seq(Seq(Nat)) /\ i \in Nat /\ Len(u) \in Nat /\ Len(u) \in DOMAIN u /\ i <= Len(u)
      /\ \A j \in DOMAIN u : j <= Len(u)
  BY DEF Typed
<1>2. /\ w \notin DOMAIN written /\ written'[w] = u
      /\ \A y \in DOMAIN written' : y = w \/ y \in DOMAIN written
      /\ \A y \in DOMAIN written : y \in DOMAIN written' /\ written'[y] = written[y] /\ y # w
      /\ w \in DOMAIN written'
  BY <1>1
<1>3. ASSUME NEW y
      PROVE  y \in Work(x, i)' <=> y \in Work(x, i) \/ (i = Len(u) /\ y = w)
  <2>1. CASE y = w
    <3>1. y \notin Work(x, i)
      BY <1>2, <2>1 DEF Work
    <3>2. y \in Work(x, i)' <=> \A j \in DOMAIN u : j > i => outcome[u[j]] \in Stays
      BY <1>2, <2>1 DEF Work
    <3>3. (\A j \in DOMAIN u : j > i => outcome[u[j]] \in Stays) <=> i = Len(u)
      <4>1. CASE i = Len(u)
        BY <1>1, <4>1
      <4>2. CASE i # Len(u)
        <5>1. Len(u) > i
          BY <1>1, <4>2
        <5>2. QED
          BY <1>1, <4>2, <5>1
      <4>3. QED
        BY <4>1, <4>2
    <3>4. QED
      BY <2>1, <3>1, <3>2, <3>3
  <2>2. CASE y # w
    BY <1>2, <2>2 DEF Work
  <2>3. QED
    BY <2>1, <2>2
<1>4. CASE i = Len(u)
  BY <1>3, <1>4 DEF Work
<1>5. CASE i # Len(u)
  BY <1>3, <1>5 DEF Work
<1>6. QED
  BY <1>4, <1>5

(* A write in a transaction goes to its last unit, the last owner's. *)
LEMMA WriteStep ==
    ASSUME PInv, NEW p \in Procs, NEW s \in Scopes, Write(p, s)
    PROVE  PInv'
<1>1. PICK t, u, w : /\ t = TxFromContext(CtxOf(p), s) /\ u = CtxOf(p).units[s]
                     /\ w = Len(written) + 1
  OBVIOUS
<1>2. /\ Typed /\ Running(p) /\ UNCHANGED <<tables, stack, durable, outcome>>
      /\ \/ /\ t # None /\ txs[t].active
            /\ txs' = [txs EXCEPT ![t].units =
                          [txs[t].units EXCEPT ![Len(txs[t].units)] = @ \cup {w}]]
            /\ written' = Append(written, u)
            /\ UNCHANGED wants
         \/ /\ t = None
            /\ wants' = [wants EXCEPT ![p] = [to |-> "write", on |-> s]]
            /\ UNCHANGED <<txs, written>>
  BY <1>1 DEF Write, MayWrite, PInv
<1>3. CASE /\ t = None
           /\ wants' = [wants EXCEPT ![p] = [to |-> "write", on |-> s]]
           /\ UNCHANGED <<txs, written>>
  BY <1>1, <1>2, <1>3, AskStep
<1>4. CASE /\ t # None /\ txs[t].active
           /\ txs' = [txs EXCEPT ![t].units =
                          [txs[t].units EXCEPT ![Len(txs[t].units)] = @ \cup {w}]]
           /\ written' = Append(written, u)
           /\ UNCHANGED wants
  <2>1. PICK D, old, us : D = Depth(p) /\ old = txs[t].units
                          /\ us = [old EXCEPT ![Len(old)] = @ \cup {w}]
    OBVIOUS
  <2>2. /\ D \in 1 .. D /\ D \in 1 .. Depth(p) /\ t = Seen(p, D, s) /\ u = Chain(p, D, s)
        /\ u \in Seq(Nat)
    BY <1>1, <1>4, <2>1, TopContext
  <2>3. /\ t \in DOMAIN txs /\ txs[t].scope = s /\ txs[t].by = p /\ u # <<>>
        /\ Len(u) \in DOMAIN u /\ Len(u) = Len(old) /\ Len(old) \in DOMAIN old
        /\ \A k \in 1 .. D : Owns(p, k, t) => \E i \in DOMAIN u :
              Cut(Chain(p, k, s), u, i) /\ stack[p][k].call = u[i]
    <3>1. u # <<>> /\ Len(u) \in DOMAIN u
      BY <1>4, <2>2, ContextSees
    <3>2. \A k \in 1 .. D : Owns(p, k, t) => \E i \in DOMAIN u :
              Cut(Chain(p, k, s), u, i) /\ stack[p][k].call = u[i]
      <4>1. \A k \in 1 .. D : Owns(p, k, Seen(p, D, s)) => \E i \in DOMAIN Chain(p, D, s) :
               /\ Cut(Chain(p, k, s), Chain(p, D, s), i)
               /\ stack[p][k].call = Chain(p, D, s)[i]
        BY <1>4, <2>2, ContextSees
      <4>2. QED
        BY <2>2, <4>1
    <3>3. /\ t \in DOMAIN txs /\ txs[t].scope = s /\ txs[t].by = p
          /\ Len(u) = Len(old) /\ Len(old) \in DOMAIN old
      BY <1>4, <2>1, <2>2, TopChain
    <3>4. QED
      BY <3>1, <3>2, <3>3
  <2>4. /\ us \in Seq(SUBSET Nat) /\ Len(us) = Len(old) /\ DOMAIN us = DOMAIN old
        /\ us[Len(old)] = old[Len(old)] \cup {w}
        /\ \A i \in DOMAIN old : i # Len(old) => us[i] = old[i]
    <3>1. old \in Seq(SUBSET Nat) /\ w \in Nat
      BY <1>1, <1>2, <2>1, <2>3, TxTypes DEF Typed
    <3>2. old[Len(old)] \cup {w} \in SUBSET Nat
      BY <2>3, <3>1
    <3>3. QED
      BY <2>1, <2>3, <3>1, <3>2
  <2>5. /\ txs' \in Seq(TxRec) /\ DOMAIN txs' = DOMAIN txs /\ txs'[t].units = us
        /\ \A x \in DOMAIN txs :
              /\ txs'[x].scope = txs[x].scope /\ txs'[x].by = txs[x].by
              /\ txs'[x].active = txs[x].active /\ txs'[x].closed = txs[x].closed
              /\ x # t => txs'[x] = txs[x]
    <3>1. txs' = [txs EXCEPT ![t].units = us]
      BY <1>4, <2>1
    <3>2. QED
      BY <1>2, <2>3, <2>4, <3>1, UnitsChange
  <2>6. Typed'
    <3>1. written \in Seq(Seq(Nat)) /\ durable \subseteq DOMAIN written
      BY <1>2 DEF Typed
    <3>2. written' \in Seq(Seq(Nat)) /\ DOMAIN written \subseteq DOMAIN written'
      BY <1>4, <2>2, <3>1
    <3>3. QED
      BY <1>2, <1>4, <2>5, <3>1, <3>2 DEF Typed
  <2>7. WaitsOk'
    <3>1. Running(p)'
      BY <1>2, <1>4 DEF Running
    <3>2. QED
      BY <1>2, <1>4, <3>1, WaitsStay
  <2>8. Kept
    BY <1>2, <2>5 DEF Kept
  <2>9. \A q : Depth(q)' = Depth(q) /\ stack'[q] = stack[q]
    BY <1>2 DEF Depth
  <2>10. \A q, n, x : Owns(q, n, x)' <=> Owns(q, n, x)
    BY <1>2 DEF Owns
  <2>11. ASSUME NEW x \in DOMAIN txs, x # t
         PROVE  UnitsOk(x)'
    <3>1. ASSUME NEW q \in Procs, NEW n \in 1 .. Depth(q), Owns(q, n, x), NEW i
          PROVE  ~(i \in DOMAIN u /\ u[i] = stack[q][n].call)
      <4>1. SUFFICES ASSUME i \in DOMAIN u, u[i] = stack[q][n].call PROVE FALSE
        OBVIOUS
      <4>2. PICK k \in 1 .. D : k \in 1 .. Depth(p) /\ Owns(p, k, t) /\ stack[p][k].call = u[i]
        BY <2>2, <4>1, ChainRuns
      <4>3. q = p /\ n = k
        BY <4>1, <4>2 DEF PInv, FramesOk
      <4>4. QED
        BY <2>11, <3>1, <4>2, <4>3 DEF Owns
    <3>2. txs[x].by \in Procs
      BY <1>2, TxTypes
    <3>3. \A n \in 1 .. Depth(txs[x].by) : Owns(txs[x].by, n, x) =>
             \A y \in {stack[txs[x].by][n].call}, i \in {Len(Chain(txs[x].by, n, txs[x].scope))} :
                Work(y, i)' = Work(y, i)
      BY <1>2, <1>4, <3>1, <3>2, WorkOfOthers
    <3>4. QED
      BY <2>5, <2>9, <2>10, <2>11, <3>3, UnitsKept
  <2>12. UnitsOk(t)'
    <3>1. UnitsOf(t, p, s)
      BY <1>4, <2>3 DEF PInv, UnitsOk
    <3>2. \A n : Chain(p, n, s)' = Chain(p, n, s)
      BY <1>2 DEF Chain
    <3>3. outcome[u[Len(u)]] \notin Stays
      <4>1. outcome[u[Len(u)]] = "running"
        BY <2>2, <2>3, ChainRuns
      <4>2. QED
        BY <4>1, StaysReturned
    <3>4. ASSUME NEW n \in 1 .. D, Owns(p, n, t)',
                 NEW x \in {stack'[p][n].call}, NEW i \in {Len(Chain(p, n, s)')}
          PROVE  i \in DOMAIN us /\ us[i] = Work(x, i)'
      <4>1. Owns(p, n, t) /\ x = stack[p][n].call /\ i = Len(Chain(p, n, s))
        BY <2>9, <2>10, <3>2, <3>4
      <4>2. i \in DOMAIN old /\ old[i] = Work(x, i)
        BY <2>1, <3>1, <4>1 DEF UnitsOf
      <4>3. i \in DOMAIN u /\ x = u[i]
        BY <2>3, <4>1 DEF Cut
      <4>4. Work(x, i)' = IF i = Len(u) THEN Work(x, i) \cup {w} ELSE Work(x, i)
        BY <1>1, <1>2, <1>4, <2>2, <3>3, <4>3, WorkAppend
      <4>5. QED
        BY <2>3, <2>4, <4>2, <4>4
    <3>5. \E n \in 1 .. D : Owns(p, n, t)' /\ Len(Chain(p, n, s)') = Len(us)
      BY <2>1, <2>4, <2>10, <3>1, <3>2 DEF UnitsOf
    <3>6. D = Depth(p)'
      BY <2>1, <2>9
    <3>7. UnitsOf(t, p, s)'
      BY <2>5, <3>4, <3>5, <3>6 DEF UnitsOf
    <3>8. QED
      BY <2>3, <2>5, <3>7 DEF UnitsOk
  <2>13. \A x \in DOMAIN txs' : UnitsOk(x)'
    BY <2>5, <2>11, <2>12
  <2>14. \E q \in Procs : \E n \in 1 .. Depth(q), x \in Scopes : u = Chain(q, n, x)
    BY <2>2
  <2>15. QED
    BY <1>1, <1>2, <1>4, <2>3, <2>5, <2>6, <2>7, <2>8, <2>13, <2>14, WriteKeeps
<1>5. QED
  BY <1>2, <1>3, <1>4
-----------------------------------------------------------------------------
(* Calls return.                                                            *)

(* The innermost frame goes, and the outcome of its call is known. *)
LEMMA PoppedFrames ==
    ASSUME PInv, NEW p \in Procs, NEW ends, NEW r \in Results, Leave(p, ends, r),
           NEW D, D = Depth(p), NEW c, c = stack[p][D].call
    PROVE  /\ D \in Nat /\ D \in 1 .. D /\ D \in 1 .. Depth(p)
           /\ Top(p) = stack[p][D] /\ stack[p][D].ends = ends /\ Running(p)'
           /\ UNCHANGED <<tables, wants, written>>
           /\ c \in DOMAIN outcome /\ outcome[c] = "running"
           /\ DOMAIN outcome' = DOMAIN outcome /\ outcome'[c] = r
           /\ \A x \in DOMAIN outcome : x # c => outcome'[x] = outcome[x]
           /\ stack' \in [Procs -> Seq(Frame)] /\ outcome' \in Seq({"running", "ok", "failed", "kept"})
           /\ \A q \in Procs \ {p} : stack'[q] = stack[q]
           /\ \A q \in Procs : \A n \in 1 .. Depth(q)' :
                 /\ n \in 1 .. Depth(q) /\ stack'[q][n] = stack[q][n] /\ stack[q][n].call # c
                 /\ ~(q = p /\ n = D)
                 /\ \A k \in 1 .. n : k \in 1 .. Depth(q)'
           /\ \A q \in Procs : \A n \in 1 .. Depth(q) :
                 (q = p /\ n = D) \/ (n \in 1 .. Depth(q)' /\ stack'[q][n] = stack[q][n])
<1>0. Typed /\ FramesOk
  BY DEF PInv
<1>1. /\ stack[p] # <<>> /\ Top(p).ends = ends /\ Running(p)
      /\ stack' = [stack EXCEPT ![p] = SubSeq(@, 1, D - 1)]
      /\ outcome' = [outcome EXCEPT ![Top(p).call] = r]
      /\ UNCHANGED <<tables, wants, written>>
  BY DEF Leave
<1>2. /\ stack \in [Procs -> Seq(Frame)] /\ stack[p] \in Seq(Frame)
      /\ outcome \in Seq({"running", "ok", "failed", "kept"})
  BY <1>0 DEF Typed
<1>3. D = Len(stack[p]) /\ D \in Nat /\ D \in 1 .. D /\ D - 1 \in Nat
  BY <1>1, <1>2 DEF Depth
<1>4. Top(p) = stack[p][D]
  BY DEF Top
<1>5. c \in DOMAIN outcome /\ outcome[c] = "running"
  BY <1>0, <1>3 DEF FramesOk
<1>6. /\ DOMAIN outcome' = DOMAIN outcome /\ outcome'[c] = r
      /\ \A x \in DOMAIN outcome : x # c => outcome'[x] = outcome[x]
      /\ outcome' \in Seq({"running", "ok", "failed", "kept"})
  BY <1>1, <1>2, <1>4, <1>5 DEF Results
<1>7. /\ SubSeq(stack[p], 1, D - 1) \in Seq(Frame)
      /\ Len(SubSeq(stack[p], 1, D - 1)) = D - 1
      /\ \A n \in 1 .. D - 1 : SubSeq(stack[p], 1, D - 1)[n] = stack[p][n]
  <2>1. PICK f : f = stack[p]
    OBVIOUS
  <2>2. f \in Seq(Frame) /\ Len(f) = D
    BY <1>2, <1>3, <2>1
  <2>3. /\ SubSeq(f, 1, D - 1) \in Seq(Frame)
        /\ Len(SubSeq(f, 1, D - 1)) = D - 1
        /\ \A n \in 1 .. D - 1 : SubSeq(f, 1, D - 1)[n] = f[n]
    BY <1>3, <2>2
  <2>4. QED
    BY <2>1, <2>3
<1>8. /\ stack' \in [Procs -> Seq(Frame)] /\ stack'[p] = SubSeq(stack[p], 1, D - 1)
      /\ \A q \in Procs \ {p} : stack'[q] = stack[q]
  BY <1>1, <1>2, <1>7
<1>9. Depth(p)' = D - 1 /\ \A q \in Procs \ {p} : Depth(q)' = Depth(q)
  BY <1>7, <1>8 DEF Depth
<1>10. ASSUME NEW q \in Procs, NEW n \in 1 .. Depth(q)'
       PROVE  /\ n \in 1 .. Depth(q) /\ stack'[q][n] = stack[q][n] /\ stack[q][n].call # c
              /\ ~(q = p /\ n = D)
              /\ \A k \in 1 .. n : k \in 1 .. Depth(q)'
  <2>1. n \in 1 .. Depth(q) /\ stack'[q][n] = stack[q][n] /\ ~(q = p /\ n = D)
    <3>1. CASE q = p
      <4>1. n \in 1 .. D - 1
        BY <1>9, <1>10, <3>1
      <4>2. n \in 1 .. D /\ n # D
        BY <1>3, <4>1
      <4>3. stack'[p][n] = stack[p][n]
        BY <1>7, <1>8, <4>1
      <4>4. QED
        BY <3>1, <4>2, <4>3
    <3>2. CASE q # p
      BY <1>8, <1>9, <3>2
    <3>3. QED
      BY <3>1, <3>2
  <2>2. stack[q][n].call # c
    <3>1. D \in 1 .. Depth(p)
      BY <1>3
    <3>2. QED
      BY <1>0, <2>1, <3>1 DEF FramesOk
  <2>3. Depth(q)' \in Nat
    BY <1>0, <1>3, <1>9, FrameTypes
  <2>4. QED
    BY <2>1, <2>2, <2>3
<1>11. ASSUME NEW q \in Procs, NEW n \in 1 .. Depth(q)
       PROVE  (q = p /\ n = D) \/ (n \in 1 .. Depth(q)' /\ stack'[q][n] = stack[q][n])
  <2>1. CASE q = p /\ n # D
    <3>0. n \in 1 .. D /\ n # D
      BY <1>11, <2>1
    <3>1. n \in 1 .. D - 1
      BY <1>3, <3>0
    <3>2. stack'[p][n] = stack[p][n]
      BY <1>7, <1>8, <3>1
    <3>3. QED
      BY <1>9, <2>1, <3>1, <3>2
  <2>2. CASE q # p
    BY <1>8, <1>9, <1>11, <2>2
  <2>3. CASE q = p /\ n = D
    BY <2>3
  <2>4. QED
    BY <2>1, <2>2, <2>3
<1>12. Running(p)'
  BY <1>1 DEF Running
<1>13. QED
  BY <1>1, <1>3, <1>4, <1>5, <1>6, <1>8, <1>10, <1>11, <1>12

(* What is left of the invariant when the units and the writes are right. *)
LEMMA PopKeeps ==
    ASSUME PInv, Typed', NEW p \in Procs, NEW ends, NEW r \in Results, Leave(p, ends, r),
           Kept, WorkFollowsUnits', \A t \in DOMAIN txs' : UnitsOk(t)',
           \A q \in Procs : \A n \in 1 .. Depth(q)', s \in Scopes :
              Seen(q, n, s) # None => ~txs'[Seen(q, n, s)].closed
    PROVE  PInv'
<1>0. Typed /\ FramesOk /\ WrittenOk
  BY DEF PInv
<1>1. PICK D, c : D = Depth(p) /\ c = stack[p][D].call
  OBVIOUS
<1>2. /\ UNCHANGED <<tables, wants, written>> /\ Running(p)'
      /\ DOMAIN outcome' = DOMAIN outcome
      /\ \A x \in DOMAIN outcome : x # c => outcome'[x] = outcome[x]
      /\ \A q \in Procs \ {p} : stack'[q] = stack[q]
      /\ \A q \in Procs : \A n \in 1 .. Depth(q)' :
            /\ n \in 1 .. Depth(q) /\ stack'[q][n] = stack[q][n] /\ stack[q][n].call # c
            /\ \A k \in 1 .. n : k \in 1 .. Depth(q)'
  BY <1>1, PoppedFrames
<1>3. FramesOk'
  <2>1. ASSUME NEW q \in Procs, NEW n \in 1 .. Depth(q)'
        PROVE  /\ stack'[q][n].call \in DOMAIN outcome'
               /\ outcome'[stack'[q][n].call] = "running"
               /\ stack'[q][n].ctx.table \in DOMAIN tables'
               /\ stack'[q][n].tx \in 0 .. Len(txs')
    <3>1. outcome'[stack[q][n].call] = outcome[stack[q][n].call]
      BY <1>0, <1>2 DEF FramesOk
    <3>2. n \in 1 .. Depth(q) /\ stack'[q][n] = stack[q][n] /\ DOMAIN outcome \subseteq DOMAIN outcome'
      BY <1>2
    <3>3. QED
      BY <3>1, <3>2, FrameStays
  <2>2. ASSUME NEW q1 \in Procs, NEW q2 \in Procs, NEW n1 \in 1 .. Depth(q1)',
               NEW n2 \in 1 .. Depth(q2)', stack'[q1][n1].call = stack'[q2][n2].call
        PROVE  q1 = q2 /\ n1 = n2
    BY <1>0, <1>2, <2>2 DEF FramesOk
  <2>3. QED
    BY <2>1, <2>2 DEF FramesOk
<1>4. WrittenOk'
  <2>1. ASSUME NEW w \in DOMAIN written, NEW j \in DOMAIN written[w], NEW q \in Procs,
               NEW n \in 1 .. Depth(q)', stack'[q][n].call = written[w][j]
        PROVE  stack'[q][n].ends # "nothing" /\ Cut(Own(q, n)', written[w], j)
    <3>1. n \in 1 .. Depth(q) /\ stack'[q][n] = stack[q][n]
      BY <1>2
    <3>2. stack[q][n].ends # "nothing" /\ Cut(Own(q, n), written[w], j)
      BY <1>0, <2>1, <3>1 DEF WrittenOk
    <3>3. Own(q, n)' = Own(q, n)
      BY <3>1, <3>2, OwnKept
    <3>4. QED
      BY <3>1, <3>2, <3>3
  <2>2. QED
    BY <1>0, <1>2, <2>1 DEF WrittenOk
<1>5. WaitsOk'
  BY <1>2, WaitsStay
<1>6. ASSUME NEW q \in Procs, NEW n \in 1 .. Depth(q)'
      PROVE  ContextOk(q, n)' /\ OwnerOk(q, n)'
  <2>1. n \in 1 .. Depth(q) /\ \A k \in 1 .. n : stack'[q][k] = stack[q][k]
    BY <1>2
  <2>2. QED
    BY <2>1, FrameKept
<1>7. QED
  BY <1>3, <1>4, <1>5, <1>6 DEF PInv

(* The writes of a call that owns no other transaction, or nothing. *)
LEMMA PoppedWork ==
    ASSUME PInv, NEW p \in Procs, NEW ends, NEW r \in Results, Leave(p, ends, r),
           NEW q \in Procs, NEW n \in 1 .. Depth(q), NEW i,
           ends = "nothing" \/ stack[q][n].tx # Top(p).tx, NEW x, x = stack[q][n].call
    PROVE  Work(x, i)' = Work(x, i)
<1>1. PICK D, c : D = Depth(p) /\ c = stack[p][D].call
  OBVIOUS
<1>2. /\ Top(p) = stack[p][D] /\ D \in 1 .. Depth(p) /\ stack[p][D].ends = ends
      /\ written' = written /\ \A y \in DOMAIN outcome : y # c => outcome'[y] = outcome[y]
  BY <1>1, PoppedFrames
<1>3. ASSUME NEW w \in DOMAIN written, i \in DOMAIN written[w], written[w][i] = x,
             NEW j \in DOMAIN written[w], j > i
      PROVE  outcome'[written[w][j]] = outcome[written[w][j]]
  <2>1. written[w][j] \in DOMAIN outcome
    BY DEF PInv, WrittenOk
  <2>2. written[w][j] # c
    <3>1. SUFFICES ASSUME written[w][j] = c PROVE FALSE
      OBVIOUS
    <3>2. ends # "nothing"
      BY <1>1, <1>2, <3>1 DEF PInv, WrittenOk
    <3>3. i <= j
      <4>1. written[w] \in Seq(Nat)
        BY DEF PInv, Typed
      <4>2. QED
        BY <1>3, <4>1
    <3>4. stack[q][n].tx = stack[p][D].tx
      BY <1>1, <1>2, <1>3, <3>1, <3>3, Shared
    <3>5. QED
      BY <1>2, <3>2, <3>4
  <2>3. QED
    BY <1>2, <2>1, <2>2
<1>4. QED
  BY <1>2, <1>3, WorkSame

(* The units of a transaction that the call does not end. *)
LEMMA PoppedUnits ==
    ASSUME PInv, NEW p \in Procs, NEW ends, NEW r \in Results, Leave(p, ends, r),
           NEW t \in DOMAIN txs, txs'[t] = txs[t], ends = "nothing" \/ t # Top(p).tx
    PROVE  UnitsOk(t)'
<1>1. PICK D, q, s : D = Depth(p) /\ q = txs[t].by /\ s = txs[t].scope
  OBVIOUS
<1>2. q \in Procs
  BY <1>1, TxTypes DEF PInv
<1>3. /\ Top(p) = stack[p][D] /\ stack[p][D].ends = ends
      /\ \A n \in 1 .. Depth(q)' :
            n \in 1 .. Depth(q) /\ stack'[q][n] = stack[q][n]
      /\ \A n \in 1 .. Depth(q) :
            (q = p /\ n = D) \/ (n \in 1 .. Depth(q)' /\ stack'[q][n] = stack[q][n])
  BY <1>1, <1>2, PoppedFrames
<1>4. ASSUME NEW n \in 1 .. Depth(q), Owns(q, n, t)
      PROVE  /\ n \in 1 .. Depth(q)' /\ stack'[q][n] = stack[q][n]
             /\ \A x \in {stack[q][n].call}, i \in {Len(Chain(q, n, s))} : Work(x, i)' = Work(x, i)
  <2>1. ~(q = p /\ n = D)
    BY <1>3, <1>4 DEF Owns
  <2>2. ASSUME NEW x, x = stack[q][n].call, NEW i
        PROVE  Work(x, i)' = Work(x, i)
    <3>1. ends = "nothing" \/ stack[q][n].tx # Top(p).tx
      BY <1>4 DEF Owns
    <3>2. QED
      BY <1>2, <2>2, <3>1, PoppedWork
  <2>3. QED
    BY <1>3, <2>1, <2>2
<1>5. QED
  BY <1>1, <1>3, <1>4, UnitsKept

(* A call that ends nothing has no writes of its own. *)
LEMMA LeaveJoinedStep ==
    ASSUME PInv, NEW p \in Procs, LeaveJoined(p)
    PROVE  PInv'
<1>1. PICK r \in Results : Leave(p, "nothing", r)
  BY DEF LeaveJoined, Results
<1>2. Typed /\ UNCHANGED <<txs, durable>>
  BY DEF LeaveJoined, PInv
<1>3. PICK D, c : D = Depth(p) /\ c = stack[p][D].call
  OBVIOUS
<1>4. /\ UNCHANGED <<tables, wants, written>> /\ stack' \in [Procs -> Seq(Frame)]
      /\ outcome' \in Seq({"running", "ok", "failed", "kept"}) /\ stack[p][D].ends = "nothing"
      /\ D \in 1 .. Depth(p)
      /\ \A x \in DOMAIN outcome : x # c => outcome'[x] = outcome[x]
      /\ \A q \in Procs : \A n \in 1 .. Depth(q)' : n \in 1 .. Depth(q)
  BY <1>1, <1>3, PoppedFrames
<1>5. Typed'
  BY <1>2, <1>4 DEF Typed
<1>6. WorkFollowsUnits'
  <2>1. \A w \in DOMAIN written : \A j \in DOMAIN written[w] :
           written[w][j] \in DOMAIN outcome /\ written[w][j] # c
    BY <1>3, <1>4 DEF PInv, WrittenOk
  <2>2. \A w \in DOMAIN written : \A j \in DOMAIN written[w] :
           outcome'[written[w][j]] = outcome[written[w][j]]
    BY <1>4, <2>1
  <2>3. WorkFollowsUnits /\ durable' = durable /\ written' = written
    BY <1>2, <1>4 DEF PInv
  <2>4. QED
    BY <2>2, <2>3 DEF WorkFollowsUnits
<1>7. \A t \in DOMAIN txs' : UnitsOk(t)'
  BY <1>1, <1>2, PoppedUnits
<1>8. Kept
  BY <1>2, <1>4 DEF Kept
<1>9. \A q \in Procs : \A n \in 1 .. Depth(q)', s \in Scopes :
         Seen(q, n, s) # None => ~txs'[Seen(q, n, s)].closed
  BY <1>2, <1>4, ContextSees
<1>10. QED
  BY <1>1, <1>5, <1>6, <1>7, <1>8, <1>9, PopKeeps

(* Who sees a transaction is, or has below, the call that began it. *)
LEMMA RootGone ==
    ASSUME PInv, NEW p \in Procs, NEW D \in 1 .. Depth(p), D = Depth(p), stack[p][D].ends = "tx",
           NEW q \in Procs, NEW n \in 1 .. Depth(q), NEW s \in Scopes,
           Seen(q, n, s) = stack[p][D].tx
    PROVE  q = p /\ n = D
<1>1. PICK t : t = stack[p][D].tx
  OBVIOUS
<1>2. /\ Owns(p, D, t) /\ t \in DOMAIN txs /\ t # None /\ txs[t].by = p
      /\ Seen(p, D, txs[t].scope) = t /\ Len(Chain(p, D, txs[t].scope)) = 1
  <2>1. Owns(p, D, t)
    BY <1>1 DEF Owns
  <2>2. QED
    BY <2>1, OwnerSees, TxTypes DEF PInv
<1>3. Seen(q, n, s) = t /\ Seen(q, n, s) # None
  BY <1>1, <1>2
<1>4. txs[t].scope = s /\ q = p
  BY <1>2, <1>3, ContextSees
<1>5. PICK k \in 1 .. n : Owns(p, k, t) /\ Cut(Chain(p, k, s), Chain(q, n, s), 1)
  <2>1. 1 \in DOMAIN Chain(q, n, s)
    BY <1>3, ContextSees
  <2>2. PICK k \in 1 .. n : Owns(q, k, Seen(q, n, s)) /\ Cut(Chain(q, k, s), Chain(q, n, s), 1)
    BY <2>1, <1>3, ContextSees
  <2>3. QED
    BY <1>3, <1>4, <2>2
<1>6. k \in 1 .. D /\ n \in 1 .. D /\ D \in Nat
  <2>1. Depth(p) \in Nat
    BY FrameTypes DEF PInv
  <2>2. QED
    BY <1>4, <2>1
<1>7. PICK i \in DOMAIN Chain(p, D, s) :
         /\ Cut(Chain(p, k, s), Chain(p, D, s), i) /\ stack[p][k].call = Chain(p, D, s)[i]
  <2>1. Seen(p, D, s) = t /\ Seen(p, D, s) # None
    BY <1>2, <1>4
  <2>2. \A j \in 1 .. D : Owns(p, j, Seen(p, D, s)) => \E i \in DOMAIN Chain(p, D, s) :
           /\ Cut(Chain(p, j, s), Chain(p, D, s), i) /\ stack[p][j].call = Chain(p, D, s)[i]
    BY <2>1, ContextSees
  <2>3. QED
    BY <1>5, <1>6, <2>1, <2>2
<1>8. i = 1 /\ Len(Chain(p, D, s)) = 1 /\ stack[p][D].call = Chain(p, D, s)[1]
  <2>1. Len(Chain(p, k, s)) = 1 /\ Len(Chain(p, k, s)) = i
    BY <1>5, <1>7 DEF Cut
  <2>2. Len(Chain(p, D, s)) = 1
    BY <1>2, <1>4
  <2>3. stack[p][D].call = Chain(p, D, s)[Len(Chain(p, D, s))]
    BY <1>2, <1>4, OwnerSees
  <2>4. QED
    BY <2>1, <2>2, <2>3
<1>9. k = D
  <2>1. stack[p][k].call = stack[p][D].call
    BY <1>7, <1>8
  <2>2. k \in 1 .. Depth(p)
    BY <1>6
  <2>3. QED
    BY <2>1, <2>2 DEF PInv, FramesOk
<1>10. QED
  BY <1>4, <1>6, <1>9

(* The writes of the call that ends a transaction. *)
LEMMA RootWork ==
    ASSUME PInv, NEW p \in Procs, NEW D \in 1 .. Depth(p), stack[p][D].ends = "tx",
           NEW t, t = stack[p][D].tx, NEW c, c = stack[p][D].call
    PROVE  /\ t \in DOMAIN txs
           /\ txs[t].active => txs[t].units[1] = Work(c, 1)
           /\ \A w \in DOMAIN written : \A j \in DOMAIN written[w] : written[w][j] = c => j = 1
<1>1. Owns(p, D, t)
  BY DEF Owns
<1>2. PICK s : s = txs[t].scope
  OBVIOUS
<1>3. t \in DOMAIN txs /\ txs[t].by = p /\ Len(Chain(p, D, s)) = 1 /\ Chain(p, D, s) = Own(p, D)
  BY <1>1, <1>2, OwnerSees
<1>4. ASSUME txs[t].active PROVE txs[t].units[1] = Work(c, 1)
  <2>1. UnitsOf(t, p, s)
    BY <1>2, <1>3, <1>4 DEF PInv, UnitsOk
  <2>2. QED
    BY <1>1, <1>3, <2>1 DEF UnitsOf
<1>5. ASSUME NEW w \in DOMAIN written, NEW j \in DOMAIN written[w], written[w][j] = c
      PROVE  j = 1
  <2>1. Cut(Own(p, D), written[w], j)
    BY <1>5 DEF PInv, WrittenOk
  <2>2. QED
    BY <1>3, <2>1 DEF Cut
<1>6. QED
  BY <1>3, <1>4, <1>5

(* A call that ends its transaction makes its work durable, or undone. *)
LEMMA LeaveNewStep ==
    ASSUME PInv, NEW p \in Procs, LeaveNew(p)
    PROVE  PInv'
<1>1. PICK D, c, t : D = Depth(p) /\ c = stack[p][D].call /\ t = Top(p).tx
  OBVIOUS
<1>2. PICK r \in Results, closed \in BOOLEAN :
         /\ Leave(p, "tx", r) /\ Over(t, closed)
         /\ \/ r \in Stays /\ txs[t].active /\ durable' = durable \cup txs[t].units[1]
            \/ r = "failed" /\ durable' = durable
  BY <1>1 DEF LeaveNew, CommitNew, Stays, Results
<1>3. /\ D \in 1 .. Depth(p)
      /\ Top(p) = stack[p][D] /\ stack[p][D].ends = "tx"
      /\ UNCHANGED <<tables, wants, written>>
      /\ c \in DOMAIN outcome /\ outcome[c] = "running" /\ outcome'[c] = r
      /\ \A x \in DOMAIN outcome : x # c => outcome'[x] = outcome[x]
      /\ stack' \in [Procs -> Seq(Frame)] /\ outcome' \in Seq({"running", "ok", "failed", "kept"})
      /\ \A q \in Procs : \A n \in 1 .. Depth(q)' : n \in 1 .. Depth(q) /\ ~(q = p /\ n = D)
  BY <1>1, <1>2, PoppedFrames
<1>4. /\ t = stack[p][D].tx /\ t \in DOMAIN txs
      /\ txs[t].active => txs[t].units[1] = Work(c, 1)
      /\ \A w \in DOMAIN written : \A j \in DOMAIN written[w] : written[w][j] = c => j = 1
  BY <1>1, <1>3, RootWork
<1>5. /\ Typed /\ WorkFollowsUnits
      /\ \A w \in DOMAIN written : \A j \in DOMAIN written[w] : written[w][j] \in DOMAIN outcome
  BY DEF PInv, WrittenOk
<1>6. /\ txs' \in Seq(TxRec) /\ DOMAIN txs' = DOMAIN txs
      /\ txs'[t].scope = txs[t].scope /\ txs'[t].by = txs[t].by
      /\ ~txs'[t].active /\ txs'[t].closed = closed
      /\ \A x \in DOMAIN txs : x # t => txs'[x] = txs[x]
  BY <1>2, <1>4, <1>5, OverTypes
<1>7. Typed'
  <2>1. durable \subseteq DOMAIN written /\ Work(c, 1) \subseteq DOMAIN written
    BY <1>5 DEF Typed, Work
  <2>2. durable' \subseteq DOMAIN written'
    BY <1>2, <1>3, <1>4, <2>1
  <2>3. QED
    BY <1>3, <1>5, <1>6, <2>2 DEF Typed
<1>8. WorkFollowsUnits'
  <2>1. ASSUME NEW w \in DOMAIN written
        PROVE  w \in durable' <=> \A j \in DOMAIN written[w] : outcome'[written[w][j]] \in Stays
    <3>1. w \in durable <=> \A j \in DOMAIN written[w] : outcome[written[w][j]] \in Stays
      BY <1>5 DEF WorkFollowsUnits
    <3>2. CASE \E j \in DOMAIN written[w] : written[w][j] = c
      <4>1. 1 \in DOMAIN written[w] /\ written[w][1] = c /\ w \notin durable
        BY <1>3, <1>4, <3>1, <3>2, StaysReturned
      <4>2. \A j \in DOMAIN written[w] : j # 1 => outcome'[written[w][j]] = outcome[written[w][j]]
        BY <1>3, <1>4, <1>5
      <4>3. CASE r = "failed"
        BY <1>2, <1>3, <4>1, <4>3, StaysReturned
      <4>4. CASE r \in Stays
        <5>1. w \in durable' <=> w \in Work(c, 1)
          BY <1>2, <1>4, <4>1, <4>4, StaysReturned
        <5>2. w \in Work(c, 1) <=> \A j \in DOMAIN written[w] : j > 1 => outcome[written[w][j]] \in Stays
          BY <4>1 DEF Work
        <5>3. \A j \in DOMAIN written[w] : j = 1 \/ j > 1
          <6>1. written[w] \in Seq(Nat)
            BY <1>5 DEF Typed
          <6>2. QED
            BY <6>1
        <5>4. \A j \in DOMAIN written[w] : j > 1 => j # 1
          OBVIOUS
        <5>5. outcome'[written[w][1]] \in Stays
          BY <1>3, <4>1, <4>4
        <5>6. QED
          BY <4>2, <5>1, <5>2, <5>3, <5>4, <5>5
      <4>5. QED
        BY <1>2, <4>3, <4>4
    <3>3. CASE ~\E j \in DOMAIN written[w] : written[w][j] = c
      <4>1. \A j \in DOMAIN written[w] : outcome'[written[w][j]] = outcome[written[w][j]]
        BY <1>3, <1>5, <3>3
      <4>2. w \notin Work(c, 1)
        BY <3>3 DEF Work
      <4>3. w \in durable' <=> w \in durable
        BY <1>2, <1>4, <4>2
      <4>4. QED
        BY <3>1, <4>1, <4>3
    <3>4. QED
      BY <3>2, <3>3
  <2>2. QED
    BY <1>3, <2>1 DEF WorkFollowsUnits
<1>9. ASSUME NEW x \in DOMAIN txs'
      PROVE  UnitsOk(x)'
  <2>1. CASE x = t
    BY <1>6, <2>1 DEF UnitsOk
  <2>2. CASE x # t
    BY <1>1, <1>2, <1>6, <2>2, PoppedUnits
  <2>3. QED
    BY <2>1, <2>2
<1>10. Kept
  BY <1>3, <1>6 DEF Kept
<1>11. ASSUME NEW q \in Procs, NEW n \in 1 .. Depth(q)', NEW s \in Scopes, Seen(q, n, s) # None
       PROVE  ~txs'[Seen(q, n, s)].closed
  <2>1. n \in 1 .. Depth(q) /\ ~(q = p /\ n = D)
    BY <1>3
  <2>2. Seen(q, n, s) # t
    BY <1>1, <1>3, <1>4, <2>1, RootGone
  <2>3. Seen(q, n, s) \in DOMAIN txs /\ ~txs[Seen(q, n, s)].closed
    BY <1>11, <2>1, ContextSees
  <2>4. QED
    BY <1>6, <2>2, <2>3
<1>12. QED
  BY <1>2, <1>7, <1>8, <1>9, <1>10, <1>11, PopKeeps

(* No two frames of a goroutine are of one call. *)
LEMMA OneCall ==
    ASSUME PInv, NEW p \in Procs, NEW n \in 1 .. Depth(p), NEW k \in 1 .. Depth(p),
           stack[p][n].call = stack[p][k].call
    PROVE  n = k
BY DEF PInv, FramesOk

(* The goroutine p is about to return from the call c, whose frame D is its *)
(* last and ends a savepoint of t: the m-th unit of t, after the l-th.      *)
Closing(p, D, t, c, s, u, m, l) ==
    /\ D = Depth(p) /\ D \in 1 .. Depth(p) /\ stack[p][D].ends = "savepoint"
    /\ t = stack[p][D].tx /\ c = stack[p][D].call /\ s = txs[t].scope
    /\ u = Chain(p, D, s) /\ m = Len(u) /\ l = m - 1

(* What such a call leaves and the chain it is the end of. *)
LEMMA ClosingTypes ==
    ASSUME PInv, NEW p \in Procs, NEW D, NEW t, NEW c, NEW s, NEW u, NEW m, NEW l,
           Closing(p, D, t, c, s, u, m, l)
    PROVE  /\ D \in 1 .. Depth(p) /\ D \in Nat /\ Owns(p, D, t)
           /\ t \in DOMAIN txs /\ s \in Scopes /\ txs[t].by = p /\ txs[t].scope = s
           /\ t # None /\ Seen(p, D, s) = t /\ ~txs[t].closed
           /\ u = Chain(p, D, s) /\ u = Own(p, D) /\ u \in Seq(Nat)
           /\ m = Len(u) /\ m \in Nat /\ l \in Nat /\ m > 1 /\ l < m /\ l > 0 /\ l + 1 = m
           /\ l \in DOMAIN u /\ m \in DOMAIN u /\ l # m
           /\ stack[p][D].call = c /\ u[m] = c
           /\ c \in DOMAIN outcome /\ outcome[c] = "running"
<1>1. /\ D = Depth(p) /\ D \in 1 .. Depth(p) /\ stack[p][D].ends = "savepoint"
      /\ t = stack[p][D].tx /\ c = stack[p][D].call /\ s = txs[t].scope
      /\ u = Chain(p, D, s) /\ m = Len(u) /\ l = m - 1
  BY DEF Closing
<1>2. Owns(p, D, t) /\ Typed
  BY <1>1 DEF Owns, PInv
<1>3. /\ t \in DOMAIN txs /\ s \in Scopes /\ txs[t].by = p /\ ~txs[t].closed
      /\ Seen(p, D, s) = t /\ u = Own(p, D)
      /\ u \in Seq(Nat) /\ m \in DOMAIN u /\ m \in Nat \ {0} /\ u[m] = c /\ m # 1
  <2>1. D \in 1 .. Depth(p)
    BY <1>1
  <2>2. /\ t \in DOMAIN txs /\ txs[t].scope \in Scopes /\ txs[t].by = p /\ ~txs[t].closed
        /\ Seen(p, D, txs[t].scope) = t /\ Chain(p, D, txs[t].scope) = Own(p, D)
        /\ Chain(p, D, txs[t].scope) \in Seq(Nat)
        /\ Len(Chain(p, D, txs[t].scope)) \in DOMAIN Chain(p, D, txs[t].scope)
        /\ Len(Chain(p, D, txs[t].scope)) \in Nat \ {0}
        /\ stack[p][D].call = Chain(p, D, txs[t].scope)[Len(Chain(p, D, txs[t].scope))]
        /\ stack[p][D].ends = "tx" <=> Len(Chain(p, D, txs[t].scope)) = 1
    BY <1>2, <2>1, OwnerSees
  <2>3. QED
    BY <1>1, <2>2
<1>4. t # None
  BY <1>2, <1>3, TxTypes
<1>5. l \in Nat /\ m > 1 /\ l \in DOMAIN u /\ l # m /\ l < m /\ l > 0 /\ l + 1 = m
  <2>1. m \in Nat \ {0} /\ m # 1 /\ l = m - 1 /\ DOMAIN u = 1 .. m
    BY <1>1, <1>3
  <2>2. QED
    BY <2>1
<1>6. c \in DOMAIN outcome /\ outcome[c] = "running"
  BY <1>1 DEF PInv, FramesOk
<1>7. D \in Nat
  BY <1>1
<1>8. QED
  BY <1>1, <1>2, <1>3, <1>4, <1>5, <1>6, <1>7

(* The unit around a savepoint is that of a call that is running. *)
LEMMA OuterCall ==
    ASSUME PInv, NEW p \in Procs, NEW D, NEW t, NEW c, NEW s, NEW u, NEW m, NEW l,
           Closing(p, D, t, c, s, u, m, l)
    PROVE  /\ u[l] # c /\ outcome[u[l]] = "running"
           /\ \E n \in 1 .. Depth(p) : n # D /\ Owns(p, n, t) /\ Len(Chain(p, n, s)) = l
<1>1. /\ D \in 1 .. Depth(p) /\ D \in Nat /\ s \in Scopes /\ Seen(p, D, s) = t
      /\ u = Chain(p, D, s) /\ l \in DOMAIN u /\ m = Len(u) /\ l # m /\ stack[p][D].call = c
  BY ClosingTypes
<1>2. PICK k \in 1 .. D :
         /\ k \in 1 .. Depth(p) /\ Owns(p, k, Seen(p, D, s))
         /\ Cut(Chain(p, k, s), Chain(p, D, s), l)
         /\ stack[p][k].call = Chain(p, D, s)[l]
         /\ outcome[Chain(p, D, s)[l]] = "running"
  BY <1>1, ChainRuns
<1>3. Len(Chain(p, k, s)) = l
  BY <1>2 DEF Cut
<1>4. k # D
  BY <1>1, <1>3
<1>5. u[l] # c
  BY <1>1, <1>2, <1>4, OneCall
<1>6. QED
  BY <1>1, <1>2, <1>3, <1>4, <1>5

(* A write of the call that ends a savepoint is one of the call around it. *)
LEMMA ClosingWrites ==
    ASSUME PInv, NEW p \in Procs, NEW D, NEW t, NEW c, NEW s, NEW u, NEW m, NEW l,
           Closing(p, D, t, c, s, u, m, l),
           NEW w \in DOMAIN written, NEW j \in DOMAIN written[w], written[w][j] = c
    PROVE  j = m /\ l \in DOMAIN written[w] /\ written[w][l] = u[l]
<1>1. /\ D \in 1 .. Depth(p) /\ u = Own(p, D) /\ stack[p][D].call = c
      /\ u \in Seq(Nat) /\ m = Len(u) /\ l \in Nat /\ m \in Nat /\ l < m /\ l > 0
  BY ClosingTypes
<1>2. Cut(u, written[w], j)
  BY <1>1 DEF PInv, WrittenOk
<1>3. j = m /\ \A x \in 1 .. j : u[x] = written[w][x]
  BY <1>1, <1>2 DEF Cut
<1>4. PICK v : v = written[w]
  OBVIOUS
<1>5. v \in Seq(Nat)
  BY <1>4 DEF PInv, Typed
<1>6. m \in DOMAIN v
  BY <1>3, <1>4
<1>7. l \in 1 .. m /\ l \in DOMAIN v
  BY <1>1, <1>5, <1>6
<1>8. QED
  BY <1>3, <1>4, <1>7

(* The other owners of the transaction are those around it. *)
LEMMA OuterOwner ==
    ASSUME PInv, NEW p \in Procs, NEW D, NEW t, NEW c, NEW s, NEW u, NEW m, NEW l,
           Closing(p, D, t, c, s, u, m, l),
           NEW n \in 1 .. Depth(p), n # D, Owns(p, n, t)
    PROVE  /\ Len(Chain(p, n, s)) \in 1 .. l
           /\ stack[p][n].call = u[Len(Chain(p, n, s))]
<1>1. /\ D \in 1 .. Depth(p) /\ s \in Scopes /\ Seen(p, D, s) = t /\ t # None
      /\ u = Chain(p, D, s) /\ m = Len(u) /\ stack[p][D].call = c /\ u[m] = c
      /\ u \in Seq(Nat)
  BY ClosingTypes
<1>2. n \in 1 .. D
  BY DEF Closing
<1>3. PICK i \in DOMAIN Chain(p, D, s) : /\ Cut(Chain(p, n, s), Chain(p, D, s), i)
                                        /\ stack[p][n].call = Chain(p, D, s)[i]
  BY <1>1, <1>2, ContextSees
<1>4. i = Len(Chain(p, n, s)) /\ i \in DOMAIN u /\ stack[p][n].call = u[i]
  BY <1>1, <1>3 DEF Cut
<1>5. i # m
  BY <1>1, <1>4, OneCall
<1>6. i \in 1 .. l
  <2>1. i \in 1 .. m /\ l \in Nat /\ m \in Nat /\ l + 1 = m
    BY <1>1, <1>4, ClosingTypes
  <2>2. QED
    BY <1>5, <2>1
<1>7. QED
  BY <1>4, <1>6

(* An active transaction has a unit for every call of the chain. *)
LEMMA ClosingUnits ==
    ASSUME PInv, NEW p \in Procs, NEW D, NEW t, NEW c, NEW s, NEW u, NEW m, NEW l,
           Closing(p, D, t, c, s, u, m, l), txs[t].active
    PROVE  /\ Len(txs[t].units) = m /\ txs[t].units \in Seq(SUBSET Nat)
           /\ txs[t].units[m] = Work(c, m)
           /\ \A i \in 1 .. l : i \in DOMAIN txs[t].units
<1>1. /\ D \in 1 .. Depth(p) /\ s \in Scopes /\ Seen(p, D, s) = t /\ t # None
      /\ u = Chain(p, D, s) /\ m = Len(u) /\ stack[p][D].call = c /\ Owns(p, D, t)
      /\ t \in DOMAIN txs /\ txs[t].by = p /\ txs[t].scope = s /\ m \in Nat /\ l \in Nat
      /\ l + 1 = m
  BY ClosingTypes
<1>2. Depth(p) \in 1 .. Depth(p) /\ D = Depth(p)
  BY DEF Closing
<1>3. Len(Chain(p, Depth(p), s)) = Len(txs[t].units)
  BY <1>1, <1>2, TopChain
<1>4. txs[t].units \in Seq(SUBSET Nat)
  BY <1>1, TxTypes DEF PInv
<1>5. Len(txs[t].units) = m
  BY <1>1, <1>2, <1>3
<1>6. txs[t].units[m] = Work(c, m)
  BY <1>1 DEF PInv, UnitsOk, UnitsOf
<1>7. \A i \in 1 .. l : i \in DOMAIN txs[t].units
  BY <1>1, <1>4, <1>5
<1>8. QED
  BY <1>4, <1>5, <1>6, <1>7

(* The call c returns with r. *)
Ended(c, r) ==
    /\ written' = written /\ outcome'[c] = r
    /\ \A x \in DOMAIN outcome : x # c => outcome'[x] = outcome[x]

(* When a savepoint is released, or its ending refused, its writes are those *)
(* of the call around it.                                                    *)
LEMMA MergedWork ==
    ASSUME PInv, NEW p \in Procs, NEW D, NEW t, NEW c, NEW s, NEW u, NEW m, NEW l,
           Closing(p, D, t, c, s, u, m, l), NEW r \in Stays, Ended(c, r),
           NEW i \in 1 .. l, NEW x \in {u[i]}
    PROVE  /\ i = l => Work(x, i)' = Work(x, i) \cup Work(c, m)
           /\ i # l => Work(x, i)' = Work(x, i)
<1>0. /\ written' = written /\ outcome'[c] \in Stays
      /\ \A y \in DOMAIN outcome : y # c => outcome'[y] = outcome[y]
  BY DEF Ended
<1>1. /\ m \in Nat /\ l \in Nat /\ i \in Nat /\ l < m /\ i < m /\ l + 1 = m
      /\ outcome[c] = "running" /\ u[l] # c /\ outcome[u[l]] = "running"
  <2>1. m \in Nat /\ l \in Nat /\ l < m /\ l + 1 = m /\ outcome[c] = "running"
    BY ClosingTypes
  <2>2. u[l] # c /\ outcome[u[l]] = "running"
    BY OuterCall
  <2>3. QED
    BY <2>1, <2>2
<1>2. ASSUME NEW w \in DOMAIN written
      PROVE  /\ written[w] \in Seq(Nat)
             /\ \A j \in DOMAIN written[w] :
                   /\ j \in Nat /\ written[w][j] \in DOMAIN outcome
                   /\ written[w][j] # c => outcome'[written[w][j]] = outcome[written[w][j]]
                   /\ written[w][j] = c =>
                         j = m /\ l \in DOMAIN written[w] /\ written[w][l] = u[l]
  <2>1. written \in Seq(Seq(Nat)) /\ WrittenOk
    BY DEF PInv, Typed
  <2>2. PICK v : v = written[w]
    OBVIOUS
  <2>3. v \in Seq(Nat)
    BY <2>1, <2>2
  <2>4. \A j \in DOMAIN v : j \in Nat
    BY <2>3
  <2>5. \A j \in DOMAIN written[w] : written[w][j] \in DOMAIN outcome
    BY <2>1 DEF WrittenOk
  <2>6. \A j \in DOMAIN written[w] : written[w][j] = c =>
           j = m /\ l \in DOMAIN written[w] /\ written[w][l] = u[l]
    BY ClosingWrites
  <2>7. QED
    BY <1>0, <2>2, <2>3, <2>4, <2>5, <2>6
<1>3. ASSUME NEW w
      PROVE  w \in Work(x, i)' <=> w \in Work(x, i) \/ (i = l /\ w \in Work(c, m))
  <2>1. CASE w \notin DOMAIN written
    BY <1>0, <2>1 DEF Work
  <2>2. CASE w \in DOMAIN written /\ \A j \in DOMAIN written[w] : written[w][j] # c
    <3>1. w \notin Work(c, m)
      BY <2>2 DEF Work
    <3>2. \A j \in DOMAIN written[w] : outcome'[written[w][j]] = outcome[written[w][j]]
      BY <1>2, <2>2
    <3>3. w \in Work(x, i)' <=> w \in Work(x, i)
      BY <1>0, <3>2 DEF Work
    <3>4. QED
      BY <3>1, <3>3
  <2>3. CASE w \in DOMAIN written /\ \E j \in DOMAIN written[w] : written[w][j] = c
    <3>1. /\ m \in DOMAIN written[w] /\ written[w][m] = c
          /\ l \in DOMAIN written[w] /\ written[w][l] = u[l]
          /\ \A j \in DOMAIN written[w] : j # m =>
                outcome'[written[w][j]] = outcome[written[w][j]]
      BY <1>2, <2>3
    <3>2. w \notin Work(x, i)
      BY <1>1, <3>1, StaysReturned DEF Work
    <3>3. CASE i = l
      <4>1. x = written[w][l]
        BY <3>1, <3>3
      <4>2. w \in Work(c, m) <=> \A j \in DOMAIN written[w] : j > m => outcome[written[w][j]] \in Stays
        BY <2>3, <3>1 DEF Work
      <4>3. w \in Work(x, i)' <=>
               \A j \in DOMAIN written[w] : j > l => outcome'[written[w][j]] \in Stays
        BY <1>0, <2>3, <3>1, <3>3, <4>1 DEF Work
      <4>4. (\A j \in DOMAIN written[w] : j > l => outcome'[written[w][j]] \in Stays) <=>
               \A j \in DOMAIN written[w] : j > m => outcome[written[w][j]] \in Stays
        <5>1. ASSUME NEW j \in DOMAIN written[w]
              PROVE  /\ j > l <=> (j = m \/ j > m)
                     /\ j > m => j # m
          <6>1. j \in Nat
            BY <1>2, <2>3
          <6>2. QED
            BY <1>1, <6>1
        <5>2. outcome'[written[w][m]] \in Stays
          BY <1>0, <3>1
        <5>3. QED
          BY <3>1, <5>1, <5>2
      <4>5. QED
        BY <3>2, <3>3, <4>2, <4>3, <4>4
    <3>4. CASE i # l
      <4>1. l > i /\ l # m
        BY <1>1, <3>4
      <4>2. outcome'[written[w][l]] = "running"
        BY <1>0, <1>1, <3>1, <4>1
      <4>3. w \notin Work(x, i)'
        BY <1>0, <3>1, <4>1, <4>2, StaysReturned DEF Work
      <4>4. QED
        BY <3>2, <3>4, <4>3
    <3>5. QED
      BY <3>3, <3>4
  <2>4. QED
    BY <2>1, <2>2, <2>3
<1>4. CASE i = l
  BY <1>3, <1>4 DEF Work
<1>5. CASE i # l
  BY <1>3, <1>5 DEF Work
<1>6. QED
  BY <1>4, <1>5

(* The units us are what a call that returns with r leaves of t. *)
Left(us, r, t, c, m, l) ==
    /\ us \in Seq(SUBSET Nat) /\ Len(us) = l
    /\ \A i \in 1 .. l : us[i] = IF r \in Stays /\ i = l THEN txs[t].units[i] \cup Work(c, m)
                                  ELSE txs[t].units[i]
    /\ txs' = [txs EXCEPT ![t].units = us]

(* The units that are left are those of the owners that are left. *)
LEMMA ClosedUnits ==
    ASSUME PInv, NEW p \in Procs, NEW D, NEW t, NEW c, NEW s, NEW u, NEW m, NEW l,
           Closing(p, D, t, c, s, u, m, l), txs[t].active,
           NEW r \in Results, Leave(p, "savepoint", r),
           NEW us, Left(us, r, t, c, m, l)
    PROVE  UnitsOk(t)'
<1> us \in Seq(SUBSET Nat) /\ Len(us) = l
  BY DEF Left
<1>0. /\ D = Depth(p) /\ c = stack[p][D].call /\ Typed
      /\ t \in DOMAIN txs /\ txs[t].by = p /\ txs[t].scope = s
  <2>1. t \in DOMAIN txs /\ txs[t].by = p /\ txs[t].scope = s
    BY ClosingTypes
  <2>2. D = Depth(p) /\ c = stack[p][D].call
    BY DEF Closing
  <2>3. QED
    BY <2>1, <2>2 DEF PInv
<1>1. /\ outcome[c] = "running" /\ outcome'[c] = r /\ written' = written
      /\ \A x \in DOMAIN outcome : x # c => outcome'[x] = outcome[x]
      /\ \A n \in 1 .. Depth(p)' : n \in 1 .. Depth(p) /\ n # D /\ stack'[p][n] = stack[p][n]
      /\ \A n \in 1 .. Depth(p) : n # D => n \in 1 .. Depth(p)' /\ stack'[p][n] = stack[p][n]
  BY <1>0, PoppedFrames
<1>2. txs'[t].units = us /\ txs'[t].by = p /\ txs'[t].scope = s
  BY <1>0, UnitsChange DEF Left
<1>3. UnitsOf(t, p, s)
  BY <1>0 DEF PInv, UnitsOk
<1>4. PICK k \in 1 .. Depth(p) : k # D /\ Owns(p, k, t) /\ Len(Chain(p, k, s)) = l
  BY OuterCall
<1>5. k \in 1 .. Depth(p)' /\ Owns(p, k, t)' /\ Len(Chain(p, k, s))' = l
  BY <1>1, <1>4 DEF Owns, Chain
<1>6. ASSUME NEW n \in 1 .. Depth(p)', Owns(p, n, t)'
      PROVE  \A x \in {stack'[p][n].call}, i \in {Len(Chain(p, n, s))'} :
                i \in DOMAIN us /\ us[i] = Work(x, i)'
  <2>1. /\ n \in 1 .. Depth(p) /\ n # D /\ stack'[p][n] = stack[p][n] /\ Owns(p, n, t)
        /\ Len(Chain(p, n, s))' = Len(Chain(p, n, s))
    BY <1>1, <1>6 DEF Owns, Chain
  <2>2. PICK x, i : x = stack[p][n].call /\ i = Len(Chain(p, n, s))
    OBVIOUS
  <2>3. i \in 1 .. l /\ x = u[i]
    BY <2>1, <2>2, OuterOwner
  <2>4. txs[t].units[i] = Work(x, i)
    BY <1>3, <2>1, <2>2 DEF UnitsOf
  <2>5. i \in DOMAIN us
    BY <2>3
  <2>6. us[i] = Work(x, i)'
    <3>1. CASE r \in Stays
      <4>1. /\ i = l => Work(x, i)' = Work(x, i) \cup Work(c, m)
            /\ i # l => Work(x, i)' = Work(x, i)
        <5>1. Ended(c, r)
          BY <1>1 DEF Ended
        <5>2. i \in 1 .. l /\ x \in {u[i]}
          BY <2>3
        <5>3. QED
          BY <3>1, <5>1, <5>2, MergedWork
      <4>2. us[i] = IF i = l THEN Work(x, i) \cup Work(c, m) ELSE Work(x, i)
        BY <2>3, <2>4, <3>1 DEF Left
      <4>3. QED
        BY <4>1, <4>2
    <3>2. CASE r = "failed"
      <4>1. \A w \in DOMAIN written : \A j \in DOMAIN written[w] :
               outcome'[written[w][j]] \in Stays <=> outcome[written[w][j]] \in Stays
        BY <1>1, <3>2, StaysReturned DEF PInv, WrittenOk
      <4>2. Work(x, i)' = Work(x, i)
        BY <1>1, <4>1, WorkSame
      <4>3. QED
        BY <2>3, <2>4, <3>2, <4>2, StaysReturned DEF Left
    <3>3. QED
      BY <3>1, <3>2, StaysReturned
  <2>7. QED
    BY <2>1, <2>2, <2>5, <2>6
<1>7. UnitsOf(t, p, s)'
  BY <1>2, <1>5, <1>6 DEF UnitsOf
<1>8. QED
  BY <1>2, <1>7 DEF UnitsOk

(* A call that ends a savepoint hands its unit on, or undoes it. *)
LEMMA LeaveNestedStep ==
    ASSUME PInv, NEW p \in Procs, LeaveNested(p)
    PROVE  PInv'
<1>1. PICK D, t : D = Depth(p) /\ t = Top(p).tx
  OBVIOUS
<1>2. PICK r \in Results :
         /\ Leave(p, "savepoint", r) /\ durable' = durable
         /\ ~txs[t].active => txs' = txs
         /\ txs[t].active =>
               txs' = [txs EXCEPT ![t].units =
                  IF r \in Stays
                  THEN [SubSeq(txs[t].units, 1, Len(txs[t].units) - 1)
                           EXCEPT ![Len(SubSeq(txs[t].units, 1, Len(txs[t].units) - 1))] =
                              SubSeq(txs[t].units, 1, Len(txs[t].units) - 1)
                                 [Len(SubSeq(txs[t].units, 1, Len(txs[t].units) - 1))]
                              \cup txs[t].units[Len(txs[t].units)]]
                  ELSE SubSeq(txs[t].units, 1, Len(txs[t].units) - 1)]
  <2>1. Stays \cup {"failed"} = Results
    BY DEF Stays, Results
  <2>2. QED
    BY <1>1, <2>1 DEF LeaveNested
<1>3. PICK c : c = stack[p][D].call
  OBVIOUS
<1>4. /\ D \in 1 .. Depth(p) /\ Top(p) = stack[p][D] /\ stack[p][D].ends = "savepoint"
      /\ UNCHANGED <<tables, wants, written>>
      /\ DOMAIN outcome' = DOMAIN outcome
      /\ \A x \in DOMAIN outcome : x # c => outcome'[x] = outcome[x]
      /\ stack' \in [Procs -> Seq(Frame)] /\ outcome' \in Seq({"running", "ok", "failed", "kept"})
      /\ \A q \in Procs : \A n \in 1 .. Depth(q)' :
            n \in 1 .. Depth(q) /\ stack'[q][n] = stack[q][n]
  BY <1>1, <1>2, <1>3, PoppedFrames
<1>5. PICK s, u, m, l : s = txs[t].scope /\ u = Chain(p, D, s) /\ m = Len(u) /\ l = m - 1
  <2>1. PICK s : s = txs[t].scope
    OBVIOUS
  <2>2. PICK u : u = Chain(p, D, s)
    OBVIOUS
  <2>3. PICK m : m = Len(u)
    OBVIOUS
  <2>4. PICK l : l = m - 1
    OBVIOUS
  <2>5. QED
    BY <2>1, <2>2, <2>3, <2>4
<1>6. Closing(p, D, t, c, s, u, m, l)
  BY <1>1, <1>3, <1>4, <1>5 DEF Closing
<1>7. t \in DOMAIN txs /\ m \in Nat /\ l \in Nat /\ l + 1 = m /\ l > 0 /\ Typed
  BY <1>6, ClosingTypes DEF PInv
<1>8. ASSUME txs[t].active
      PROVE  \E us : Left(us, r, t, c, m, l)
  <2>1. PICK units : units = txs[t].units
    OBVIOUS
  <2>2. PICK outer : outer = SubSeq(units, 1, Len(units) - 1)
    OBVIOUS
  <2>3. PICK us : us = IF r \in Stays
                       THEN [outer EXCEPT ![Len(outer)] = outer[Len(outer)] \cup units[Len(units)]]
                       ELSE outer
    OBVIOUS
  <2>4. txs' = [txs EXCEPT ![t].units = us]
    BY <1>2, <1>8, <2>1, <2>2, <2>3
  <2>5. units \in Seq(SUBSET Nat) /\ Len(units) = m /\ units[m] = Work(c, m)
    BY <1>6, <1>8, <2>1, ClosingUnits
  <2>6. outer = SubSeq(units, 1, l)
    BY <1>7, <2>2, <2>5
  <2>7. outer \in Seq(SUBSET Nat) /\ Len(outer) = l /\ \A i \in 1 .. l : outer[i] = units[i]
    BY <1>7, <2>5, <2>6
  <2>8. Len(outer) = l /\ outer[l] = units[l] /\ units[Len(units)] = Work(c, m)
    BY <1>7, <2>5, <2>7
  <2>9. PICK work : work = units[l] \cup Work(c, m)
    OBVIOUS
  <2>10. work \in SUBSET Nat
    <3>1. units[l] \in SUBSET Nat
      BY <1>7, <2>5
    <3>2. units[m] \in SUBSET Nat
      BY <1>7, <2>5
    <3>3. QED
      BY <2>5, <2>9, <3>1, <3>2
  <2>11. us = IF r \in Stays THEN [outer EXCEPT ![l] = work] ELSE outer
    BY <2>3, <2>8, <2>9
  <2>12. /\ us \in Seq(SUBSET Nat) /\ Len(us) = l
         /\ \A i \in 1 .. l : us[i] = IF r \in Stays /\ i = l THEN work ELSE outer[i]
    <3>1. PICK S : S = SUBSET Nat
      OBVIOUS
    <3>2. outer \in Seq(S) /\ work \in S /\ l \in Nat /\ l > 0 /\ Len(outer) = l
      BY <1>7, <2>7, <2>10, <3>1
    <3>3. CASE r \in Stays
      BY <2>11, <3>1, <3>2, <3>3
    <3>4. CASE r \notin Stays
      BY <2>7, <2>11, <3>4
    <3>5. QED
      BY <3>3, <3>4
  <2>13. \A i \in 1 .. l : us[i] = IF r \in Stays /\ i = l THEN units[i] \cup Work(c, m) ELSE units[i]
    BY <2>7, <2>9, <2>12
  <2>14. QED
    BY <2>1, <2>4, <2>12, <2>13 DEF Left
<1>9. /\ DOMAIN txs' = DOMAIN txs /\ txs' \in Seq(TxRec)
      /\ txs'[t].active = txs[t].active
      /\ \A x \in DOMAIN txs : /\ txs'[x].scope = txs[x].scope /\ txs'[x].by = txs[x].by
                               /\ txs'[x].closed = txs[x].closed
                               /\ x # t => txs'[x] = txs[x]
  <2>1. CASE ~txs[t].active
    BY <1>2, <1>7, <2>1 DEF Typed
  <2>2. CASE txs[t].active
    <3>1. PICK us \in Seq(SUBSET Nat) : txs' = [txs EXCEPT ![t].units = us]
      BY <1>8, <2>2 DEF Left
    <3>2. QED
      BY <1>7, <3>1, UnitsChange
  <2>3. QED
    BY <2>1, <2>2
<1>10. Typed'
  BY <1>2, <1>4, <1>7, <1>9 DEF Typed
<1>11. Kept
  BY <1>4, <1>9 DEF Kept
<1>12. ASSUME NEW x \in DOMAIN txs'
       PROVE  UnitsOk(x)'
  <2>1. CASE x # t
    BY <1>1, <1>2, <1>9, <2>1, PoppedUnits
  <2>2. CASE x = t /\ ~txs[t].active
    BY <1>9, <2>2 DEF UnitsOk
  <2>3. CASE x = t /\ txs[t].active
    <3>1. PICK us : Left(us, r, t, c, m, l)
      BY <1>8, <2>3
    <3>2. txs[t].active /\ Leave(p, "savepoint", r)
      BY <1>2, <2>3
    <3>3. UnitsOk(t)'
      BY <1>6, <3>1, <3>2, ClosedUnits
    <3>4. QED
      BY <2>3, <3>3
  <2>4. QED
    BY <2>1, <2>2, <2>3
<1>13. WorkFollowsUnits'
  <2>1. ASSUME NEW w \in DOMAIN written
        PROVE  w \in durable <=> \A j \in DOMAIN written[w] : outcome'[written[w][j]] \in Stays
    <3>1. w \in durable <=> \A j \in DOMAIN written[w] : outcome[written[w][j]] \in Stays
      BY DEF PInv, WorkFollowsUnits
    <3>2. \A j \in DOMAIN written[w] : written[w][j] \in DOMAIN outcome
      BY DEF PInv, WrittenOk
    <3>3. CASE \E j \in DOMAIN written[w] : written[w][j] = c
      <4>1. /\ l \in DOMAIN written[w] /\ written[w][l] = u[l]
            /\ u[l] # c /\ outcome[u[l]] = "running"
        BY <1>6, <3>3, ClosingWrites, OuterCall
      <4>2. outcome'[written[w][l]] = outcome[written[w][l]] /\ outcome[written[w][l]] = "running"
        BY <1>4, <3>2, <4>1
      <4>3. QED
        BY <3>1, <4>1, <4>2, StaysReturned
    <3>4. CASE ~\E j \in DOMAIN written[w] : written[w][j] = c
      BY <1>4, <3>1, <3>2, <3>4
    <3>5. QED
      BY <3>3, <3>4
  <2>2. QED
    BY <1>2, <1>4, <2>1 DEF WorkFollowsUnits
<1>14. ASSUME NEW q \in Procs, NEW n \in 1 .. Depth(q)', NEW z \in Scopes, Seen(q, n, z) # None
       PROVE  ~txs'[Seen(q, n, z)].closed
  <2>1. n \in 1 .. Depth(q)
    BY <1>4
  <2>2. Seen(q, n, z) \in DOMAIN txs /\ ~txs[Seen(q, n, z)].closed
    BY <1>14, <2>1, ContextSees
  <2>3. QED
    BY <1>9, <2>2
<1>15. QED
  BY <1>2, <1>10, <1>11, <1>12, <1>13, <1>14, PopKeeps
-----------------------------------------------------------------------------
(* The theorems.                                                            *)

(* The invariant holds when the program starts. *)
LEMMA PInvInit ==
    ASSUME Init
    PROVE  PInv
<1>1. /\ tables = << [s \in Scopes |-> None] >> /\ txs = <<>>
      /\ stack = [p \in Procs |-> <<>>] /\ wants = [p \in Procs |-> Idle]
      /\ durable = {} /\ written = <<>> /\ outcome = <<>>
  BY DEF Init
<1>2. [s \in Scopes |-> None] \in [Scopes -> Nat]
  BY DEF None
<1>3. tables \in Seq([Scopes -> Nat]) /\ 1 \in DOMAIN tables /\ tables[1] = [s \in Scopes |-> None]
  <2>1. PICK none : none = [s \in Scopes |-> None]
    OBVIOUS
  <2>2. QED
    BY <1>1, <1>2, <2>1
<1>4. wants \in [Procs -> Want]
  BY <1>1 DEF Want, Idle, None
<1>5. stack \in [Procs -> Seq(Frame)] /\ \A p \in Procs : Depth(p) = 0
  BY <1>1 DEF Depth
<1>6. Typed
  BY <1>1, <1>3, <1>4, <1>5 DEF Typed
<1>7. FramesOk /\ \A p \in Procs : \A n \in 1 .. Depth(p) : ContextOk(p, n) /\ OwnerOk(p, n)
  BY <1>5 DEF FramesOk
<1>8. WrittenOk /\ WorkFollowsUnits
  BY <1>1 DEF WrittenOk, WorkFollowsUnits
<1>9. WaitsOk
  BY <1>1 DEF WaitsOk, Running
<1>10. \A t \in DOMAIN txs : UnitsOk(t)
  BY <1>1
<1>11. QED
  BY <1>6, <1>7, <1>8, <1>9, <1>10 DEF PInv

(* Every step keeps the invariant. *)
LEMMA PInvNext ==
    ASSUME PInv, [Next]_vars
    PROVE  PInv'
<1>1. ASSUME NEW p \in Procs, Step(p)
      PROVE  PInv'
  <2>1. CASE Begin(p)
    BY <2>1, BeginStep
  <2>2. CASE WriteAlone(p)
    BY <2>2, WriteAloneStep
  <2>3. CASE LeaveJoined(p)
    BY <2>3, LeaveJoinedStep
  <2>4. CASE LeaveNested(p)
    BY <2>4, LeaveNestedStep
  <2>5. CASE LeaveNew(p)
    BY <2>5, LeaveNewStep
  <2>6. ASSUME NEW s \in Scopes, Write(p, s)
        PROVE  PInv'
    BY <2>6, WriteStep
  <2>7. ASSUME NEW s \in Scopes, NEW mode \in Modes, Join(p, s, mode)
        PROVE  PInv'
    BY <2>7, JoinStep
  <2>8. ASSUME NEW s \in Scopes, NEW mode \in Modes, Suspend(p, s, mode)
        PROVE  PInv'
    BY <2>8, SuspendStep
  <2>9. ASSUME NEW s \in Scopes, NEW mode \in Modes, Nest(p, s, mode)
        PROVE  PInv'
    BY <2>9, NestStep
  <2>10. ASSUME NEW s \in Scopes, NEW mode \in Modes, RunNew(p, s, mode)
         PROVE  PInv'
    BY <2>10, RunNewStep
  <2>11. QED
    BY <1>1, <2>1, <2>2, <2>3, <2>4, <2>5, <2>6, <2>7, <2>8, <2>9, <2>10 DEF Step
<1>2. ASSUME NEW t \in DOMAIN txs, CtxDone(t)
      PROVE  PInv'
  BY <1>2, CtxDoneStep
<1>3. CASE Terminated
  BY <1>3, StutterStep DEF Terminated
<1>4. CASE UNCHANGED vars
  BY <1>4, StutterStep
<1>5. QED
  BY <1>1, <1>2, <1>3, <1>4 DEF Next

(* Frames, chains, units and writes agree in every state that the calls of  *)
(* TransactionWithOptions reach (db/tx.go:12-134).                          *)
THEOREM Agreement == Spec => []PInv
<1>1. Init => PInv
  BY PInvInit
<1>2. PInv /\ [Next]_vars => PInv'
  BY PInvNext
<1>3. QED
  BY <1>1, <1>2, PTL DEF Spec

(* A write is durable exactly when every call it belongs to has succeeded   *)
(* or failed only by the answer to the statement that was to end it,        *)
(* whatever the pools, the modes, the depth and what the databases refuse   *)
(* (db/tx.go:15-28, 68, 162-191, 279-288).                                  *)
THEOREM Durability == Spec => []WorkFollowsUnits
<1>1. PInv => WorkFollowsUnits
  BY DEF PInv
<1>2. QED
  BY <1>1, Agreement, PTL

(* Who waits for a connection while holding one of the pool has asked to    *)
(* leave the transaction (db/tx.go:81-115, db/db.go:403-411).               *)
THEOREM Waiting == Spec => []WaitsOnlyWhenSuspended
<1>1. PInv => WaitsOnlyWhenSuspended
  BY DEF PInv, WaitsOk, WaitsOnlyWhenSuspended
<1>2. QED
  BY <1>1, Agreement, PTL

(* Outside all calls a goroutine holds no connection (db/tx.go:117-134). *)
THEOREM Returning == Spec => []ReturnedHoldsNothing
<1>1. ASSUME PInv, NEW p \in Procs, stack[p] = <<>>, NEW t \in DOMAIN txs, txs[t].by = p
      PROVE  ~txs[t].active
  <2>1. SUFFICES ASSUME txs[t].active PROVE FALSE
    OBVIOUS
  <2>2. UnitsOf(t, p, txs[t].scope)
    BY <1>1, <2>1 DEF PInv, UnitsOk
  <2>3. PICK n \in 1 .. Depth(p) : TRUE
    BY <2>2 DEF UnitsOf
  <2>4. Depth(p) = 0
    BY <1>1 DEF Depth
  <2>5. QED
    BY <2>3, <2>4
<1>2. PInv => ReturnedHoldsNothing
  BY <1>1 DEF ReturnedHoldsNothing
<1>3. QED
  BY <1>2, Agreement, PTL
=============================================================================

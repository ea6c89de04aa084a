------------------------------- MODULE PoolProofs -------------------------------
(***************************************************************************)
(* Proofs about Pool, for any configurations, names and bounds.            *)
(*                                                                         *)
(* IInv says that every pool of a handle is of the handle's scope and      *)
(* schema, that handles of one scope have the same pools, that a handle is *)
(* shared exactly when the program need not close it, and that a DB under  *)
(* construction has a scope above those of all handles: so what a          *)
(* constructor opened is nobody else's.  On it rest the three properties   *)
(* of who owns which pool, which are inductive together.  That nodes are   *)
(* picked by their weights is arithmetic, after UpTo, a fold, is shown to  *)
(* be a sum.  CInv, of the calls that run, is in the last part.            *)
(***************************************************************************)
EXTENDS Pool, TLAPS, SequenceTheorems, FiniteSetTheorems

(* A route view keeps scope, schema, pools and switch (db.go:282-294). *)
LEMMA RouteView ==
    ASSUME NEW d \in Handle, NEW route \in Routes
    PROVE  LET v == routeView(d, route) IN
           /\ v \in Handle /\ v.scope = d.scope /\ v.schema = d.schema
           /\ v.masters = d.masters /\ v.slaves = d.slaves
           /\ v.driver = d.driver /\ v.switch = d.switch
           /\ v.shared = (d.shared \/ d.schema = "")
  BY DEF routeView, Handle

(* A schema view starts with no pools and a scope of its own. *)
LEMMA SchemaView ==
    ASSUME NEW d \in Handle, NEW name \in Names, pools \in Seq(Pool)
    PROVE  LET v == schemaView(d, name) IN
           /\ v \in Handle /\ v.scope = Len(pools) + 1 /\ v.schema = name
           /\ v.masters = <<>> /\ v.slaves = <<>>
           /\ v.driver = d.driver /\ v.switch = d.switch
           /\ v.shared = FALSE
<1> DEFINE v == schemaView(d, name)
<1>1. Len(pools) + 1 \in Nat
  OBVIOUS
<1>2. <<>> \in Seq(Node)
  OBVIOUS
<1>3. /\ v.scope = Len(pools) + 1 /\ v.schema = name
      /\ v.masters = <<>> /\ v.slaves = <<>>
      /\ v.driver = d.driver /\ v.switch = d.switch /\ v.shared = FALSE
  BY DEF schemaView, Handle
<1>4. v \in Handle
  BY <1>1, <1>2 DEF schemaView, Handle
<1>5. QED
  BY <1>3, <1>4

(* A view of a driver without schema statements keeps scope and pools. *)
LEMMA NamedView ==
    ASSUME NEW d \in Handle, NEW name \in Names
    PROVE  LET v == [d EXCEPT !.schema = name, !.shared = TRUE] IN
           /\ v \in Handle /\ v.scope = d.scope /\ v.schema = name
           /\ v.masters = d.masters /\ v.slaves = d.slaves
           /\ v.driver = d.driver /\ v.switch = d.switch
           /\ v.shared = TRUE
  BY DEF Handle

(* One more node is one more pool. *)
LEMMA PoolsOfAppend ==
    ASSUME NEW nodes \in Seq(Node), NEW node \in Node
    PROVE  /\ Append(nodes, node) \in Seq(Node)
           /\ PoolsOf(Append(nodes, node)) = PoolsOf(nodes) \cup {node.pool}
<1> DEFINE longer == Append(nodes, node)
<1>1. /\ longer \in Seq(Node) /\ DOMAIN longer = DOMAIN nodes \cup {Len(nodes) + 1}
      /\ longer[Len(nodes) + 1] = node /\ \A i \in DOMAIN nodes : longer[i] = nodes[i]
  OBVIOUS
<1> HIDE DEF longer
<1>2. PoolsOf(longer) = PoolsOf(nodes) \cup {node.pool}
  BY <1>1 DEF PoolsOf
<1>3. QED
  BY <1>1, <1>2 DEF longer

(* A node joins the masters or the slaves of a DB. *)
LEMMA WithNode ==
    ASSUME NEW d \in Handle, NEW role, NEW node \in Node
    PROVE  LET v == withNode(d, role, node) IN
           /\ v \in Handle /\ v.scope = d.scope /\ v.schema = d.schema
           /\ Owned(v) = Owned(d) \cup {node.pool}
           /\ v.driver = d.driver /\ v.switch = d.switch /\ v.shared = d.shared
<1>1. CASE role = "slave"
  <2> DEFINE v == [d EXCEPT !.slaves = Append(@, node)]
  <2>0. d.masters \in Seq(Node) /\ d.slaves \in Seq(Node)
    BY DEF Handle
  <2>1. v \in Handle /\ v.masters = d.masters /\ v.slaves = Append(d.slaves, node)
    BY <2>0, PoolsOfAppend DEF Handle
  <2>2. PoolsOf(v.slaves) = PoolsOf(d.slaves) \cup {node.pool}
    BY <2>1, <2>0, PoolsOfAppend
  <2>3. QED
    BY <1>1, <2>1, <2>2 DEF withNode, Owned, Handle
<1>2. CASE role # "slave"
  <2> DEFINE v == [d EXCEPT !.masters = Append(@, node)]
  <2>0. d.masters \in Seq(Node) /\ d.slaves \in Seq(Node)
    BY DEF Handle
  <2>1. v \in Handle /\ v.slaves = d.slaves /\ v.masters = Append(d.masters, node)
    BY <2>0, PoolsOfAppend DEF Handle
  <2>2. PoolsOf(v.masters) = PoolsOf(d.masters) \cup {node.pool}
    BY <2>1, <2>0, PoolsOfAppend
  <2>3. QED
    BY <1>2, <2>1, <2>2 DEF withNode, Owned, Handle
<1>3. QED
  BY <1>1, <1>2

(* ClosePools keeps scopes and schemas, and closes exactly the given pools. *)
LEMMA ClosedPools ==
    ASSUME pools \in Seq(Pool), NEW ps
    PROVE  LET closedPools == ClosePools(ps) IN
           /\ closedPools \in Seq(Pool) /\ Len(closedPools) = Len(pools)
           /\ \A p \in DOMAIN pools :
                 /\ closedPools[p].scope = pools[p].scope
                 /\ closedPools[p].schema = pools[p].schema
                 /\ closedPools[p].open = (pools[p].open /\ p \notin ps)
<1> DEFINE closedPools == ClosePools(ps)
<1>1. DOMAIN closedPools = 1 .. Len(pools)
  BY DEF ClosePools
<1>2. \A p \in DOMAIN pools :
        /\ closedPools[p] \in Pool
        /\ closedPools[p].scope = pools[p].scope
        /\ closedPools[p].schema = pools[p].schema
        /\ closedPools[p].open = (pools[p].open /\ p \notin ps)
  <2> SUFFICES ASSUME NEW p \in DOMAIN pools
               PROVE  /\ closedPools[p] \in Pool
                      /\ closedPools[p].scope = pools[p].scope
                      /\ closedPools[p].schema = pools[p].schema
                      /\ closedPools[p].open = (pools[p].open /\ p \notin ps)
    OBVIOUS
  <2>1. pools[p] \in Pool
    OBVIOUS
  <2>2. closedPools[p] = [pools[p] EXCEPT !.open = pools[p].open /\ p \notin ps]
    BY DEF ClosePools
  <2>3. QED
    BY <2>1, <2>2 DEF Pool
<1>3. closedPools \in Seq(Pool) /\ Len(closedPools) = Len(pools)
  <2>1. closedPools \in [1 .. Len(pools) -> Pool]
    BY <1>1, <1>2 DEF ClosePools
  <2>2. QED
    BY <1>1, <2>1, SeqDef
<1>4. QED
  BY <1>2, <1>3
-----------------------------------------------------------------------------
(* The inductive invariant.                                                 *)

(* The pools of a DB are those of its scope, and have its schema. *)
OwnsItsOwn(d) ==
    \A p \in Owned(d) :
        /\ p \in DOMAIN pools
        /\ pools[p].scope = d.scope /\ pools[p].schema = SchemaSQL(d, d.schema)

HandlesOk ==
    \A i \in DOMAIN handles :
        /\ OwnsItsOwn(handles[i])
        /\ handles[i].scope <= Len(pools)
        /\ handles[i].switch \in DOMAIN dryRun
        /\ handles[i].shared <=> ~MustClose(i)
        /\ handles[i].schema # "" =>
              (handles[i].shared \/ SchemaSQL(handles[i], handles[i].schema) # "")

(* The views of one scope have the same pools. *)
ScopeIsPools ==
    \A i, j \in DOMAIN handles :
        handles[i].scope = handles[j].scope => Owned(handles[i]) = Owned(handles[j])

(* A DB under construction has open pools and a scope of its own. *)
OpeningOk ==
    Building =>
        LET d == opening[1].made IN
        /\ call = NoCall
        /\ OwnsItsOwn(d)
        /\ \A p \in Owned(d) : pools[p].open
        /\ ~d.shared
        /\ \A i \in DOMAIN handles : handles[i].scope < d.scope
        /\ d.scope <= Len(pools) + 1
        /\ Owned(d) # {} => d.scope <= Len(pools)
        /\ d.switch \in 1 .. Len(dryRun) + 1
        /\ d.schema # "" => SchemaSQL(d, d.schema) # ""

Structure ==
    /\ pools \in Seq(Pool) /\ handles \in Seq(Handle) /\ dryRun \in Seq(BOOLEAN)
    /\ opening = <<>> \/ \E o \in Opening : opening = <<o>> /\ o.at <= Len(o.todo)
    /\ closed \subseteq DOMAIN handles

IInv == Structure /\ HandlesOk /\ ScopeIsPools /\ OpeningOk

(* Pools keep their scope and schema. *)
PoolsKept ==
    /\ pools' \in Seq(Pool) /\ Len(pools) <= Len(pools')
    /\ \A p \in DOMAIN pools :
          pools'[p].scope = pools[p].scope /\ pools'[p].schema = pools[p].schema

(* The types that Structure gives, in the form the proofs use. *)
LEMMA Types ==
    ASSUME IInv
    PROVE  /\ handles \in Seq(Handle) /\ pools \in Seq(Pool) /\ dryRun \in Seq(BOOLEAN)
           /\ \A i \in DOMAIN handles : handles[i] \in Handle
           /\ \A i \in DOMAIN handles : handles[i].scope \in Nat
<1>1. handles \in Seq(Handle) /\ pools \in Seq(Pool) /\ dryRun \in Seq(BOOLEAN)
  BY DEF IInv, Structure
<1>2. \A i \in DOMAIN handles : handles[i] \in Handle
  BY <1>1
<1>3. QED
  BY <1>1, <1>2 DEF Handle

(* While handles stay and pools keep what they are, so do these parts of IInv. *)
LEMMA SameHandles ==
    ASSUME IInv, handles' = handles, PoolsKept, DOMAIN dryRun \subseteq DOMAIN dryRun'
    PROVE  HandlesOk' /\ ScopeIsPools'
<1>1. ScopeIsPools'
  BY DEF IInv, ScopeIsPools
<1>2. ASSUME NEW i \in DOMAIN handles
      PROVE  /\ OwnsItsOwn(handles[i])' /\ handles[i].scope <= Len(pools')
             /\ MustClose(i)' <=> MustClose(i)
  <2>1. OwnsItsOwn(handles[i]) /\ handles[i].scope <= Len(pools)
    BY <1>2 DEF IInv, HandlesOk
  <2>2. DOMAIN pools \subseteq DOMAIN pools'
    BY Types DEF PoolsKept
  <2>3. OwnsItsOwn(handles[i])'
    BY <2>1, <2>2 DEF OwnsItsOwn, PoolsKept
  <2>4. handles[i].scope <= Len(pools')
    <3>1. Len(pools) \in Nat /\ Len(pools') \in Nat /\ Len(pools) <= Len(pools')
      BY Types DEF PoolsKept
    <3>2. QED
      BY <2>1, <3>1, Types
  <2>5. MustClose(i)' <=> MustClose(i)
    BY DEF MustClose, FromOpen
  <2>6. QED
    BY <2>3, <2>4, <2>5
<1>3. HandlesOk'
  BY <1>2 DEF IInv, HandlesOk
<1>4. QED
  BY <1>1, <1>3

(* What a handle needs to join those that exist. *)
Joins(d) ==
    /\ OwnsItsOwn(d)
    /\ d.scope <= Len(pools)
    /\ d.shared <=> (/\ SchemaSQL(d, d.schema) = ""
                     /\ \E i \in DOMAIN handles : handles[i].scope = d.scope)
    /\ d.schema # "" => (d.shared \/ SchemaSQL(d, d.schema) # "")
    /\ \A i \in DOMAIN handles :
          handles[i].scope = d.scope => Owned(handles[i]) = Owned(d)

(* What Append does to a sequence. *)
LEMMA Appended ==
    ASSUME NEW S, NEW h \in Seq(S), NEW x \in S
    PROVE  LET longer == Append(h, x)
               n      == Len(h) + 1
           IN /\ longer \in Seq(S) /\ DOMAIN longer = DOMAIN h \cup {n} /\ longer[n] = x
              /\ \A i \in DOMAIN h : longer[i] = h[i]
              /\ DOMAIN h = 1 .. n - 1 /\ n \in Nat \ {0}
  OBVIOUS

(* A handle joins. *)
LEMMA OneMoreHandle ==
    ASSUME IInv, NEW d \in Handle, handles' = Append(handles, d), pools' = pools,
           DOMAIN dryRun \subseteq DOMAIN dryRun', Joins(d), d.switch \in DOMAIN dryRun'
    PROVE  HandlesOk' /\ ScopeIsPools'
<1>0. PICK n \in Nat : n = Len(handles) + 1
  BY Types
<1>1. /\ DOMAIN handles' = DOMAIN handles \cup {n} /\ handles'[n] = d
      /\ \A i \in DOMAIN handles : handles'[i] = handles[i]
      /\ DOMAIN handles = 1 .. n - 1 /\ n \in Nat \ {0}
  <2>1. handles \in Seq(Handle)
    BY Types
  <2>2. QED
    BY <1>0, <2>1, Appended
<1>2. ScopeIsPools'
  <2>1. ScopeIsPools
    BY DEF IInv
  <2>2. \A i, j \in DOMAIN handles :
           handles'[i].scope = handles'[j].scope => Owned(handles'[i]) = Owned(handles'[j])
    BY <1>1, <2>1 DEF ScopeIsPools
  <2>3. \A i \in DOMAIN handles :
           handles'[i].scope = handles'[n].scope => Owned(handles'[i]) = Owned(handles'[n])
    BY <1>1 DEF Joins
  <2>4. QED
    BY <1>1, <2>2, <2>3 DEF ScopeIsPools
<1>3. ASSUME NEW i \in DOMAIN handles
      PROVE  (MustClose(i)' <=> MustClose(i)) /\ OwnsItsOwn(handles[i])'
  <2>1. handles'[i] = handles[i] /\ \A j \in 1 .. i - 1 : handles'[j] = handles[j]
    BY <1>1
  <2>a. FromOpen(i)' <=> FromOpen(i)
    BY <2>1 DEF FromOpen
  <2>2. MustClose(i)' <=> MustClose(i)
    BY <2>1, <2>a DEF MustClose
  <2>3. OwnsItsOwn(handles[i])'
    <3>1. OwnsItsOwn(handles[i])
      BY DEF IInv, HandlesOk
    <3>2. QED
      BY <1>1, <3>1 DEF OwnsItsOwn
  <2>4. QED
    BY <2>2, <2>3
<1>4. MustClose(n)' <=> ~d.shared
  <2>1. FromOpen(n)' <=> \A i \in DOMAIN handles : handles[i].scope # d.scope
    BY <1>1 DEF FromOpen
  <2>2. d.shared \in BOOLEAN
    BY DEF Handle
  <2>3. QED
    BY <1>1, <2>1, <2>2 DEF MustClose, Joins
<1>5. /\ OwnsItsOwn(d)' /\ d.scope <= Len(pools)
      /\ d.schema # "" => (d.shared \/ SchemaSQL(d, d.schema) # "")
  BY DEF OwnsItsOwn, Joins
<1>6. HandlesOk'
  <2>1. HandlesOk
    BY DEF IInv
  <2>2. \A i \in DOMAIN handles :
        /\ OwnsItsOwn(handles[i])' /\ handles'[i].scope <= Len(pools)
        /\ handles'[i].switch \in DOMAIN dryRun'
        /\ handles'[i].shared <=> ~MustClose(i)'
        /\ handles'[i].schema # "" =>
              (handles'[i].shared \/ SchemaSQL(handles'[i], handles'[i].schema) # "")
    BY <1>1, <1>3, <2>1 DEF HandlesOk
  <2>3. OwnsItsOwn(handles[n])'
    BY <1>1, <1>5 DEF OwnsItsOwn
  <2>4. /\ handles'[n].scope <= Len(pools) /\ handles'[n].switch \in DOMAIN dryRun'
        /\ handles'[n].shared <=> ~MustClose(n)'
        /\ handles'[n].schema # "" =>
              (handles'[n].shared \/ SchemaSQL(handles'[n], handles'[n].schema) # "")
    <3>1. d.shared \in BOOLEAN
      BY DEF Handle
    <3>2. QED
      BY <1>1, <1>4, <1>5, <3>1
  <2>5. QED
    BY <1>1, <2>2, <2>3, <2>4 DEF HandlesOk
<1>7. QED
  BY <1>2, <1>6

(* A step after which no DB is under construction keeps the invariant. *)
LEMMA NoDB ==
    ASSUME IInv, handles' = handles, PoolsKept, DOMAIN dryRun \subseteq DOMAIN dryRun',
           dryRun' \in Seq(BOOLEAN), opening' = <<>>, closed' \subseteq DOMAIN handles
    PROVE  IInv'
<1>1. HandlesOk' /\ ScopeIsPools'
  BY SameHandles
<1>2. OpeningOk'
  BY DEF OpeningOk, Building
<1>3. Structure'
  BY Types DEF Structure, PoolsKept
<1>4. QED
  BY <1>1, <1>2, <1>3 DEF IInv

(* So does a step that leaves pools, handles and the constructor alone. *)
LEMMA Quiet ==
    ASSUME IInv, UNCHANGED <<pools, handles, opening, closed>>,
           DOMAIN dryRun' = DOMAIN dryRun, dryRun' \in Seq(BOOLEAN), Building => call' = call
    PROVE  IInv'
<1>1. PoolsKept
  BY Types DEF PoolsKept
<1>2. HandlesOk' /\ ScopeIsPools'
  BY <1>1, SameHandles
<1>3. OpeningOk'
  <2>1. Len(dryRun') = Len(dryRun)
    BY Types
  <2>2. OpeningOk
    BY DEF IInv
  <2>3. QED
    BY <2>1, <2>2 DEF OpeningOk, Building, OwnsItsOwn
<1>4. Structure'
  BY DEF IInv, Structure
<1>5. QED
  BY <1>2, <1>3, <1>4 DEF IInv

(* What IInv says of the DB under construction. *)
LEMMA UnderConstruction ==
    ASSUME IInv, Building
    PROVE  /\ opening = << opening[1] >> /\ opening[1] \in Opening
           /\ opening[1].made \in Handle /\ opening[1].todo \in Seq(Config)
           /\ opening[1].at \in Nat /\ opening[1].at <= Len(opening[1].todo)
           /\ OwnsItsOwn(opening[1].made)
           /\ \A p \in Owned(opening[1].made) : pools[p].open
           /\ \A i \in DOMAIN handles : handles[i].scope < opening[1].made.scope
<1>1. PICK o \in Opening : opening = <<o>> /\ o.at <= Len(o.todo)
  BY DEF IInv, Structure, Building
<1>2. opening[1] = o
  BY <1>1
<1>3. o.made \in Handle /\ o.todo \in Seq(Config) /\ o.at \in Nat
  BY DEF Opening
<1>4. QED
  BY <1>1, <1>2, <1>3 DEF IInv, OpeningOk

(* Closing pools keeps the rest of them. *)
LEMMA ClosingKeeps ==
    ASSUME IInv, NEW ps, pools' = ClosePools(ps)
    PROVE  PoolsKept /\ Len(pools') = Len(pools)
<1>1. pools \in Seq(Pool)
  BY Types
<1>2. QED
  BY <1>1, ClosedPools DEF PoolsKept
-----------------------------------------------------------------------------
(* The steps that make handles and pools.                                   *)

(* A node that does not open. *)
LEMMA openNodeFailsStep ==
    ASSUME IInv, openNodeFails PROVE IInv'
<1>1. PoolsKept
  BY ClosingKeeps DEF openNodeFails
<1>2. QED
  BY <1>1, NoDB, Types DEF openNodeFails, IInv, Structure

(* Close. *)
LEMMA CloseStep ==
    ASSUME IInv, NEW i \in DOMAIN handles, Close(i) PROVE IInv'
<1>1. PoolsKept
  BY ClosingKeeps, Types DEF Close, PoolsKept
<1>2. opening' = <<>> /\ handles' = handles /\ dryRun' = dryRun
  BY DEF Close, Idle, Building
<1>3. closed' \subseteq DOMAIN handles
  BY DEF Close, IInv, Structure
<1>4. QED
  BY <1>1, <1>2, <1>3, NoDB, Types

(* A route view. *)
LEMMA WithRouteStep ==
    ASSUME IInv, NEW i \in DOMAIN handles, NEW route \in Routes, WithRoute(i, route)
    PROVE  IInv'
<1> DEFINE d == handles[i]
           v == routeView(d, route)
<1>1. d \in Handle /\ handles \in Seq(Handle)
  BY Types
<1>2. /\ v \in Handle /\ v.scope = d.scope /\ v.schema = d.schema
      /\ v.masters = d.masters /\ v.slaves = d.slaves
      /\ v.driver = d.driver /\ v.switch = d.switch
      /\ v.shared = (d.shared \/ d.schema = "")
  BY <1>1, RouteView
<1>3. /\ OwnsItsOwn(d) /\ d.scope <= Len(pools) /\ d.switch \in DOMAIN dryRun
      /\ d.shared <=> ~MustClose(i)
      /\ d.schema # "" => (d.shared \/ SchemaSQL(d, d.schema) # "")
      /\ \A j \in DOMAIN handles : handles[j].scope = d.scope => Owned(handles[j]) = Owned(d)
  BY DEF IInv, HandlesOk, ScopeIsPools
<1>4. /\ handles' = Append(handles, v) /\ pools' = pools /\ dryRun' = dryRun
      /\ opening' = opening /\ closed' = closed /\ opening = <<>>
  BY DEF WithRoute, Idle, Building
<1>5. Owned(v) = Owned(d) /\ SchemaSQL(v, v.schema) = SchemaSQL(d, d.schema)
  BY <1>2 DEF Owned, SchemaSQL
<1> HIDE DEF v
<1>6. Joins(v)
  <2>1. OwnsItsOwn(v)
    BY <1>2, <1>3, <1>5 DEF OwnsItsOwn
  <2>2. d.shared \in BOOLEAN
    BY <1>1 DEF Handle
  <2>3. d.schema = "" => SchemaSQL(d, d.schema) = ""
    BY DEF SchemaSQL
  <2>4. MustClose(i) <=> FromOpen(i) \/ SchemaSQL(d, d.schema) # ""
    BY DEF MustClose
  <2>5. v.shared <=> (/\ SchemaSQL(v, v.schema) = ""
                     /\ \E j \in DOMAIN handles : handles[j].scope = v.scope)
    BY <1>2, <1>3, <1>5, <2>2, <2>3, <2>4
  <2>6. v.schema # "" => (v.shared \/ SchemaSQL(v, v.schema) # "")
    BY <1>2, <1>3, <1>5
  <2>7. QED
    BY <1>2, <1>3, <1>5, <2>1, <2>5, <2>6 DEF Joins
<1>7. HandlesOk' /\ ScopeIsPools'
  BY <1>2, <1>3, <1>4, <1>6, OneMoreHandle
<1>8. handles' \in Seq(Handle) /\ DOMAIN handles \subseteq DOMAIN handles'
  <2>1. v \in Handle
    BY <1>2
  <2>2. Append(handles, v) \in Seq(Handle)
        /\ DOMAIN Append(handles, v) = DOMAIN handles \cup {Len(handles) + 1}
    BY <1>1, <2>1, Appended
  <2>3. QED
    BY <2>2, <1>4
<1>9. Structure' /\ OpeningOk'
  BY <1>4, <1>8 DEF IInv, Structure, OpeningOk, Building
<1>10. QED
  BY <1>7, <1>9 DEF IInv

(* A constructor starts with a DB that has no pools and a scope of its own. *)
Unopened(d) ==
    /\ d.masters = <<>> /\ d.slaves = <<>> /\ d.scope = Len(pools) + 1 /\ ~d.shared
    /\ d.switch \in 1 .. Len(dryRun) + 1
    /\ d.schema # "" => SchemaSQL(d, d.schema) # ""

Begun(d, todo) ==
    /\ Idle
    /\ opening' = << [todo |-> todo, at |-> 0, made |-> d] >>
    /\ UNCHANGED <<pools, handles, dryRun, call, closed>>

(* A constructor starts. *)
LEMMA Begins ==
    ASSUME IInv, NEW d \in Handle, NEW todo \in Seq(Config), Unopened(d), Begun(d, todo)
    PROVE  IInv'
<1> DEFINE o == [todo |-> todo, at |-> 0, made |-> d]
<1>1. o \in Opening /\ o.at <= Len(o.todo) /\ o.made = d
  BY DEF Opening
<1>2. opening' = <<o>> /\ opening'[1] = o
  BY DEF Begun
<1> HIDE DEF o
<1>3. Owned(d) = {}
  <2>1. PoolsOf(<<>>) = {}
    BY DEF PoolsOf
  <2>2. QED
    BY <2>1 DEF Owned, Unopened
<1>4. Len(pools) \in Nat /\ \A i \in DOMAIN handles : handles[i].scope < Len(pools) + 1
  <2>1. Len(pools) \in Nat
    BY Types
  <2>2. \A i \in DOMAIN handles : handles[i].scope <= Len(pools)
    BY DEF IInv, HandlesOk
  <2>3. QED
    BY <2>1, <2>2, Types
<1>5. OpeningOk'
  <2>1. /\ pools' = pools /\ handles' = handles /\ dryRun' = dryRun /\ call' = NoCall
        /\ opening'[1].made = d
    BY <1>1, <1>2 DEF Begun, Idle
  <2>2. OwnsItsOwn(d)' /\ \A p \in Owned(d) : pools'[p].open
    BY <1>3 DEF OwnsItsOwn
  <2>3. /\ ~d.shared /\ \A i \in DOMAIN handles : handles[i].scope < d.scope
        /\ d.scope <= Len(pools) + 1
        /\ d.switch \in 1 .. Len(dryRun) + 1
        /\ d.schema # "" => SchemaSQL(d, d.schema) # ""
    <3>1. /\ ~d.shared /\ d.scope = Len(pools) + 1 /\ d.switch \in 1 .. Len(dryRun) + 1
          /\ d.schema # "" => SchemaSQL(d, d.schema) # ""
      BY DEF Unopened
    <3>2. d.scope <= Len(pools) + 1 /\ \A i \in DOMAIN handles : handles[i].scope < d.scope
      <4>1. d.scope = Len(pools) + 1
        BY <3>1
      <4>2. QED
        BY <4>1, <1>4
    <3>3. QED
      BY <3>1, <3>2
  <2>4. QED
    BY <1>3, <2>1, <2>2, <2>3 DEF OpeningOk, OwnsItsOwn
<1>6. HandlesOk' /\ ScopeIsPools'
  <2>1. PoolsKept
    BY Types DEF PoolsKept, Begun
  <2>2. QED
    BY <2>1, SameHandles DEF Begun
<1>7. Structure'
  BY <1>1, <1>2 DEF IInv, Structure, Begun
<1>8. QED
  BY <1>5, <1>6, <1>7 DEF IInv

(* openGroup starts. *)
LEMMA openGroupStep ==
    ASSUME IInv, NEW configs \in Groups, openGroup(configs) PROVE IInv'
<1> DEFINE d == [scope |-> Len(pools) + 1, masters |-> <<>>, slaves |-> <<>>,
                 route |-> "auto", schema |-> "", shared |-> FALSE,
                 driver |-> configs[1].driver, switch |-> Len(dryRun) + 1]
<1>1. configs \in Seq(Config) /\ configs[1].driver \in Drivers
  <2>1. configs \in Seq(Config) /\ configs # <<>>
    BY PoolAssumption
  <2>2. configs[1] \in Config
    BY <2>1
  <2>3. QED
    BY <2>1, <2>2 DEF Config
<1>2. Len(pools) + 1 \in Nat /\ Len(dryRun) \in Nat
  BY Types
<1>3. /\ d \in Handle /\ d.masters = <<>> /\ d.slaves = <<>> /\ d.scope = Len(pools) + 1
      /\ ~d.shared /\ d.switch \in 1 .. Len(dryRun) + 1 /\ d.schema = ""
  <2>1. <<>> \in Seq(Node)
    OBVIOUS
  <2>2. QED
    BY <1>1, <1>2, <2>1 DEF Handle, Routes
<1>4. opening' = << [todo |-> configs, at |-> 0, made |-> d] >>
  BY DEF openGroup
<1> HIDE DEF d
<1>5. Unopened(d) /\ Begun(d, configs)
  BY <1>3, <1>4 DEF Unopened, Begun, openGroup
<1>6. QED
  BY <1>1, <1>3, <1>5, Begins

(* Schema starts, or makes a view that shares the pools. *)
LEMMA SchemaStep ==
    ASSUME IInv, NEW i \in DOMAIN handles, NEW name \in Names,
           Schema(i, name)
    PROVE  IInv'
<1> DEFINE d == handles[i]
           asConfig(n, role) == [driver |-> d.driver, role |-> role,
                                 weight |-> n.weight, dryRun |-> FALSE]
           todo == [k \in DOMAIN d.masters |-> asConfig(d.masters[k], "master")]
                   \o [k \in DOMAIN d.slaves |-> asConfig(d.slaves[k], "slave")]
<1>1. /\ d \in Handle /\ handles \in Seq(Handle) /\ pools \in Seq(Pool) /\ name # ""
      /\ d.masters \in Seq(Node) /\ d.slaves \in Seq(Node) /\ d.driver \in Drivers
  BY Types, PoolAssumption DEF Handle
<1>2. /\ OwnsItsOwn(d) /\ d.scope <= Len(pools) /\ d.switch \in DOMAIN dryRun
      /\ d.shared <=> ~MustClose(i)
      /\ \A j \in DOMAIN handles : handles[j].scope = d.scope => Owned(handles[j]) = Owned(d)
  BY DEF IInv, HandlesOk, ScopeIsPools
<1>3. CASE SchemaSQL(d, name) = ""
  <2> DEFINE v == [d EXCEPT !.schema = name, !.shared = TRUE]
  <2>1. /\ v \in Handle /\ v.scope = d.scope /\ v.schema = name
        /\ v.masters = d.masters /\ v.slaves = d.slaves
        /\ v.driver = d.driver /\ v.switch = d.switch
        /\ v.shared = TRUE
    BY <1>1, NamedView
  <2>2. /\ handles' = Append(handles, v) /\ pools' = pools /\ dryRun' = dryRun
        /\ opening' = opening /\ closed' = closed /\ opening = <<>>
    BY <1>3 DEF Schema, Idle, Building
  <2>3. Owned(v) = Owned(d) /\ SchemaSQL(v, v.schema) = "" /\ SchemaSQL(d, d.schema) = ""
    BY <1>1, <1>3, <2>1 DEF Owned, SchemaSQL
  <2> HIDE DEF v
  <2>4. OwnsItsOwn(v)
    BY <1>2, <2>1, <2>3 DEF OwnsItsOwn
  <2>5. Joins(v)
    BY <1>2, <2>1, <2>3, <2>4 DEF Joins
  <2>6. HandlesOk' /\ ScopeIsPools'
    BY <1>2, <2>1, <2>2, <2>5, OneMoreHandle
  <2>7. /\ Append(handles, v) \in Seq(Handle)
        /\ DOMAIN Append(handles, v) = DOMAIN handles \cup {Len(handles) + 1}
    <3>1. v \in Handle /\ handles \in Seq(Handle)
      BY <1>1, <2>1
    <3> HIDE DEF d
    <3>2. QED
      BY <3>1, Appended
  <2>8. Structure' /\ OpeningOk'
    BY <2>2, <2>7 DEF IInv, Structure, OpeningOk, Building
  <2>9. QED
    BY <2>6, <2>8 DEF IInv
<1>4. CASE SchemaSQL(d, name) # ""
  <2> DEFINE v == schemaView(d, name)
  <2>1. todo \in Seq(Config)
    <3>1. \A nodes \in Seq(Node), role \in {"master", "slave"} :
             [k \in DOMAIN nodes |-> asConfig(nodes[k], role)] \in Seq(Config)
      <4> SUFFICES ASSUME NEW nodes \in Seq(Node), NEW role \in {"master", "slave"}
                   PROVE  [k \in DOMAIN nodes |-> asConfig(nodes[k], role)] \in Seq(Config)
        OBVIOUS
      <4>1. \A k \in DOMAIN nodes : asConfig(nodes[k], role) \in Config
        <5>1. \A k \in DOMAIN nodes : nodes[k] \in Node
          OBVIOUS
        <5>2. \A n \in Node : n.weight \in Int
          BY DEF Node
        <5>3. QED
          BY <1>1, <5>1, <5>2 DEF Config
      <4> HIDE DEF asConfig
      <4>2. [k \in DOMAIN nodes |-> asConfig(nodes[k], role)] \in [1 .. Len(nodes) -> Config]
        BY <4>1
      <4>3. QED
        BY <4>2, SeqDef
    <3> HIDE DEF asConfig, d
    <3>2. QED
      BY <1>1, <3>1, ConcatProperties
  <2>2. /\ v \in Handle /\ v.scope = Len(pools) + 1 /\ v.schema = name
        /\ v.masters = <<>> /\ v.slaves = <<>>
        /\ v.driver = d.driver /\ v.switch = d.switch
        /\ v.shared = FALSE
    BY <1>1, SchemaView
  <2>3. SchemaSQL(v, v.schema) # ""
    BY <1>4, <2>2 DEF SchemaSQL
  <2>4. /\ opening' = << [todo |-> todo, at |-> 0, made |-> v] >> /\ Idle
        /\ UNCHANGED <<pools, handles, dryRun, call, closed>>
    BY <1>4 DEF Schema
  <2>5. v.switch \in 1 .. Len(dryRun) + 1
    BY <1>2, <2>2, Types
  <2> HIDE DEF v, todo
  <2>6. Unopened(v) /\ Begun(v, todo)
    BY <2>2, <2>3, <2>4, <2>5 DEF Unopened, Begun
  <2>7. QED
    BY <2>1, <2>2, <2>6, Begins
<1>5. QED
  BY <1>3, <1>4

(* A node opens, or is of a second dialect. *)
LEMMA openNodeStep ==
    ASSUME IInv, openNode PROVE IInv'
<1> DEFINE o    == opening[1]
           d    == o.made
           cfg  == o.todo[o.at + 1]
           node == [pool |-> Len(pools) + 1, weight |-> weightOf(cfg)]
           pool == [scope |-> d.scope, schema |-> SchemaSQL(d, d.schema), open |-> TRUE]
           shut == [pool EXCEPT !.open = FALSE]
<1>1. /\ o \in Opening /\ d \in Handle /\ o.todo \in Seq(Config) /\ o.at \in Nat
      /\ o.at < Len(o.todo) /\ OwnsItsOwn(d) /\ \A p \in Owned(d) : pools[p].open
      /\ \A i \in DOMAIN handles : handles[i].scope < d.scope
  BY UnderConstruction DEF openNode
<1>2. pools \in Seq(Pool) /\ Len(pools) \in Nat
  BY Types
<1>3. cfg \in Config /\ cfg.weight \in Int
  <2>1. o.at + 1 \in DOMAIN o.todo
    BY <1>1
  <2>2. cfg \in Config
    BY <1>1, <2>1
  <2>3. QED
    BY <2>2 DEF Config
<1>4. node \in Node /\ node.pool = Len(pools) + 1
  BY <1>2, <1>3 DEF Node, weightOf
<1>5. pool \in Pool /\ pool.scope = d.scope /\ pool.schema = SchemaSQL(d, d.schema) /\ pool.open
  BY <1>1 DEF Pool, Handle, SchemaSQL
<1>6. shut \in Pool
  BY <1>5 DEF Pool
<1>7. /\ d.scope <= Len(pools) + 1 /\ ~d.shared /\ call = NoCall
      /\ d.switch \in 1 .. Len(dryRun) + 1
      /\ d.schema # "" => SchemaSQL(d, d.schema) # ""
  BY DEF IInv, OpeningOk, openNode
<1> HIDE DEF node, pool, shut
<1>8. CASE cfg.driver # d.driver
  <2>1. pools' = Append(ClosePools(Owned(d)), shut) /\ opening' = <<>>
    BY <1>8 DEF openNode, pool, shut
  <2>2. PoolsKept
    <3> DEFINE closedPools == ClosePools(Owned(d))
    <3>1. /\ closedPools \in Seq(Pool) /\ Len(closedPools) = Len(pools)
          /\ \A p \in DOMAIN pools :
                closedPools[p].scope = pools[p].scope /\ closedPools[p].schema = pools[p].schema
      BY <1>2, ClosedPools
    <3> HIDE DEF closedPools
    <3>2. /\ Append(closedPools, shut) \in Seq(Pool)
          /\ Len(Append(closedPools, shut)) = Len(pools) + 1
          /\ \A p \in DOMAIN pools : Append(closedPools, shut)[p] = closedPools[p]
      BY <1>2, <1>6, <3>1
    <3>3. pools' = Append(closedPools, shut)
      BY <2>1 DEF closedPools
    <3>4. QED
      BY <1>2, <3>1, <3>2, <3>3 DEF PoolsKept
  <2>3. QED
    BY <2>1, <2>2, NoDB, Types DEF openNode, IInv, Structure
<1>9. CASE cfg.driver = d.driver
  <2>0. PICK v : v = withNode(d, cfg.role, node)
    OBVIOUS
  <2> DEFINE w == [o EXCEPT !.at = @ + 1, !.made = v]
  <2>1. pools' = Append(pools, pool) /\ opening' = << w >>
    BY <1>9, <2>0 DEF openNode, pool, node
  <2>2. /\ v \in Handle /\ v.scope = d.scope /\ v.schema = d.schema
        /\ Owned(v) = Owned(d) \cup {Len(pools) + 1}
        /\ v.driver = d.driver /\ v.switch = d.switch /\ v.shared = d.shared
    BY <1>1, <1>4, <2>0, WithNode
  <2>3. w \in Opening /\ w.made = v /\ w.at <= Len(w.todo)
    <3>1. w.made = v /\ w.at = o.at + 1 /\ w.todo = o.todo
      BY <1>1 DEF Opening
    <3>2. w \in Opening
      <4>1. o.at + 1 \in Nat /\ v \in Handle /\ o \in Opening
        BY <1>1, <2>2
      <4> HIDE DEF o
      <4>2. QED
        BY <4>1 DEF Opening
    <3> HIDE DEF w, o
    <3>3. QED
      BY <1>1, <3>1, <3>2
  <2> HIDE DEF w
  <2>4. /\ pools' \in Seq(Pool) /\ Len(pools') = Len(pools) + 1
        /\ \A p \in DOMAIN pools : pools'[p] = pools[p]
        /\ pools'[Len(pools) + 1] = pool /\ DOMAIN pools' = DOMAIN pools \cup {Len(pools) + 1}
    BY <1>2, <1>5, <2>1
  <2>5. SchemaSQL(v, v.schema) = SchemaSQL(d, d.schema)
    BY <2>2 DEF SchemaSQL
  <2>6. OwnsItsOwn(v)' /\ \A p \in Owned(v) : pools'[p].open
    <3>1. ASSUME NEW p \in Owned(v)
          PROVE  /\ p \in DOMAIN pools' /\ pools'[p].scope = v.scope
                 /\ pools'[p].schema = SchemaSQL(v, v.schema) /\ pools'[p].open
      <4>1. CASE p \in Owned(d)
        BY <1>1, <2>2, <2>4, <2>5, <4>1 DEF OwnsItsOwn
      <4>2. CASE p = Len(pools) + 1
        BY <1>5, <2>2, <2>4, <2>5, <4>2
      <4>3. QED
        BY <2>2, <4>1, <4>2
    <3>2. QED
      BY <3>1 DEF OwnsItsOwn
  <2>7. handles' = handles /\ dryRun' = dryRun /\ call' = call /\ closed' = closed
    BY DEF openNode
  <2>8. opening'[1].made = v
    BY <2>1, <2>3
  <2>9. /\ d.scope <= Len(pools') /\ d.scope <= Len(pools') + 1
    <3>1. d.scope \in Nat
      BY <1>1 DEF Handle
    <3>2. d.scope <= Len(pools) + 1 /\ Len(pools') = Len(pools) + 1
      BY <1>7, <2>4
    <3> HIDE DEF d
    <3>3. QED
      BY <1>2, <3>1, <3>2
  <2>10. OpeningOk'
    <3>1. /\ ~v.shared /\ \A i \in DOMAIN handles : handles[i].scope < v.scope
          /\ v.scope <= Len(pools') /\ v.scope <= Len(pools') + 1
          /\ v.switch \in 1 .. Len(dryRun) + 1
          /\ v.schema # "" => SchemaSQL(v, v.schema) # ""
      BY <1>1, <1>7, <2>2, <2>5, <2>9
    <3>2. QED
      BY <1>7, <2>6, <2>7, <2>8, <3>1 DEF OpeningOk, OwnsItsOwn
  <2>11. PoolsKept
    BY <1>2, <2>4 DEF PoolsKept
  <2>12. HandlesOk' /\ ScopeIsPools'
    BY <2>7, <2>11, SameHandles
  <2>13. Structure'
    BY <2>1, <2>3, <2>4, <2>7 DEF IInv, Structure
  <2>14. QED
    BY <2>10, <2>12, <2>13 DEF IInv
<1>10. QED
  BY <1>8, <1>9

(* The last node is open. *)
LEMMA openedStep ==
    ASSUME IInv, opened PROVE IInv'
<1> DEFINE o == opening[1]
           d == o.made
<1>1. /\ o \in Opening /\ d \in Handle /\ OwnsItsOwn(d)
      /\ \A i \in DOMAIN handles : handles[i].scope < d.scope
  BY UnderConstruction DEF opened
<1>2. /\ handles \in Seq(Handle) /\ pools \in Seq(Pool) /\ dryRun \in Seq(BOOLEAN)
      /\ \A i \in DOMAIN handles : handles[i].scope \in Nat
  BY Types
<1>n. d.scope \in Nat /\ d.switch \in Nat
  BY <1>1 DEF Handle
<1>3. CASE d.masters = <<>>
  <2>1. PoolsKept
    BY <1>3, ClosingKeeps DEF opened
  <2>2. QED
    BY <1>3, <2>1, NoDB, Types DEF opened, IInv, Structure
<1>4. CASE d.masters # <<>>
  <2>1. /\ handles' = Append(handles, d) /\ pools' = pools /\ opening' = <<>>
        /\ closed' = closed
    BY <1>4 DEF opened
  <2>2. /\ ~d.shared /\ d.switch \in 1 .. Len(dryRun) + 1
        /\ d.schema # "" => SchemaSQL(d, d.schema) # ""
        /\ Owned(d) # {} => d.scope <= Len(pools)
    BY DEF IInv, OpeningOk, opened
  <2>3. dryRun' \in Seq(BOOLEAN) /\ DOMAIN dryRun \subseteq DOMAIN dryRun'
        /\ d.switch \in DOMAIN dryRun'
    <3>1. CASE d.switch \in DOMAIN dryRun
      BY <1>2, <1>4, <3>1 DEF opened
    <3>2. CASE d.switch \notin DOMAIN dryRun
      <4>1. PICK on \in BOOLEAN : dryRun' = Append(dryRun, on)
        BY <1>4, <3>2 DEF opened
      <4>2. d.switch = Len(dryRun) + 1
        <5>1. d.switch \in 1 .. Len(dryRun) + 1
          BY <2>2
        <5>3. DOMAIN dryRun = 1 .. Len(dryRun)
          BY <1>2
        <5> HIDE DEF d
        <5>2. QED
          BY <1>n, <5>1, <5>3, <3>2
      <4> HIDE DEF d
      <4>3. QED
        BY <1>2, <4>1, <4>2
    <3>3. QED
      BY <3>1, <3>2
  <2>4. d.scope <= Len(pools)
    <3>1. d.masters \in Seq(Node)
      BY <1>1 DEF Handle
    <3>2. 1 \in DOMAIN d.masters
      BY <1>4, <3>1
    <3>3. Owned(d) # {}
      BY <3>2 DEF Owned, PoolsOf
    <3>4. QED
      BY <2>2, <3>3
  <2>5. Joins(d)
    <3>1. \A i \in DOMAIN handles : handles[i].scope # d.scope
      <4> HIDE DEF d
      <4>1. QED
        BY <1>1, <1>2, <1>n
    <3>2. d.shared = FALSE
      BY <2>2, <1>1 DEF Handle
    <3> HIDE DEF d
    <3>3. QED
      BY <1>1, <2>2, <2>4, <3>1, <3>2 DEF Joins
  <2>6. HandlesOk' /\ ScopeIsPools'
    BY <1>1, <2>1, <2>3, <2>5, OneMoreHandle
  <2>7. /\ Append(handles, d) \in Seq(Handle)
        /\ DOMAIN Append(handles, d) = DOMAIN handles \cup {Len(handles) + 1}
    <3> HIDE DEF d
    <3>1. QED
      BY <1>1, <1>2, Appended
  <2>8. Structure' /\ OpeningOk'
    BY <2>1, <2>3, <2>7, <1>2 DEF IInv, Structure, OpeningOk, Building
  <2>9. QED
    BY <2>6, <2>8 DEF IInv
<1>5. QED
  BY <1>3, <1>4

(* The steps that make neither. *)
LEMMA Busy ==
    ASSUME IInv, Building PROVE call = NoCall /\ call.at = "none"
<1>1. call = NoCall
  BY DEF IInv, OpeningOk
<1>2. QED
  BY <1>1 DEF NoCall

Uses ==
    /\ UNCHANGED <<pools, handles, opening, closed>>
    /\ dryRun' \in Seq(BOOLEAN) /\ DOMAIN dryRun' = DOMAIN dryRun
    /\ Building => call' = call

Makes ==
    \/ \E g \in Groups : openGroup(g)
    \/ openNode \/ openNodeFails \/ opened
    \/ \E i \in DOMAIN handles :
          \/ \E route \in Routes : WithRoute(i, route)
          \/ \E name \in Names : Schema(i, name)
          \/ Close(i)

(* Every step makes or closes something, or only uses what is there. *)
LEMMA MakesOrUses ==
    ASSUME IInv, [Next]_vars PROVE Makes \/ Uses
<1>0. dryRun \in Seq(BOOLEAN)
  BY Types
<1>1. ASSUME UNCHANGED vars PROVE Uses
  BY <1>0, <1>1 DEF vars, Uses
<1>2. ASSUME NEW i \in DOMAIN handles, BeginTx(i) PROVE Uses
  BY <1>0, <1>2 DEF BeginTx, Uses
<1>3. ASSUME NEW t \in DOMAIN txs, EndTx(t) PROVE Uses
  BY <1>0, <1>3 DEF EndTx, Uses
<1>4. ASSUME NEW op, NEW via, NEW i, NEW t, NEW s, Start(op, via, i, t, s) PROVE Uses
  BY <1>0, <1>4 DEF Start, MayUse, Idle, Uses
<1>5. ASSUME NEW op, NEW i, NEW t, DBCall(op, i, t) PROVE Uses
  BY <1>4, <1>5 DEF DBCall
<1>6. ASSUME NEW op, NEW t, TxCall(op, t) PROVE Uses
  BY <1>4, <1>6 DEF TxCall
<1>7. ASSUME NEW op, NEW s, StmtCall(op, s) PROVE Uses
  BY <1>0, <1>4, <1>7 DEF StmtCall, MayUse, Idle, Uses
<1>8. ASSUME test PROVE Uses
  BY <1>0, <1>8, Busy DEF test, Uses
<1>9. ASSUME observe PROVE Uses
  BY <1>0, <1>9, Busy DEF observe, Uses
<1>10. ASSUME send PROVE Uses
  BY <1>0, <1>10, Busy DEF send, Uses
<1>11. ASSUME Return PROVE Uses
  BY <1>0, <1>11, Busy DEF Return, Uses
<1>12. ASSUME NEW k \in DOMAIN dryRun, NEW enabled \in BOOLEAN, SetDryRun(k, enabled)
       PROVE  Uses
  <2>1. dryRun' \in Seq(BOOLEAN) /\ DOMAIN dryRun' = DOMAIN dryRun
    BY <1>0, <1>12 DEF SetDryRun
  <2>2. QED
    BY <1>12, <2>1, Busy DEF SetDryRun, Uses
<1>13. CASE UNCHANGED vars
  BY <1>1, <1>13
<1>14. CASE Next
  BY <1>2, <1>3, <1>5, <1>6, <1>7, <1>8, <1>9, <1>10, <1>11, <1>12, <1>14 DEF Next, Makes
<1>15. QED
  BY <1>13, <1>14

(* The invariant is inductive. *)
LEMMA IInvHolds ==
    Spec => []IInv
<1>1. Init => IInv
  <2> SUFFICES ASSUME Init PROVE IInv
    OBVIOUS
  <2>1. /\ pools = <<>> /\ handles = <<>> /\ dryRun = <<>> /\ opening = <<>> /\ closed = {}
    BY DEF Init
  <2>2. Structure
    BY <2>1 DEF Structure
  <2>3. HandlesOk /\ ScopeIsPools /\ OpeningOk
    BY <2>1 DEF HandlesOk, ScopeIsPools, OpeningOk, Building
  <2>4. QED
    BY <2>2, <2>3 DEF IInv
<1>2. IInv /\ [Next]_vars => IInv'
  <2> SUFFICES ASSUME IInv, [Next]_vars PROVE IInv'
    OBVIOUS
  <2>1. CASE Uses
    BY <2>1, Quiet DEF Uses
  <2>2. CASE Makes
    BY <2>2, openGroupStep, openNodeStep, openNodeFailsStep, openedStep, WithRouteStep,
       SchemaStep, CloseStep DEF Makes
  <2>3. QED
    BY <2>1, <2>2, MakesOrUses
<1>3. QED
  BY <1>1, <1>2, PTL DEF Spec
-----------------------------------------------------------------------------
(* Who may close what.                                                      *)

Ownership == NoPoolLeaked /\ CloseIsComplete /\ ClosedOnlyByItsOwner

(* A new handle does not change which of the old ones must be closed. *)
LEMMA MustCloseKept ==
    ASSUME IInv, NEW d \in Handle, handles' = Append(handles, d)
    PROVE  /\ DOMAIN handles \subseteq DOMAIN handles'
           /\ \A i \in DOMAIN handles :
                 handles'[i] = handles[i] /\ (MustClose(i)' <=> MustClose(i))
           /\ \A i \in DOMAIN handles' : i \in DOMAIN handles \/ handles'[i] = d
<1>0. PICK n \in Nat : n = Len(handles) + 1
  BY Types
<1>1. /\ DOMAIN handles' = DOMAIN handles \cup {n} /\ handles'[n] = d
      /\ \A i \in DOMAIN handles : handles'[i] = handles[i]
      /\ DOMAIN handles = 1 .. n - 1 /\ n \in Nat \ {0}
  <2>1. handles \in Seq(Handle)
    BY Types
  <2>2. QED
    BY <1>0, <2>1, Appended
<1>2. ASSUME NEW i \in DOMAIN handles
      PROVE  MustClose(i)' <=> MustClose(i)
  <2>1. handles'[i] = handles[i] /\ \A j \in 1 .. i - 1 : handles'[j] = handles[j]
    BY <1>1
  <2>2. FromOpen(i)' <=> FromOpen(i)
    BY <2>1 DEF FromOpen
  <2>3. QED
    BY <2>1, <2>2 DEF MustClose
<1>3. QED
  BY <1>1, <1>2

(* A handle that no one has closed through, or whose closing was noted, joins. *)
LEMMA OwnedByOneMore ==
    ASSUME IInv, Ownership, NEW d \in Handle, handles' = Append(handles, d),
           pools' = pools, closed' = closed, opening' = <<>>,
           Building => Owned(opening[1].made) \subseteq Owned(d),
           \A p \in Owned(d) :
               pools[p].open \/ \E j \in closed : MustClose(j) /\ p \in Owned(handles[j])
    PROVE  Ownership'
<1>1. closed \subseteq DOMAIN handles
  BY DEF IInv, Structure
<1>2. /\ DOMAIN handles \subseteq DOMAIN handles'
      /\ \A i \in DOMAIN handles :
            handles'[i] = handles[i] /\ (MustClose(i)' <=> MustClose(i))
      /\ \A i \in DOMAIN handles' : i \in DOMAIN handles \/ handles'[i] = d
  BY MustCloseKept
<1>3. CloseIsComplete'
  BY <1>1, <1>2 DEF Ownership, CloseIsComplete
<1>4. ClosedOnlyByItsOwner'
  <2> SUFFICES ASSUME NEW i \in DOMAIN handles', NEW p \in Owned(handles'[i])
               PROVE  \/ pools'[p].open
                      \/ \E j \in closed' : MustClose(j)' /\ p \in Owned(handles'[j])
    BY DEF ClosedOnlyByItsOwner
  <2>1. pools[p].open \/ \E j \in closed : MustClose(j) /\ p \in Owned(handles[j])
    <3>1. CASE i \in DOMAIN handles
      BY <1>2, <3>1 DEF Ownership, ClosedOnlyByItsOwner
    <3>2. CASE handles'[i] = d
      BY <3>2
    <3>3. QED
      BY <1>2, <3>1, <3>2
  <2>2. QED
    BY <1>1, <1>2, <2>1
<1>5. NoPoolLeaked'
  <2>1. \E i \in DOMAIN handles' : handles'[i] = d
    <3>1. handles \in Seq(Handle)
      BY Types
    <3>2. QED
      BY <3>1, Appended
  <2>2. QED
    BY <1>2, <2>1 DEF Ownership, NoPoolLeaked, Building
<1>6. QED
  BY <1>3, <1>4, <1>5 DEF Ownership

(* A constructor that fails closes what it opened, and nothing of another.  *)
LEMMA OwnedByFailing ==
    ASSUME IInv, Ownership, Building, handles' = handles, closed' = closed,
           opening' = <<>>, PoolsKept,
           \A p \in DOMAIN pools' :
               pools'[p].open <=> /\ p \in DOMAIN pools
                                  /\ pools[p].open /\ p \notin Owned(opening[1].made)
    PROVE  Ownership'
<1> DEFINE d == opening[1].made
<1>1. /\ closed \subseteq DOMAIN handles /\ OwnsItsOwn(d)
      /\ \A i \in DOMAIN handles : handles[i].scope < d.scope /\ handles[i].scope \in Nat
  BY UnderConstruction, Types DEF IInv, Structure
<1>2. \A i \in DOMAIN handles : \A p \in Owned(handles[i]) :
         p \in DOMAIN pools /\ p \in DOMAIN pools' /\ p \notin Owned(d)
  <2> SUFFICES ASSUME NEW i \in DOMAIN handles, NEW p \in Owned(handles[i])
               PROVE  p \in DOMAIN pools /\ p \in DOMAIN pools' /\ p \notin Owned(d)
    OBVIOUS
  <2>1. p \in DOMAIN pools /\ pools[p].scope = handles[i].scope
    BY DEF IInv, HandlesOk, OwnsItsOwn
  <2>2. p \in DOMAIN pools'
    BY <2>1, Types DEF PoolsKept
  <2>3. handles[i].scope # d.scope
    <3>1. d \in Handle
      BY UnderConstruction
    <3>2. d.scope \in Nat
      BY <3>1 DEF Handle
    <3> HIDE DEF d
    <3>3. QED
      BY <1>1, <3>2
  <2>4. p \notin Owned(d)
    BY <1>1, <2>1, <2>3 DEF OwnsItsOwn
  <2>5. QED
    BY <2>1, <2>2, <2>4
<1>3. \A i \in DOMAIN handles : MustClose(i)' <=> MustClose(i)
  BY DEF MustClose, FromOpen
<1>4. CloseIsComplete'
  BY <1>1, <1>2, <1>3 DEF Ownership, CloseIsComplete
<1>5. ClosedOnlyByItsOwner'
  BY <1>1, <1>2, <1>3 DEF Ownership, ClosedOnlyByItsOwner
<1>6. NoPoolLeaked'
  BY <1>1, <1>2 DEF Ownership, NoPoolLeaked
<1>7. QED
  BY <1>4, <1>5, <1>6 DEF Ownership

(* Close. *)
LEMMA OwnedByClose ==
    ASSUME IInv, Ownership, NEW i \in DOMAIN handles, Close(i) PROVE Ownership'
<1> DEFINE ps == IF handles[i].shared THEN {} ELSE Owned(handles[i])
<1>1. /\ handles' = handles /\ closed' = closed \cup {i} /\ opening' = <<>> /\ ~Building
      /\ closed \subseteq DOMAIN handles
  BY DEF Close, Idle, Building, IInv, Structure
<1>2. /\ DOMAIN pools' = DOMAIN pools
      /\ \A p \in DOMAIN pools : pools'[p].open <=> (pools[p].open /\ p \notin ps)
  <2>1. pools \in Seq(Pool)
    BY Types
  <2>2. CASE handles[i].shared
    BY <2>2 DEF Close
  <2>3. CASE ~handles[i].shared
    <3>1. pools' = ClosePools(ps) /\ ps = Owned(handles[i])
      BY <2>3 DEF Close
    <3>2. PICK ns : ns = Owned(handles[i])
      OBVIOUS
    <3>3. pools' = ClosePools(ns) /\ ps = ns
      BY <3>1, <3>2
    <3> HIDE DEF ps
    <3>4. DOMAIN pools' = DOMAIN pools
      BY <3>3 DEF ClosePools
    <3>5. \A p \in DOMAIN pools : pools'[p].open = (pools[p].open /\ p \notin ns)
      BY <2>1, <3>3, ClosedPools
    <3>6. QED
      BY <3>3, <3>4, <3>5
  <2>4. QED
    BY <2>2, <2>3
<1>3. \A j \in DOMAIN handles :
         /\ MustClose(j)' <=> MustClose(j)
         /\ \A p \in Owned(handles[j]) : p \in DOMAIN pools
  BY <1>1 DEF MustClose, FromOpen, IInv, HandlesOk, OwnsItsOwn
<1>4. /\ MustClose(i) => ps = Owned(handles[i])
      /\ ps # {} => MustClose(i) /\ ps = Owned(handles[i])
  <2>1. handles[i].shared <=> ~MustClose(i)
    BY DEF IInv, HandlesOk
  <2>2. handles[i].shared \in BOOLEAN
    BY Types DEF Handle
  <2>3. QED
    BY <2>1, <2>2
<1> HIDE DEF ps
<1>5. CloseIsComplete'
  BY <1>1, <1>2, <1>3, <1>4 DEF Ownership, CloseIsComplete
<1>6. ClosedOnlyByItsOwner'
  BY <1>1, <1>2, <1>3, <1>4 DEF Ownership, ClosedOnlyByItsOwner
<1>7. NoPoolLeaked'
  BY <1>1, <1>2, <1>3 DEF Ownership, NoPoolLeaked
<1>8. QED
  BY <1>5, <1>6, <1>7 DEF Ownership

(* What a constructor has opened beside the handles. *)
LEMMA OwnedByBuilding ==
    ASSUME IInv, IInv', Ownership, handles' = handles, closed' = closed, PoolsKept,
           opening' # <<>>,
           \A p \in DOMAIN pools' :
               \/ p \in DOMAIN pools /\ pools'[p] = pools[p]
               \/ p \in Owned(opening'[1].made) /\ p \notin DOMAIN pools,
           Building => Owned(opening[1].made) \subseteq Owned(opening'[1].made)
    PROVE  Ownership'
<1>1. /\ closed \subseteq DOMAIN handles
      /\ \A i \in DOMAIN handles : MustClose(i)' <=> MustClose(i)
  BY DEF IInv, Structure, MustClose, FromOpen
<1>2. \A i \in DOMAIN handles : \A p \in Owned(handles[i]) :
         p \in DOMAIN pools' /\ p \in DOMAIN pools /\ pools'[p] = pools[p]
  <2>1. \A i \in DOMAIN handles : \A p \in Owned(handles[i]) : p \in DOMAIN pools
    BY DEF IInv, HandlesOk, OwnsItsOwn
  <2>2. DOMAIN pools \subseteq DOMAIN pools'
    BY Types DEF PoolsKept
  <2>3. QED
    BY <2>1, <2>2
<1>3. CloseIsComplete'
  BY <1>1, <1>2 DEF Ownership, CloseIsComplete
<1>4. ClosedOnlyByItsOwner'
  BY <1>1, <1>2 DEF Ownership, ClosedOnlyByItsOwner
<1>5. NoPoolLeaked'
  BY DEF Ownership, NoPoolLeaked, Building
<1>6. QED
  BY <1>3, <1>4, <1>5 DEF Ownership

(* A view with the pools of a handle that exists. *)
LEMMA OwnedByView ==
    ASSUME IInv, Ownership, NEW i \in DOMAIN handles, NEW d \in Handle,
           handles' = Append(handles, d), Owned(d) = Owned(handles[i]),
           pools' = pools, closed' = closed, opening' = <<>>, ~Building
    PROVE  Ownership'
<1>1. \A p \in Owned(d) :
         pools[p].open \/ \E j \in closed : MustClose(j) /\ p \in Owned(handles[j])
  BY DEF Ownership, ClosedOnlyByItsOwner
<1>2. QED
  BY <1>1, OwnedByOneMore

(* What a constructor opened is closed, and no handle is returned. *)
LEMMA OwnedByClosing ==
    ASSUME IInv, Ownership, Building, pools' = ClosePools(Owned(opening[1].made)),
           opening' = <<>>, handles' = handles, closed' = closed
    PROVE  Ownership'
<1>0. PICK ns : ns = Owned(opening[1].made)
  OBVIOUS
<1>1. pools \in Seq(Pool) /\ pools' = ClosePools(ns)
  BY <1>0, Types
<1>2. /\ pools' \in Seq(Pool) /\ Len(pools') = Len(pools)
      /\ \A p \in DOMAIN pools :
            /\ pools'[p].scope = pools[p].scope /\ pools'[p].schema = pools[p].schema
            /\ pools'[p].open = (pools[p].open /\ p \notin ns)
  BY <1>1, ClosedPools
<1>3. PoolsKept
  BY <1>1, <1>2 DEF PoolsKept
<1>4. DOMAIN pools' = DOMAIN pools
  BY <1>1 DEF ClosePools
<1>5. \A p \in DOMAIN pools' :
         pools'[p].open <=> /\ p \in DOMAIN pools
                            /\ pools[p].open /\ p \notin Owned(opening[1].made)
  BY <1>0, <1>2, <1>4
<1>6. QED
  BY <1>3, <1>5, OwnedByFailing

(* A node opens, or is of a second dialect. *)
LEMMA OwnedByNode ==
    ASSUME IInv, IInv', Ownership, openNode PROVE Ownership'
<1> DEFINE o    == opening[1]
           d    == o.made
           cfg  == o.todo[o.at + 1]
           node == [pool |-> Len(pools) + 1, weight |-> weightOf(cfg)]
           pool == [scope |-> d.scope, schema |-> SchemaSQL(d, d.schema), open |-> TRUE]
           shut == [pool EXCEPT !.open = FALSE]
<1>0. /\ Building /\ handles' = handles /\ closed' = closed /\ pools \in Seq(Pool)
      /\ d \in Handle /\ o \in Opening /\ OwnsItsOwn(d)
  BY UnderConstruction, Types DEF openNode
<1>1. PICK n \in Nat \ {0} : n = Len(pools) + 1 /\ DOMAIN pools = 1 .. n - 1
  BY <1>0
<1>2. node \in Node /\ node.pool = n
  <2>1. o.at \in Nat /\ o.at < Len(o.todo) /\ o.todo \in Seq(Config)
    BY UnderConstruction DEF openNode
  <2>2. cfg \in Config
    BY <2>1
  <2>3. cfg.weight \in Int
    BY <2>2 DEF Config
  <2>4. QED
    BY <1>1, <2>3 DEF Node, weightOf
<1>3. pool \in Pool /\ pool.open /\ shut \in Pool /\ shut.open = FALSE
  BY <1>0 DEF Pool, Handle, SchemaSQL
<1> HIDE DEF node, pool, shut
<1>4. CASE cfg.driver # d.driver
  <2>1. PICK ns : ns = Owned(d)
    OBVIOUS
  <2>2. PICK ps : ps = ClosePools(ns)
    OBVIOUS
  <2>3. pools' = Append(ps, shut) /\ opening' = <<>>
    BY <1>4, <2>1, <2>2 DEF openNode, pool, shut
  <2>4. /\ ps \in Seq(Pool) /\ Len(ps) = n - 1
        /\ \A p \in DOMAIN pools :
              /\ ps[p].scope = pools[p].scope /\ ps[p].schema = pools[p].schema
              /\ ps[p].open = (pools[p].open /\ p \notin ns)
    BY <1>0, <1>1, <2>2, ClosedPools
  <2>5. /\ pools' \in Seq(Pool) /\ DOMAIN pools' = DOMAIN pools \cup {n} /\ pools'[n] = shut
        /\ \A p \in DOMAIN pools : pools'[p] = ps[p]
        /\ Len(pools') = n
    BY <1>1, <1>3, <2>3, <2>4
  <2>6. PoolsKept
    BY <1>1, <2>4, <2>5 DEF PoolsKept
  <2>7. \A p \in DOMAIN pools' :
           pools'[p].open <=> /\ p \in DOMAIN pools
                              /\ pools[p].open /\ p \notin Owned(opening[1].made)
    <3>1. n \notin DOMAIN pools
      BY <1>1
    <3>2. QED
      BY <1>3, <2>1, <2>4, <2>5, <3>1
  <2>8. QED
    BY <1>0, <2>3, <2>6, <2>7, OwnedByFailing
<1>5. CASE cfg.driver = d.driver
  <2>1. PICK v : v = withNode(d, cfg.role, node)
    OBVIOUS
  <2>2. pools' = Append(pools, pool) /\ opening' = << [o EXCEPT !.at = @ + 1, !.made = v] >>
    BY <1>5, <2>1 DEF openNode, pool, node
  <2>3. opening' # <<>> /\ opening'[1].made = v
    BY <1>0, <2>2 DEF Opening
  <2>4. Owned(v) = Owned(d) \cup {n}
    BY <1>0, <1>2, <2>1, WithNode
  <2>5. /\ pools' \in Seq(Pool) /\ DOMAIN pools' = DOMAIN pools \cup {n}
        /\ \A p \in DOMAIN pools : pools'[p] = pools[p]
        /\ Len(pools) = n - 1 /\ Len(pools') = n
    BY <1>0, <1>1, <1>3, <2>2
  <2>6. PoolsKept
    BY <1>1, <2>5 DEF PoolsKept
  <2>7. \A p \in DOMAIN pools' :
           \/ p \in DOMAIN pools /\ pools'[p] = pools[p]
           \/ p \in Owned(opening'[1].made) /\ p \notin DOMAIN pools
    <3>1. n \notin DOMAIN pools
      BY <1>1
    <3>2. QED
      BY <2>3, <2>4, <2>5, <3>1
  <2>8. Owned(opening[1].made) \subseteq Owned(opening'[1].made)
    BY <2>3, <2>4
  <2>9. QED
    BY <1>0, <2>3, <2>6, <2>7, <2>8, OwnedByBuilding
<1>6. QED
  BY <1>4, <1>5

(* The last node is open. *)
LEMMA OwnedByOpened ==
    ASSUME IInv, Ownership, opened PROVE Ownership'
<1> DEFINE d == opening[1].made
<1>1. Building /\ opening' = <<>> /\ closed' = closed
  BY DEF opened
<1>2. CASE d.masters = <<>>
  <2>1. pools' = ClosePools(Owned(d)) /\ handles' = handles
    BY <1>2 DEF opened
  <2>2. QED
    BY <1>1, <2>1, OwnedByClosing
<1>3. CASE d.masters # <<>>
  <2>1. handles' = Append(handles, d) /\ pools' = pools
    BY <1>3 DEF opened
  <2>2. d \in Handle /\ \A p \in Owned(d) : pools[p].open
    BY <1>1, UnderConstruction DEF IInv, OpeningOk
  <2>3. PICK v : v = d
    OBVIOUS
  <2>4. QED
    BY <1>1, <2>1, <2>2, <2>3, OwnedByOneMore
<1>4. QED
  BY <1>2, <1>3

(* Every step keeps the three properties. *)
LEMMA OwnershipStep ==
    ASSUME IInv, IInv', Ownership, [Next]_vars PROVE Ownership'
<1>1. CASE Uses
  <2>1. /\ pools' = pools /\ handles' = handles /\ closed' = closed /\ opening' = opening
    BY <1>1 DEF Uses
  <2>2. QED
    BY <2>1 DEF Ownership, NoPoolLeaked, CloseIsComplete, ClosedOnlyByItsOwner, Building,
                MustClose, FromOpen
<1>2. ASSUME NEW g \in Groups, openGroup(g) PROVE Ownership'
  <2>1. /\ pools' = pools /\ handles' = handles /\ closed' = closed /\ opening' # <<>>
        /\ ~Building
    BY <1>2 DEF openGroup, Idle
  <2>2. PoolsKept
    BY <2>1, Types DEF PoolsKept
  <2>3. QED
    BY <2>1, <2>2, OwnedByBuilding
<1>3. ASSUME openNode PROVE Ownership'
  BY <1>3, OwnedByNode
<1>4. ASSUME openNodeFails PROVE Ownership'
  <2>1. /\ Building /\ pools' = ClosePools(Owned(opening[1].made)) /\ opening' = <<>>
        /\ handles' = handles /\ closed' = closed
    BY <1>4 DEF openNodeFails
  <2>2. QED
    BY <2>1, OwnedByClosing
<1>5. ASSUME opened PROVE Ownership'
  BY <1>5, OwnedByOpened
<1>6. ASSUME NEW i \in DOMAIN handles, NEW route \in Routes, WithRoute(i, route)
      PROVE  Ownership'
  <2>1. PICK d : d = routeView(handles[i], route)
    OBVIOUS
  <2>2. d \in Handle /\ Owned(d) = Owned(handles[i])
    BY <2>1, Types, RouteView DEF Owned
  <2>3. /\ handles' = Append(handles, d) /\ pools' = pools /\ closed' = closed
        /\ opening' = <<>> /\ ~Building
    BY <1>6, <2>1 DEF WithRoute, Idle, Building
  <2>4. QED
    BY <2>2, <2>3, OwnedByView
<1>7. ASSUME NEW i \in DOMAIN handles, NEW name \in Names, Schema(i, name)
      PROVE  Ownership'
  <2>0. pools' = pools /\ closed' = closed /\ ~Building
    BY <1>7 DEF Schema, Idle
  <2>1. CASE SchemaSQL(handles[i], name) = ""
    <3>1. PICK d : d = [handles[i] EXCEPT !.schema = name, !.shared = TRUE]
      OBVIOUS
    <3>2. d \in Handle /\ Owned(d) = Owned(handles[i])
      BY <3>1, Types, NamedView DEF Owned
    <3>3. handles' = Append(handles, d) /\ opening' = opening
      BY <1>7, <2>1, <3>1 DEF Schema
    <3>4. opening' = <<>>
      BY <2>0, <3>3 DEF Building
    <3>5. QED
      BY <2>0, <3>2, <3>3, <3>4, OwnedByView
  <2>2. CASE SchemaSQL(handles[i], name) # ""
    <3>0. handles' = handles /\ \E o : opening' = <<o>>
      BY <1>7, <2>2, Zenon DEF Schema
    <3>1. handles' = handles /\ opening' # <<>>
      BY <3>0
    <3>2. PoolsKept
      BY <2>0, Types DEF PoolsKept
    <3>3. QED
      BY <2>0, <3>1, <3>2, OwnedByBuilding
  <2>3. QED
    BY <2>1, <2>2
<1>8. ASSUME NEW i \in DOMAIN handles, Close(i) PROVE Ownership'
  BY <1>8, OwnedByClose
<1>9. CASE Makes
  BY <1>9, <1>2, <1>3, <1>4, <1>5, <1>6, <1>7, <1>8 DEF Makes
<1>10. QED
  BY <1>1, <1>9, MakesOrUses

(* The three properties hold. *)
LEMMA OwnershipHolds ==
    Spec => []Ownership
<1>1. Init => Ownership
  BY DEF Init, Ownership, NoPoolLeaked, CloseIsComplete, ClosedOnlyByItsOwner
<1>2. IInv /\ IInv' /\ Ownership /\ [Next]_vars => Ownership'
  BY OwnershipStep
<1>3. QED
  BY <1>1, <1>2, IInvHolds, PTL DEF Spec

(* However the constructors interleave with what fails, an open pool can be *)
(* reached from a handle or is still under construction (db.go:115-149,     *)
(* schema.go:40-61).                                                        *)
THEOREM PoolsAreReachable ==
    Spec => []NoPoolLeaked
<1>1. Ownership => NoPoolLeaked
  BY DEF Ownership
<1>2. QED
  BY <1>1, OwnershipHolds, PTL

(* Close of a handle that must be closed closes all its pools, for any      *)
(* number of views (db.go:247-263).                                         *)
THEOREM CloseClosesAll ==
    Spec => []CloseIsComplete
<1>1. Ownership => CloseIsComplete
  BY DEF Ownership
<1>2. QED
  BY <1>1, OwnershipHolds, PTL

(* No view, and no Schema that fails, closes the pools of another handle    *)
(* (db.go:281-294, schema.go:29-61).                                        *)
THEOREM ViewsCloseNothing ==
    Spec => []ClosedOnlyByItsOwner
<1>1. Ownership => ClosedOnlyByItsOwner
  BY DEF Ownership
<1>2. QED
  BY <1>1, OwnershipHolds, PTL
-----------------------------------------------------------------------------
(* The weights up to a node.  UpTo folds over a set, and a fold is a        *)
(* recursive function: what it is follows from a function that satisfies    *)
(* its equation, the number of `tickets' of a set of nodes, and from the    *)
(* least counterexample to there being only one.                            *)

(* As many tickets as the node weighs, and those of a set of nodes. *)
Share(nodes, j)   == {j} \X (1 .. nodes[j].weight)
Tickets(nodes, s) == UNION {Share(nodes, j) : j \in s}

(* The nodes weigh something. *)
LEMMA WeightsAreNumbers ==
    ASSUME NEW nodes \in Seq(Node), NEW j \in DOMAIN nodes
    PROVE  nodes[j].weight \in Nat /\ nodes[j].weight > 0
<1>1. nodes[j] \in Node
  OBVIOUS
<1>2. QED
  BY <1>1 DEF Node

(* A node has as many tickets as it weighs. *)
LEMMA ShareIsWeight ==
    ASSUME NEW nodes \in Seq(Node), NEW j \in DOMAIN nodes
    PROVE  IsFiniteSet(Share(nodes, j)) /\ Cardinality(Share(nodes, j)) = nodes[j].weight
<1> DEFINE w == nodes[j].weight
<1>1. w \in Nat /\ w > 0
  BY WeightsAreNumbers
<1>2. IsFiniteSet({j}) /\ Cardinality({j}) = 1
  BY FS_Singleton
<1> HIDE DEF w
<1>3. IsFiniteSet(1 .. w) /\ Cardinality(1 .. w) = w
  BY <1>1, FS_Interval
<1>4. IsFiniteSet({j} \X (1 .. w)) /\ Cardinality({j} \X (1 .. w)) = 1 * w
  BY <1>2, <1>3, FS_Product
<1>5. 1 * w = w
  BY <1>1
<1>6. QED
  BY <1>4, <1>5 DEF Share, w

(* The tickets of some nodes can be counted. *)
LEMMA TicketsFinite ==
    ASSUME NEW nodes \in Seq(Node), NEW s \in SUBSET DOMAIN nodes
    PROVE  IsFiniteSet(Tickets(nodes, s)) /\ Cardinality(Tickets(nodes, s)) \in Nat
<1> DEFINE T == {Share(nodes, j) : j \in s}
           f == [j \in s |-> Share(nodes, j)]
<1>1. IsFiniteSet(s)
  <2>1. DOMAIN nodes = 1 .. Len(nodes) /\ Len(nodes) \in Nat
    OBVIOUS
  <2>2. IsFiniteSet(1 .. Len(nodes))
    BY <2>1, FS_Interval
  <2>3. QED
    BY <2>1, <2>2, FS_Subset
<1>2. f \in Surjection(s, T)
  BY DEF Surjection
<1>3. IsFiniteSet(T)
  <2> HIDE DEF f, T
  <2>1. QED
    BY <1>1, <1>2, FS_Surjection
<1>4. \A t \in T : IsFiniteSet(t)
  BY ShareIsWeight
<1>5. IsFiniteSet(Tickets(nodes, s))
  <2> HIDE DEF T
  <2>1. IsFiniteSet(UNION T)
    BY <1>3, <1>4, FS_UNION
  <2>2. QED
    BY <2>1 DEF Tickets, T
<1>6. QED
  BY <1>5, FS_CardinalityType

(* One node more is its weight more. *)
LEMMA OneNodeMore ==
    ASSUME NEW nodes \in Seq(Node), NEW s \in SUBSET DOMAIN nodes, NEW x \in s
    PROVE  Cardinality(Tickets(nodes, s)) =
               nodes[x].weight + Cardinality(Tickets(nodes, s \ {x}))
<1>1. Tickets(nodes, s) = Share(nodes, x) \cup Tickets(nodes, s \ {x})
  BY DEF Tickets
<1>2. Share(nodes, x) \cap Tickets(nodes, s \ {x}) = {}
  BY DEF Tickets, Share
<1>3. IsFiniteSet(Share(nodes, x)) /\ Cardinality(Share(nodes, x)) = nodes[x].weight
  BY ShareIsWeight
<1>4. /\ IsFiniteSet(Tickets(nodes, s \ {x}))
      /\ Cardinality(Tickets(nodes, s \ {x})) \in Nat
  BY TicketsFinite
<1>5. nodes[x].weight \in Nat
  BY WeightsAreNumbers
<1>6. PICK a : a = Share(nodes, x)
  OBVIOUS
<1>7. PICK b : b = Tickets(nodes, s \ {x})
  OBVIOUS
<1>8. Cardinality(a \cup b) = Cardinality(a) + Cardinality(b) - Cardinality(a \cap b)
  BY <1>3, <1>4, <1>6, <1>7, FS_Union
<1>9. Cardinality(a \cap b) = 0
  BY <1>2, <1>6, <1>7, FS_EmptySet
<1>10. QED
  BY <1>1, <1>3, <1>4, <1>5, <1>6, <1>7, <1>8, <1>9

(* The equation of the fold. *)
Any(s) == CHOOSE x \in s : TRUE
IsFold(nodes, S, g) ==
    g = [s \in SUBSET S |->
            IF s = {} THEN 0 ELSE nodes[Any(s)].weight + g[s \ {Any(s)}]]

(* UpTo is the value of a function that satisfies it, if there is one. *)
LEMMA UpToIsFold ==
    ASSUME NEW nodes, NEW k
    PROVE  UpTo(nodes, k) = (CHOOSE g : IsFold(nodes, 1 .. k, g))[1 .. k]
  BY DEF UpTo, MapThenSumSet, MapThenFoldSet, IsFold, Any

(* The tickets satisfy it, as a function of the set of nodes. *)
LEMMA TicketsFold ==
    ASSUME NEW nodes \in Seq(Node), NEW S \in SUBSET DOMAIN nodes
    PROVE  IsFold(nodes, S, [s \in SUBSET S |-> Cardinality(Tickets(nodes, s))])
<1> DEFINE g == [s \in SUBSET S |-> Cardinality(Tickets(nodes, s))]
<1>1. ASSUME NEW s \in SUBSET S
      PROVE  g[s] = IF s = {} THEN 0 ELSE nodes[Any(s)].weight + g[s \ {Any(s)}]
  <2>1. CASE s = {}
    <3>1. Tickets(nodes, s) = {}
      BY <2>1 DEF Tickets
    <3>2. QED
      BY <2>1, <3>1, FS_EmptySet
  <2>2. CASE s # {}
    <3>1. Any(s) \in s
      BY <2>2 DEF Any
    <3>2. s \in SUBSET DOMAIN nodes
      OBVIOUS
    <3>3. Cardinality(Tickets(nodes, s)) =
              nodes[Any(s)].weight + Cardinality(Tickets(nodes, s \ {Any(s)}))
      BY <3>1, <3>2, OneNodeMore
    <3>4. s \ {Any(s)} \in SUBSET S
      OBVIOUS
    <3>5. QED
      BY <2>2, <3>3, <3>4
  <2>3. QED
    BY <2>1, <2>2
<1>2. QED
  BY <1>1 DEF IsFold

(* A set of numbers has a least. *)
LEMMA LeastNumber ==
    ASSUME NEW N \in SUBSET Nat, N # {}
    PROVE  \E n \in N : \A m \in N : n <= m
<1>1. PICK n \in N : \A m \in N : <<m, n>> \notin OpToRel(<, Nat)
  BY NatLessThanWellFounded, WFMin
<1>2. ASSUME NEW m \in N
      PROVE  n <= m
  <2>1. <<m, n>> \notin OpToRel(<, Nat)
    BY <1>1
  <2>2. ~(m < n)
    BY <2>1 DEF OpToRel
  <2>3. QED
    BY <2>2
<1>3. QED
  BY <1>2

(* No two functions satisfy it: where they differ, they differ on a smaller *)
(* set too.                                                                 *)
LEMMA OneFold ==
    ASSUME NEW nodes, NEW S, IsFiniteSet(S),
           NEW g, IsFold(nodes, S, g), NEW h, IsFold(nodes, S, h)
    PROVE  \A s \in SUBSET S : g[s] = h[s]
<1> DEFINE Differ == {s \in SUBSET S : g[s] # h[s]}
           Sizes  == {n \in Nat : \E s \in Differ : n = Cardinality(s)}
<1>1. SUFFICES ASSUME Differ # {} PROVE FALSE
  OBVIOUS
<1>2. \A s \in SUBSET S : IsFiniteSet(s) /\ Cardinality(s) \in Nat
  BY FS_Subset, FS_CardinalityType
<1>3. Sizes # {}
  BY <1>1, <1>2
<1>4. PICK n \in Sizes : \A m \in Sizes : n <= m
  <2> HIDE DEF Sizes
  <2>1. Sizes \in SUBSET Nat
    BY DEF Sizes
  <2>2. QED
    BY <1>3, <2>1, LeastNumber
<1>5. PICK s \in Differ : n = Cardinality(s)
  OBVIOUS
<1>6. g[s] = IF s = {} THEN 0 ELSE nodes[Any(s)].weight + g[s \ {Any(s)}]
  BY DEF IsFold
<1>7. h[s] = IF s = {} THEN 0 ELSE nodes[Any(s)].weight + h[s \ {Any(s)}]
  BY DEF IsFold
<1>8. s # {}
  BY <1>6, <1>7
<1>9. Any(s) \in s
  BY <1>8 DEF Any
<1>10. PICK t : t = s \ {Any(s)}
  OBVIOUS
<1>11. t \in Differ
  BY <1>6, <1>7, <1>8, <1>10
<1>12. Cardinality(t) = n - 1
  <2>1. IsFiniteSet(s)
    BY <1>2
  <2>2. PICK a : a = Any(s)
    OBVIOUS
  <2>3. Cardinality(s \ {a}) = Cardinality(s) - 1
    BY <1>9, <2>1, <2>2, FS_RemoveElement
  <2>4. QED
    BY <1>5, <1>10, <2>2, <2>3
<1>13. Cardinality(t) \in Sizes
  BY <1>2, <1>11
<1>14. QED
  BY <1>4, <1>12, <1>13

(* UpTo counts the tickets of the first nodes. *)
LEMMA UpToIsTickets ==
    ASSUME NEW nodes \in Seq(Node), NEW k \in 0 .. Len(nodes)
    PROVE  UpTo(nodes, k) = Cardinality(Tickets(nodes, 1 .. k))
<1> DEFINE S == 1 .. k
           h == [s \in SUBSET S |-> Cardinality(Tickets(nodes, s))]
           g == CHOOSE f : IsFold(nodes, S, f)
<1>1. S \in SUBSET DOMAIN nodes /\ IsFiniteSet(S)
  <2>1. k \in Nat /\ Len(nodes) \in Nat /\ k <= Len(nodes) /\ DOMAIN nodes = 1 .. Len(nodes)
    OBVIOUS
  <2>2. QED
    BY <2>1, FS_Interval
<1> HIDE DEF S
<1>2. IsFold(nodes, S, h)
  BY <1>1, TicketsFold
<1> HIDE DEF h
<1>3. IsFold(nodes, S, g)
  BY <1>2
<1> HIDE DEF g
<1>4. g[S] = h[S]
  BY <1>1, <1>2, <1>3, OneFold
<1>5. h[S] = Cardinality(Tickets(nodes, S))
  BY DEF h
<1>6. UpTo(nodes, k) = g[S]
  BY UpToIsFold DEF g, S
<1>7. QED
  BY <1>4, <1>5, <1>6 DEF S

(* The weights up to a node are those up to the one before and its own. *)
LEMMA UpToNext ==
    ASSUME NEW nodes \in Seq(Node), NEW k \in DOMAIN nodes
    PROVE  /\ UpTo(nodes, k - 1) \in Nat
           /\ UpTo(nodes, k) = UpTo(nodes, k - 1) + nodes[k].weight
<1>1. k \in Nat /\ k >= 1 /\ Len(nodes) \in Nat /\ k <= Len(nodes) /\ DOMAIN nodes = 1 .. Len(nodes)
  OBVIOUS
<1>2. k \in 0 .. Len(nodes) /\ k - 1 \in 0 .. Len(nodes)
  BY <1>1
<1>3. /\ 1 .. k \in SUBSET DOMAIN nodes /\ 1 .. (k - 1) \in SUBSET DOMAIN nodes
      /\ k \in 1 .. k /\ (1 .. k) \ {k} = 1 .. (k - 1)
  BY <1>1
<1>4. Cardinality(Tickets(nodes, 1 .. k)) =
          nodes[k].weight + Cardinality(Tickets(nodes, (1 .. k) \ {k}))
  BY <1>3, OneNodeMore
<1>5. Cardinality(Tickets(nodes, 1 .. (k - 1))) \in Nat
  BY <1>3, TicketsFinite
<1>6. UpTo(nodes, k) = Cardinality(Tickets(nodes, 1 .. k))
  BY <1>2, UpToIsTickets
<1>7. UpTo(nodes, k - 1) = Cardinality(Tickets(nodes, 1 .. (k - 1)))
  BY <1>2, UpToIsTickets
<1>8. nodes[k].weight \in Nat
  BY WeightsAreNumbers
<1>9. PICK t : t = (1 .. k) \ {k}
  OBVIOUS
<1>10. t = 1 .. (k - 1)
  BY <1>3, <1>9
<1>11. Cardinality(Tickets(nodes, 1 .. k)) = nodes[k].weight + Cardinality(Tickets(nodes, t))
  BY <1>4, <1>9
<1>12. Cardinality(Tickets(nodes, t)) = UpTo(nodes, k - 1)
  BY <1>7, <1>10
<1>13. QED
  BY <1>5, <1>6, <1>7, <1>8, <1>11, <1>12

(* No node counts for less than nothing. *)
LEMMA UpToGrows ==
    ASSUME NEW nodes \in Seq(Node), NEW j \in 0 .. Len(nodes), NEW k \in 0 .. Len(nodes),
           j <= k
    PROVE  /\ UpTo(nodes, j) \in Nat /\ UpTo(nodes, k) \in Nat
           /\ UpTo(nodes, j) <= UpTo(nodes, k)
<1>1. /\ j \in Nat /\ k \in Nat /\ Len(nodes) \in Nat
      /\ k <= Len(nodes) /\ DOMAIN nodes = 1 .. Len(nodes)
  OBVIOUS
<1>2. 1 .. k \in SUBSET DOMAIN nodes /\ 1 .. j \in SUBSET DOMAIN nodes /\ 1 .. j \subseteq 1 .. k
  BY <1>1
<1>3. PICK a : a = Tickets(nodes, 1 .. j)
  OBVIOUS
<1>4. PICK b : b = Tickets(nodes, 1 .. k)
  OBVIOUS
<1>5. IsFiniteSet(b) /\ Cardinality(b) \in Nat /\ Cardinality(a) \in Nat
  BY <1>2, <1>3, <1>4, TicketsFinite
<1>6. a \in SUBSET b
  BY <1>2, <1>3, <1>4 DEF Tickets
<1>7. Cardinality(a) <= Cardinality(b)
  BY <1>5, <1>6, FS_Subset
<1>8. UpTo(nodes, j) = Cardinality(a) /\ UpTo(nodes, k) = Cardinality(b)
  BY <1>3, <1>4, UpToIsTickets
<1>9. QED
  BY <1>5, <1>7, <1>8

(* A node is picked by the numbers between the weights up to the one before *)
(* and those up to it.                                                      *)
LEMMA PickedBetween ==
    ASSUME NEW nodes \in Seq(Node), NEW k \in DOMAIN nodes
    PROVE  {x \in Targets(nodes) : k \in picked(nodes, x)} =
               UpTo(nodes, k - 1) .. UpTo(nodes, k) - 1
<1> DEFINE n == Len(nodes)
<1>1. /\ n \in Nat /\ DOMAIN nodes = 1 .. n /\ k \in 1 .. n
      /\ k \in 0 .. n /\ k - 1 \in 0 .. n /\ n \in 0 .. n
  OBVIOUS
<1> HIDE DEF n
<1>2. \A j \in 1 .. k - 1 : UpTo(nodes, j) <= UpTo(nodes, k - 1) /\ UpTo(nodes, j) \in Nat
  <2>1. ASSUME NEW j \in 1 .. k - 1
        PROVE  UpTo(nodes, j) <= UpTo(nodes, k - 1) /\ UpTo(nodes, j) \in Nat
    <3>1. j \in 0 .. n /\ j <= k - 1
      BY <1>1
    <3>2. QED
      BY <1>1, <3>1, UpToGrows DEF n
  <2>2. QED
    BY <2>1
<1>3. UpTo(nodes, k) <= UpTo(nodes, n) /\ UpTo(nodes, n) \in Nat /\ UpTo(nodes, k) \in Nat
  BY <1>1, UpToGrows DEF n
<1>4. UpTo(nodes, k - 1) \in Nat
  BY UpToNext
<1>5. UpTo(nodes, 0) = 0
  <2>1. 1 .. 0 = {}
    OBVIOUS
  <2>2. Tickets(nodes, {}) = {}
    BY DEF Tickets
  <2>3. 0 \in 0 .. Len(nodes)
    BY <1>1 DEF n
  <2>4. QED
    BY <2>1, <2>2, <2>3, UpToIsTickets, FS_EmptySet
<1>6. ASSUME NEW x \in Targets(nodes)
      PROVE  k \in picked(nodes, x) <=> x \in UpTo(nodes, k - 1) .. UpTo(nodes, k) - 1
  <2>1. x \in Nat /\ x < UpTo(nodes, n)
    BY <1>3 DEF Targets, n
  <2>2. (\A j \in 1 .. k - 1 : UpTo(nodes, j) <= x) <=> UpTo(nodes, k - 1) <= x
    <3>1. CASE k = 1
      BY <1>5, <2>1, <3>1
    <3>2. CASE k # 1
      <4>1. k - 1 \in 1 .. k - 1
        BY <1>1, <3>2
      <4>2. QED
        BY <1>2, <1>4, <2>1, <4>1
    <3>3. QED
      BY <3>1, <3>2
  <2>3. (x < UpTo(nodes, k) \/ k = Len(nodes)) <=> x < UpTo(nodes, k)
    BY <2>1 DEF n
  <2>4. QED
    BY <1>3, <1>4, <2>1, <2>2, <2>3 DEF picked
<1>7. UpTo(nodes, k - 1) .. UpTo(nodes, k) - 1 \subseteq Targets(nodes)
  BY <1>3, <1>4 DEF Targets, n
<1>8. QED
  BY <1>6, <1>7

(* As many numbers as its weight. *)
LEMMA PickedByWeight ==
    ASSUME NEW nodes \in Seq(Node), NEW k \in DOMAIN nodes
    PROVE  Cardinality({x \in Targets(nodes) : k \in picked(nodes, x)}) = nodes[k].weight
<1>1. PICK a : a = UpTo(nodes, k - 1)
  OBVIOUS
<1>2. PICK b : b = UpTo(nodes, k)
  OBVIOUS
<1>3. a \in Nat /\ b = a + nodes[k].weight
  BY <1>1, <1>2, UpToNext
<1>4. nodes[k].weight \in Nat /\ nodes[k].weight > 0
  BY WeightsAreNumbers
<1>5. Cardinality(a .. b - 1) = nodes[k].weight
  <2>1. a \in Int /\ b - 1 \in Int /\ a <= b - 1
    BY <1>3, <1>4
  <2>2. Cardinality(a .. b - 1) = (b - 1) - a + 1
    BY <2>1, FS_Interval
  <2>3. QED
    BY <1>3, <1>4, <2>2
<1>6. QED
  BY <1>1, <1>2, <1>5, PickedBetween

(* However many nodes a group has and whatever they weigh, each is picked   *)
(* by as many of the numbers that rand.IntN gives as it weighs: the ends of *)
(* the intervals meet, and the fallback to the last node takes nothing      *)
(* (db.go:319-338).  A configured weight need not be positive; that of a    *)
(* node is (db.go:186-189).                                                 *)
THEOREM PickIsFair ==
    Spec => []FairShare
<1>1. IInv => FairShare
  <2> SUFFICES ASSUME IInv, NEW i \in DOMAIN handles,
                      NEW nodes \in {handles[i].masters, handles[i].slaves},
                      NEW k \in DOMAIN nodes
               PROVE  Cardinality({x \in Targets(nodes) : k \in picked(nodes, x)})
                          = nodes[k].weight
    BY DEF FairShare
  <2>1. handles[i] \in Handle
    BY Types
  <2>2. nodes \in Seq(Node)
    BY <2>1 DEF Handle
  <2>3. QED
    BY <2>2, PickedByWeight
<1>2. QED
  BY <1>1, IInvHolds, PTL
-----------------------------------------------------------------------------
(***************************************************************************)
(* Statements.  CInv says where a transaction and a prepared statement may *)
(* lie, which of them the call under way belongs to, and which values of   *)
(* the dry-run switch the call has already read at each of its steps.      *)
(***************************************************************************)

(* A transaction is on a pool of its handle. *)
TxsOk ==
    /\ txs \in Seq(Tx)
    /\ \A t \in DOMAIN txs : /\ txs[t].db \in DOMAIN handles
                             /\ txs[t].pool \in Owned(handles[txs[t].db])

(* So is a statement that was prepared. *)
StmtsOk ==
    /\ stmts \in Seq(Stmt)
    /\ \A s \in DOMAIN stmts :
          /\ stmts[s].db \in DOMAIN handles
          /\ stmts[s].pool # None => stmts[s].pool \in Owned(handles[stmts[s].db])
          /\ stmts[s].tx # None => stmts[s].tx \in DOMAIN txs

Running == call.at # "none"

(* The call is of the handle of its Tx or its Stmt, and has gone to a pool of it. *)
CallOk ==
    /\ call \in Call
    /\ Running => /\ call.db \in DOMAIN handles
                  /\ call.tx # None => call.tx \in DOMAIN txs
                  /\ call.via = "tx" => call.tx # None /\ call.db = txs[call.tx].db
                  /\ call.via = "stmt" => /\ call.stmt \in DOMAIN stmts
                                          /\ call.db = stmts[call.stmt].db
    /\ call.pool # None => call.at = "done" /\ call.pool \in Owned(handles[call.db])

(* What the call has read of the switch: its present value is remembered,   *)
(* and a call that was let pass has seen it off.                            *)
SwitchOk ==
    /\ call.at \in {"test", "observe", "send"} =>
          IF Switch(call) THEN call.on ELSE call.off
    /\ call.at = "observe" /\ TestsFirst(call) => call.off
    /\ call.at = "send" /\ call.op # "Tables" => call.off

CInv == TxsOk /\ StmtsOk /\ CallOk /\ SwitchOk /\ DryRunSendsNothing /\ AnswersAreTrue

(* The pools that are read and written are the handle's own. *)
LEMMA Picked ==
    ASSUME NEW nodes PROVE pick(nodes) \subseteq PoolsOf(nodes)
  BY DEF pick, picked, PoolsOf

LEMMA Chosen ==
    ASSUME NEW d PROVE readDB(d) \subseteq Owned(d) /\ writeDB(d) \subseteq Owned(d)
  BY Picked DEF readDB, writeDB, prefer, Owned

(* The transaction that a statement joins lies on a pool of its handle. *)
LEMMA JoinedTx ==
    ASSUME IInv, TxsOk, NEW i \in DOMAIN handles, NEW t, t # None => t \in DOMAIN txs,
           TxFromContext(handles[i], t) # None
    PROVE  t \in DOMAIN txs /\ txs[t].pool \in Owned(handles[i])
<1>1. t \in DOMAIN txs /\ handles[txs[t].db].scope = handles[i].scope
  BY DEF TxFromContext
<1>2. txs[t].db \in DOMAIN handles /\ txs[t].pool \in Owned(handles[txs[t].db])
  BY <1>1 DEF TxsOk
<1>3. QED
  BY <1>1, <1>2 DEF IInv, ScopeIsPools

(* The switch of a call is one of the switches. *)
LEMMA SwitchIsBoolean ==
    ASSUME IInv, CallOk, Running
    PROVE  handles[call.db].switch \in DOMAIN dryRun /\ Switch(call) \in BOOLEAN
<1>1. handles[call.db].switch \in DOMAIN dryRun
  BY DEF CallOk, IInv, HandlesOk
<1>2. dryRun \in Seq(BOOLEAN)
  BY Types
<1>3. QED
  BY <1>1, <1>2 DEF Switch

(* Handles and switches are added, none is taken away. *)
Grown ==
    /\ DOMAIN handles \subseteq DOMAIN handles'
    /\ \A i \in DOMAIN handles : handles'[i] = handles[i]
    /\ DOMAIN dryRun \subseteq DOMAIN dryRun'
    /\ \A k \in DOMAIN dryRun : dryRun'[k] = dryRun[k]

(* A step that makes or closes something leaves the calls alone. *)
LEMMA MakesGrow ==
    ASSUME IInv, Makes PROVE Grown /\ UNCHANGED <<txs, stmts, call>>
<1>0. handles \in Seq(Handle) /\ dryRun \in Seq(BOOLEAN)
  BY Types
<1>1. ASSUME UNCHANGED <<handles, dryRun>> PROVE Grown
  BY <1>1 DEF Grown
<1>2. ASSUME NEW d, handles' = Append(handles, d), dryRun' = dryRun PROVE Grown
  BY <1>0, <1>2 DEF Grown
<1>3. ASSUME NEW d, NEW e, handles' = Append(handles, d), dryRun' = Append(dryRun, e)
      PROVE  Grown
  BY <1>0, <1>3 DEF Grown
<1>4. ASSUME NEW g, openGroup(g) PROVE Grown /\ UNCHANGED <<txs, stmts, call>>
  BY <1>1, <1>4 DEF openGroup
<1>5. ASSUME openNode PROVE Grown /\ UNCHANGED <<txs, stmts, call>>
  BY <1>1, <1>5 DEF openNode
<1>6. ASSUME openNodeFails PROVE Grown /\ UNCHANGED <<txs, stmts, call>>
  BY <1>1, <1>6 DEF openNodeFails
<1>7. ASSUME opened PROVE Grown /\ UNCHANGED <<txs, stmts, call>>
  BY <1>1, <1>2, <1>3, <1>7 DEF opened
<1>8. ASSUME NEW i, NEW route, WithRoute(i, route) PROVE Grown /\ UNCHANGED <<txs, stmts, call>>
  BY <1>2, <1>8 DEF WithRoute
<1>9. ASSUME NEW i, NEW name, Schema(i, name) PROVE Grown /\ UNCHANGED <<txs, stmts, call>>
  BY <1>1, <1>2, <1>9 DEF Schema
<1>10. ASSUME NEW i, Close(i) PROVE Grown /\ UNCHANGED <<txs, stmts, call>>
  BY <1>1, <1>10 DEF Close
<1>11. QED
  BY <1>4, <1>5, <1>6, <1>7, <1>8, <1>9, <1>10 DEF Makes

(* So it keeps what is said of them. *)
LEMMA GrownKeeps ==
    ASSUME IInv, CInv, Grown, UNCHANGED <<txs, stmts, call>> PROVE CInv'
<1>1. TxsOk' /\ StmtsOk'
  BY DEF CInv, TxsOk, StmtsOk, Grown
<1>2. ASSUME call.pool # None PROVE Running
  BY <1>2 DEF CInv, CallOk, Running
<1>3. CallOk'
  BY <1>2 DEF CInv, CallOk, Grown, Running
<1>4. SwitchOk'
  <2>1. ASSUME Running PROVE Switch(call)' = Switch(call)
    BY <2>1, SwitchIsBoolean DEF CInv, CallOk, Grown, Switch
  <2>2. ASSUME call.at \in {"test", "observe", "send"} PROVE Running
    BY <2>2 DEF Running
  <2>3. QED
    BY <2>1, <2>2 DEF CInv, SwitchOk, TestsFirst
<1>5. DryRunSendsNothing' /\ AnswersAreTrue'
  BY DEF CInv, DryRunSendsNothing, AnswersAreTrue
<1>6. QED
  BY <1>1, <1>3, <1>4, <1>5 DEF CInv
-----------------------------------------------------------------------------
(* The steps that use what is there.                                        *)

(* What the use of a handle needs to know of it. *)
LEMMA InUse ==
    ASSUME IInv, CInv
    PROVE  /\ txs \in Seq(Tx) /\ stmts \in Seq(Stmt) /\ call \in Call
           /\ \A t \in DOMAIN txs : txs[t] \in Tx
           /\ \A s \in DOMAIN stmts : stmts[s] \in Stmt
           /\ \A i \in DOMAIN handles : i \in Nat /\ i # None
           /\ \A t \in DOMAIN txs : t \in Nat /\ t # None
           /\ \A s \in DOMAIN stmts : s \in Nat /\ s # None
           /\ \A i \in DOMAIN handles : \A p \in Owned(handles[i]) : p \in Nat /\ p # None
<1>1. txs \in Seq(Tx) /\ stmts \in Seq(Stmt) /\ call \in Call
  BY DEF CInv, TxsOk, StmtsOk, CallOk
<1>2. handles \in Seq(Handle) /\ pools \in Seq(Pool)
  BY Types
<1>3. \A i \in DOMAIN handles : \A p \in Owned(handles[i]) : p \in DOMAIN pools
  BY DEF IInv, HandlesOk, OwnsItsOwn
<1>4. QED
  BY <1>1, <1>2, <1>3 DEF None

(* While handles, transactions and statements stay, so does what is said of them. *)
LEMMA Settled ==
    ASSUME CInv, UNCHANGED <<handles, txs, stmts>> PROVE TxsOk' /\ StmtsOk'
  BY DEF CInv, TxsOk, StmtsOk

(* BeginTx. *)
LEMMA BeginTxKeeps ==
    ASSUME IInv, CInv, NEW i \in DOMAIN handles, BeginTx(i) PROVE CInv'
<1>0. /\ handles' = handles /\ dryRun' = dryRun /\ stmts' = stmts /\ call' = call
      /\ call = NoCall
  BY DEF BeginTx, MayUse, Idle
<1>1. PICK p \in writeDB(handles[i]) : txs' = Append(txs, [db |-> i, pool |-> p, open |-> TRUE])
  BY DEF BeginTx
<1>2. p \in Owned(handles[i])
  BY Chosen
<1>3. PICK x \in Tx : x = [db |-> i, pool |-> p, open |-> TRUE]
  BY <1>2, InUse DEF Tx
<1>4. /\ txs' \in Seq(Tx) /\ DOMAIN txs' = DOMAIN txs \cup {Len(txs) + 1}
      /\ txs'[Len(txs) + 1] = x /\ \A t \in DOMAIN txs : txs'[t] = txs[t]
  BY <1>1, <1>3, InUse
<1>5. TxsOk'
  BY <1>0, <1>2, <1>3, <1>4 DEF CInv, TxsOk
<1>6. StmtsOk'
  BY <1>0, <1>4 DEF CInv, StmtsOk
<1>7. CallOk' /\ SwitchOk' /\ DryRunSendsNothing' /\ AnswersAreTrue'
  <2>1. call' \in Call
    BY <1>0, InUse
  <2>2. QED
    BY <1>0, <2>1 DEF CallOk, SwitchOk, DryRunSendsNothing, AnswersAreTrue, NoCall, Running
<1>8. QED
  BY <1>5, <1>6, <1>7 DEF CInv

(* Commit and Rollback. *)
LEMMA EndTxKeeps ==
    ASSUME IInv, CInv, NEW t \in DOMAIN txs, EndTx(t) PROVE CInv'
<1>0. /\ handles' = handles /\ dryRun' = dryRun /\ stmts' = stmts /\ call' = call
  BY DEF EndTx
<1>1. /\ txs' \in Seq(Tx) /\ DOMAIN txs' = DOMAIN txs
      /\ \A u \in DOMAIN txs : txs'[u].db = txs[u].db /\ txs'[u].pool = txs[u].pool
  <2>1. PICK x : x = [txs[t] EXCEPT !.open = FALSE]
    OBVIOUS
  <2>2. txs[t] \in Tx /\ txs \in Seq(Tx)
    BY InUse
  <2>3. x \in Tx /\ x.db = txs[t].db /\ x.pool = txs[t].pool
    BY <2>1, <2>2 DEF Tx
  <2>4. txs' = [txs EXCEPT ![t] = x]
    BY <2>1 DEF EndTx
  <2>5. QED
    BY <2>2, <2>3, <2>4
<1>2. TxsOk' /\ StmtsOk'
  BY <1>0, <1>1 DEF CInv, TxsOk, StmtsOk
<1>3. ASSUME Running PROVE Switch(call)' = Switch(call)
  BY <1>0 DEF Switch
<1>4. CallOk'
  BY <1>0, <1>1 DEF CInv, CallOk, Running
<1>5. SwitchOk'
  BY <1>0 DEF CInv, SwitchOk, Switch, TestsFirst
<1>6. DryRunSendsNothing' /\ AnswersAreTrue'
  BY <1>0 DEF CInv, DryRunSendsNothing, AnswersAreTrue
<1>7. QED
  BY <1>2, <1>4, <1>5, <1>6 DEF CInv

(* What is not changed by the steps of a call. *)
Still == UNCHANGED <<pools, handles, dryRun, txs, opening, closed>>

Calls == {"Query", "GetAll", "Value", "ValueExact", "Column", "Exec",
          "Prepare", "PrepareMaster", "Tables"}
Started(op, via, i, t, s) == [NoCall EXCEPT !.op = op, !.via = via, !.db = i, !.tx = t, !.stmt = s]

(* The record of a call that starts. *)
LEMMA NewCall ==
    ASSUME NEW op \in Calls, NEW via \in {"db", "tx", "stmt"},
           NEW i \in Nat, NEW t \in Nat, NEW s \in Nat
    PROVE  LET c == Started(op, via, i, t, s) IN
           /\ c \in Call
           /\ c.op = op /\ c.via = via /\ c.db = i /\ c.tx = t /\ c.stmt = s
           /\ c.pool = None /\ c.answer = "none"
<1>1. NoCall \in Call
  BY DEF NoCall, Call, None
<1>2. Started(op, via, i, t, s) \in Call
  BY <1>1 DEF Call, Calls, Started
<1>3. QED
  BY <1>2 DEF NoCall, Started

(* A call starts: the switch is read by nobody yet. *)
LEMMA StartKeeps ==
    ASSUME IInv, CInv, NEW op \in Calls, NEW via \in {"db", "tx", "stmt"},
           NEW i \in DOMAIN handles,
           NEW t \in {None} \cup DOMAIN txs, NEW s \in {None} \cup DOMAIN stmts,
           via = "tx" => t # None /\ i = txs[t].db,
           via = "stmt" => s # None /\ i = stmts[s].db,
           Start(op, via, i, t, s)
    PROVE  CInv'
<1>0. Still /\ stmts' = stmts
  BY DEF Start, Still
<1>1. PICK c : c = Started(op, via, i, t, s)
  OBVIOUS
<1>2. /\ c \in Call
      /\ c.op = op /\ c.via = via /\ c.db = i /\ c.tx = t /\ c.stmt = s
      /\ c.pool = None /\ c.answer = "none"
  <2>1. i \in Nat /\ t \in Nat /\ s \in Nat
    BY InUse DEF None
  <2>2. QED
    BY <1>1, <2>1, NewCall
<1>3. PICK x \in BOOLEAN : x = Switch(c) /\ x = dryRun[handles[i].switch]
  <2>1. handles[i].switch \in DOMAIN dryRun /\ dryRun \in Seq(BOOLEAN)
    BY Types DEF IInv, HandlesOk
  <2>2. QED
    BY <1>2, <2>1 DEF Switch
<1>4. PICK at \in {"test", "observe", "send"} :
          /\ at = "observe" => ~TestsFirst(c)
          /\ at = "send" => op = "Tables"
          /\ call' = [c EXCEPT !.at = at, !.on = Switch(c), !.off = ~Switch(c)]
  BY <1>1 DEF Start, Started
<1>5. /\ call' \in Call
      /\ call'.op = op /\ call'.via = via /\ call'.db = i /\ call'.tx = t /\ call'.stmt = s
      /\ call'.at = at /\ call'.on = x /\ call'.off = ~x /\ call'.pool = None
  <2>1. call' = [c EXCEPT !.at = at, !.on = x, !.off = ~x]
    BY <1>3, <1>4
  <2>2. QED
    BY <1>2, <2>1 DEF Call
<1>6. CallOk'
  BY <1>0, <1>5, InUse DEF CallOk, Still, Running
<1>7. SwitchOk'
  <2>1. Switch(call)' = x
    BY <1>0, <1>3, <1>5 DEF Switch, Still
  <2>2. TestsFirst(call)' = TestsFirst(c)
    BY <1>2, <1>5 DEF TestsFirst
  <2>3. call'.at = "observe" => ~TestsFirst(call)'
    BY <1>4, <1>5, <2>2
  <2>4. QED
    BY <1>4, <1>5, <2>1, <2>3 DEF SwitchOk
<1>8. DryRunSendsNothing' /\ AnswersAreTrue'
  BY <1>5 DEF DryRunSendsNothing, AnswersAreTrue
<1>9. QED
  BY <1>0, <1>6, <1>7, <1>8, Settled DEF CInv, Still

(* A call on a handle, which may turn out to be one on a transaction. *)
LEMMA DBCallKeeps ==
    ASSUME IInv, CInv, NEW i \in DOMAIN handles, NEW op \in DBOps,
           NEW t \in {None} \cup DOMAIN txs, DBCall(op, i, t)
    PROVE  CInv'
<1>1. op \in Calls
  BY DEF DBOps, Reads, Calls
<1>2. CASE op \in {"Prepare", "PrepareMaster"} /\ TxFromContext(handles[i], t) # None
  <2>1. t # None /\ t \in DOMAIN txs
    BY <1>2 DEF TxFromContext
  <2>2. txs[t].db \in DOMAIN handles
    BY <2>1 DEF CInv, TxsOk
  <2>3. Start("Prepare", "tx", txs[t].db, t, None)
    BY <1>2 DEF DBCall
  <2>4. "Prepare" \in Calls
    BY DEF Calls
  <2>5. QED
    BY <2>1, <2>2, <2>3, <2>4, StartKeeps
<1>3. CASE ~(op \in {"Prepare", "PrepareMaster"} /\ TxFromContext(handles[i], t) # None)
  <2>1. Start(op, "db", i, t, None)
    BY <1>3 DEF DBCall
  <2>2. QED
    BY <1>1, <2>1, StartKeeps
<1>4. QED
  BY <1>2, <1>3

(* A call on a transaction. *)
LEMMA TxCallKeeps ==
    ASSUME IInv, CInv, NEW t \in DOMAIN txs, NEW op \in TxOps, TxCall(op, t) PROVE CInv'
<1>1. op \in Calls
  BY DEF TxOps, Reads, Calls
<1>2. txs[t].db \in DOMAIN handles /\ t # None
  BY InUse DEF CInv, TxsOk
<1>3. Start(op, "tx", txs[t].db, t, None)
  BY DEF TxCall
<1>4. QED
  BY <1>1, <1>2, <1>3, StartKeeps

(* A call on a statement; without a sql.Stmt it is over at once. *)
LEMMA StmtCallKeeps ==
    ASSUME IInv, CInv, NEW s \in DOMAIN stmts, NEW op \in StmtOps, StmtCall(op, s) PROVE CInv'
<1>1. op \in {"Exec", "Query"} /\ op \in Calls
  BY DEF StmtOps, Calls
<1>2. stmts[s].db \in DOMAIN handles /\ stmts[s].tx \in {None} \cup DOMAIN txs /\ s # None
  BY InUse DEF CInv, StmtsOk
<1>3. CASE stmts[s].pool # None
  <2>1. Start(op, "stmt", stmts[s].db, stmts[s].tx, s)
    BY <1>3 DEF StmtCall
  <2>2. QED
    BY <1>1, <1>2, <2>1, StartKeeps
<1>4. CASE stmts[s].pool = None
  <2>0. Still /\ stmts' = stmts
    BY <1>4 DEF StmtCall, Still
  <2>1. PICK c : c = [NoCall EXCEPT !.op = op, !.via = "stmt", !.db = stmts[s].db, !.stmt = s]
    OBVIOUS
  <2>2. /\ c \in Call /\ c.op = op /\ c.via = "stmt" /\ c.db = stmts[s].db
        /\ c.tx = None /\ c.stmt = s /\ c.pool = None
    <3>1. NoCall \in Call /\ NoCall.tx = None /\ NoCall.pool = None
      BY DEF NoCall, Call, None
    <3>2. stmts[s].db \in Nat /\ s \in Nat
      BY <1>2, InUse
    <3>3. c \in Call
      BY <1>1, <2>1, <3>1, <3>2 DEF Call
    <3>4. QED
      BY <2>1, <3>3 DEF NoCall
  <2>3. PICK x \in BOOLEAN : x = Switch(c)
    <3>1. handles[stmts[s].db].switch \in DOMAIN dryRun /\ dryRun \in Seq(BOOLEAN)
      BY <1>2, Types DEF IInv, HandlesOk
    <3>2. QED
      BY <2>2, <3>1 DEF Switch
  <2>4. PICK a \in {"error", "zero"} :
            call' = [c EXCEPT !.at = "done", !.on = Switch(c), !.off = ~Switch(c), !.answer = a]
    BY <1>4, <2>1 DEF StmtCall
  <2>5. /\ call' \in Call /\ call'.via = "stmt" /\ call'.db = stmts[s].db /\ call'.stmt = s
        /\ call'.tx = None /\ call'.pool = None
        /\ call'.at = "done" /\ call'.on = x /\ call'.off = ~x /\ call'.answer = a
    <3>1. call' = [c EXCEPT !.at = "done", !.on = x, !.off = ~x, !.answer = a]
      BY <2>3, <2>4
    <3>2. QED
      BY <2>2, <3>1 DEF Call
  <2>7. CallOk'
    BY <1>2, <2>0, <2>5 DEF CallOk, Still, Running
  <2>8. SwitchOk' /\ DryRunSendsNothing'
    BY <2>5 DEF SwitchOk, DryRunSendsNothing
  <2>9. AnswersAreTrue'
    BY <1>4, <2>0, <2>5 DEF AnswersAreTrue
  <2>10. QED
    BY <2>0, <2>7, <2>8, <2>9, Settled DEF CInv, Still
<1>5. QED
  BY <1>3, <1>4

(* Where a call under way stands. *)
Underway == call.at \in {"test", "observe", "send"}
Same == call'.op = call.op /\ call'.via = call.via /\ call'.db = call.db /\ call'.tx = call.tx
        /\ call'.stmt = call.stmt /\ call'.on = call.on /\ call'.off = call.off

(* It has gone nowhere yet. *)
LEMMA NotSentYet ==
    ASSUME CInv, Underway PROVE call.pool = None /\ call \in Call /\ Running
  BY DEF CInv, CallOk, Underway, Running

(* The call goes on to its next step. *)
LEMMA GoesOn ==
    ASSUME CInv, Underway, NEW at \in {"observe", "send"}, Still, stmts' = stmts,
           call' = [call EXCEPT !.at = at], ~Switch(call), call.off
    PROVE  CInv'
<1>1. Same /\ call'.at = at /\ call'.pool = None /\ call' \in Call
  BY NotSentYet DEF Call, Same
<1>2. CallOk'
  BY <1>1, NotSentYet DEF CInv, CallOk, Still, Running, Same
<1>3. SwitchOk'
  <2>1. ~Switch(call)'
    BY <1>1 DEF Switch, Still, Same
  <2>2. QED
    BY <1>1, <2>1 DEF SwitchOk, Same
<1>4. DryRunSendsNothing' /\ AnswersAreTrue'
  BY <1>1 DEF DryRunSendsNothing, AnswersAreTrue
<1>5. QED
  BY <1>2, <1>3, <1>4, Settled DEF CInv, Still

Unsent == {"zero", "error", "no rows object", "ErrNoRows", "wrong width"}
MoreStmts ==
    /\ DOMAIN stmts \subseteq DOMAIN stmts'
    /\ \A s \in DOMAIN stmts : stmts'[s] = stmts[s]

(* The call is answered without having been sent. *)
LEMMA IsAnswered ==
    ASSUME CInv, Underway, Still, StmtsOk', MoreStmts, NEW a \in Unsent, Answer(a),
           ~(call.on /\ call.off) =>
               /\ a \notin {"ErrNoRows", "wrong width"}
               /\ a = "no rows object" => call.via = "tx"
               /\ a = "zero" => call.on
    PROVE  CInv'
<1>1. Same /\ call'.at = "done" /\ call'.pool = None /\ call'.answer = a /\ call' \in Call
  BY NotSentYet DEF Call, Same, Answer, Unsent
<1>2. CallOk'
  BY <1>1, NotSentYet DEF CInv, CallOk, Still, Running, Same, MoreStmts
<1>3. SwitchOk' /\ DryRunSendsNothing'
  BY <1>1 DEF SwitchOk, DryRunSendsNothing
<1>4. AnswersAreTrue'
  BY <1>1 DEF AnswersAreTrue, Same
<1>5. TxsOk'
  BY DEF CInv, TxsOk, Still
<1>6. QED
  BY <1>2, <1>3, <1>4, <1>5 DEF CInv

(* A Stmt that is made lies where its call went. *)
LEMMA StmtMade ==
    ASSUME IInv, CInv, Underway, Still, NEW p, Prepared(p),
           p # None => p \in Owned(handles[call.db])
    PROVE  StmtsOk' /\ MoreStmts
<1>1. CASE call.op \notin {"Prepare", "PrepareMaster"}
  BY <1>1 DEF Prepared, CInv, StmtsOk, Still, MoreStmts
<1>2. CASE call.op \in {"Prepare", "PrepareMaster"}
  <2>1. call.db \in DOMAIN handles /\ (call.tx # None => call.tx \in DOMAIN txs)
    BY NotSentYet DEF CInv, CallOk
  <2>2. PICK u \in {None} \cup DOMAIN txs :
            stmts' = Append(stmts, [db |-> call.db, pool |-> p, tx |-> u])
    BY <1>2, <2>1 DEF Prepared
  <2>3. PICK x : x = [db |-> call.db, pool |-> p, tx |-> u]
    OBVIOUS
  <2>4. x \in Stmt
    BY <2>1, <2>3, InUse DEF Stmt, None
  <2>5. x.db = call.db /\ x.pool = p /\ x.tx = u
    BY <2>3
  <2>6. /\ stmts' \in Seq(Stmt) /\ DOMAIN stmts' = DOMAIN stmts \cup {Len(stmts) + 1}
        /\ stmts'[Len(stmts) + 1] = x /\ \A s \in DOMAIN stmts : stmts'[s] = stmts[s]
    BY <2>2, <2>3, <2>4, InUse
  <2>7. StmtsOk'
    BY <2>1, <2>5, <2>6 DEF CInv, StmtsOk, Still
  <2>8. QED
    BY <2>6, <2>7 DEF MoreStmts
<1>3. QED
  BY <1>1, <1>2

(* The test that some calls make first. *)
LEMMA testKeeps ==
    ASSUME IInv, CInv, test PROVE CInv'
<1>1. Underway /\ Still /\ stmts' = stmts
  BY DEF test, Underway, Still
<1>2. CASE Switch(call)
  <2>1. PICK a \in {"error", "zero"} : Answer(a)
    BY <1>2 DEF test
  <2>2. StmtsOk' /\ MoreStmts
    BY <1>1 DEF CInv, StmtsOk, Still, MoreStmts
  <2>3. call.on
    BY <1>1, <1>2 DEF CInv, SwitchOk, Underway
  <2>4. QED
    BY <1>1, <2>1, <2>2, <2>3, IsAnswered DEF Unsent
<1>3. CASE ~Switch(call)
  <2>1. call' = [call EXCEPT !.at = "observe"]
    BY <1>3 DEF test
  <2>2. call.off
    BY <1>1, <1>3 DEF CInv, SwitchOk, Underway
  <2>3. QED
    BY <1>1, <1>3, <2>1, <2>2, GoesOn
<1>4. QED
  BY <1>2, <1>3

(* The test that observe makes of every call but the catalog's. *)
LEMMA observeKeeps ==
    ASSUME IInv, CInv, observe PROVE CInv'
<1>1. Underway /\ Still /\ call.at = "observe"
  BY DEF observe, Underway, Still
<1>2. CASE Switch(call)
  <2>1. Answer(Unrun) /\ Prepared(None)
    BY <1>2 DEF observe
  <2>2. StmtsOk' /\ MoreStmts
    BY <1>1, <2>1, StmtMade
  <2>3. call.on /\ (TestsFirst(call) => call.off)
    BY <1>1, <1>2 DEF CInv, SwitchOk
  <2>4. /\ Unrun \in Unsent
        /\ Unrun \in {"ErrNoRows", "wrong width"} => TestsFirst(call)
        /\ Unrun = "no rows object" /\ call.via # "tx" => TestsFirst(call)
    BY DEF Unrun, Unsent, TestsFirst
  <2>5. QED
    BY <1>1, <2>1, <2>2, <2>3, <2>4, IsAnswered
<1>3. CASE ~Switch(call)
  <2>1. call' = [call EXCEPT !.at = "send"] /\ stmts' = stmts
    BY <1>3 DEF observe
  <2>2. call.off
    BY <1>1, <1>3 DEF CInv, SwitchOk
  <2>3. QED
    BY <1>1, <1>3, <2>1, <2>2, GoesOn
<1>4. QED
  BY <1>2, <1>3

(* A statement goes to a pool of its handle, or to where it was prepared. *)
LEMMA TargetIsOwned ==
    ASSUME IInv, CInv, Underway, NEW p \in Target, p # None
    PROVE  p \in Owned(handles[call.db])
<1>1. /\ call.db \in DOMAIN handles
      /\ call.tx # None => call.tx \in DOMAIN txs
      /\ call.via = "tx" => call.tx # None /\ call.db = txs[call.tx].db
      /\ call.via = "stmt" => call.stmt \in DOMAIN stmts /\ call.db = stmts[call.stmt].db
  BY NotSentYet DEF CInv, CallOk
<1>2. CASE call.via = "tx" /\ p = txs[call.tx].pool
  BY <1>1, <1>2 DEF CInv, TxsOk
<1>3. CASE call.via = "stmt" /\ p = stmts[call.stmt].pool
  BY <1>1, <1>3 DEF CInv, StmtsOk
<1>4. CASE p \in writeDB(handles[call.db]) \cup readDB(handles[call.db])
  BY <1>4, Chosen
<1>5. CASE TxFromContext(handles[call.db], call.tx) # None /\ p = txs[call.tx].pool
  BY <1>1, <1>5, JoinedTx DEF CInv
<1>6. QED
  BY <1>2, <1>3, <1>4, <1>5 DEF Target

(* It is sent, or what it is sent to is closed. *)
LEMMA sendKeeps ==
    ASSUME IInv, CInv, send PROVE CInv'
<1>1. Underway /\ Still /\ call.at = "send"
  BY DEF send, Underway, Still
<1>2. PICK p \in Target :
          IF Alive(p)
          THEN /\ call' = [call EXCEPT !.at = "done", !.pool = p, !.answer = "answered"]
               /\ Prepared(p)
          ELSE Answer("error") /\ UNCHANGED stmts
  BY DEF send
<1>3. p # None => p \in Owned(handles[call.db])
  BY <1>1, TargetIsOwned
<1>4. CASE Alive(p)
  <2>1. /\ call' = [call EXCEPT !.at = "done", !.pool = p, !.answer = "answered"]
        /\ Prepared(p)
    BY <1>2, <1>4
  <2>2. StmtsOk' /\ MoreStmts
    BY <1>1, <1>3, <2>1, StmtMade
  <2>3. p \in Nat
    <3>1. call.db \in DOMAIN handles
      BY <1>1, NotSentYet DEF CInv, CallOk
    <3>2. QED
      BY <1>3, <3>1, InUse DEF None
  <2>4. /\ Same /\ call'.at = "done" /\ call'.pool = p /\ call'.answer = "answered"
        /\ call' \in Call
    BY <1>1, <2>1, <2>3, NotSentYet DEF Call, Same
  <2>5. CallOk'
    BY <1>1, <1>3, <2>2, <2>4, NotSentYet DEF CInv, CallOk, Still, Running, Same, MoreStmts
  <2>6. SwitchOk' /\ AnswersAreTrue'
    BY <2>4 DEF SwitchOk, AnswersAreTrue
  <2>7. DryRunSendsNothing'
    BY <1>1, <2>4 DEF CInv, SwitchOk, DryRunSendsNothing, Same
  <2>8. TxsOk'
    BY <1>1 DEF CInv, TxsOk, Still
  <2>9. QED
    BY <2>2, <2>5, <2>6, <2>7, <2>8 DEF CInv
<1>5. CASE ~Alive(p)
  <2>1. Answer("error") /\ stmts' = stmts
    BY <1>2, <1>5
  <2>2. StmtsOk' /\ MoreStmts
    BY <1>1, <2>1 DEF CInv, StmtsOk, Still, MoreStmts
  <2>3. "error" \in Unsent
    BY DEF Unsent
  <2>4. QED
    BY <1>1, <2>1, <2>2, <2>3, IsAnswered
<1>6. QED
  BY <1>4, <1>5

(* The caller has the answer. *)
LEMMA ReturnKeeps ==
    ASSUME IInv, CInv, Return PROVE CInv'
<1>1. Still /\ stmts' = stmts /\ call' = NoCall
  BY DEF Return, Still
<1>2. NoCall \in Call /\ NoCall.at = "none" /\ NoCall.pool = None
  BY DEF NoCall, Call, None
<1>3. CallOk' /\ SwitchOk' /\ DryRunSendsNothing' /\ AnswersAreTrue'
  BY <1>1, <1>2 DEF CallOk, Running, SwitchOk, DryRunSendsNothing, AnswersAreTrue
<1>4. QED
  BY <1>1, <1>3, Settled DEF CInv, Still

(* Dry run is turned on or off, by any goroutine: the call that is under way remembers it. *)
LEMMA SetDryRunKeeps ==
    ASSUME IInv, CInv, NEW k \in DOMAIN dryRun, NEW enabled \in BOOLEAN, SetDryRun(k, enabled)
    PROVE  CInv'
<1>1. /\ handles' = handles /\ txs' = txs /\ stmts' = stmts /\ call.at # "done"
      /\ dryRun' = [dryRun EXCEPT ![k] = enabled] /\ dryRun \in Seq(BOOLEAN)
  BY Types DEF SetDryRun
<1>2. TxsOk' /\ StmtsOk'
  BY <1>1, Settled
<1>3. call \in Call /\ call.pool = None
  BY <1>1 DEF CInv, CallOk
<1>4. CASE Running /\ handles[call.db].switch = k
  <2>1. call # NoCall
    BY <1>4 DEF Running, NoCall
  <2>2. call' = [call EXCEPT !.on = @ \/ enabled, !.off = @ \/ ~enabled]
    BY <1>4, <2>1 DEF SetDryRun
  <2>3. PICK on, off \in BOOLEAN :
            /\ call' = [call EXCEPT !.on = on, !.off = off]
            /\ on <=> (call.on \/ enabled)
            /\ off <=> (call.off \/ ~enabled)
    BY <1>3, <2>2 DEF Call
  <2>4. /\ call' \in Call /\ call'.on = on /\ call'.off = off /\ call'.at = call.at
        /\ call'.op = call.op /\ call'.via = call.via /\ call'.db = call.db
        /\ call'.tx = call.tx /\ call'.stmt = call.stmt /\ call'.pool = None
    BY <1>3, <2>3 DEF Call
  <2>5. CallOk'
    BY <1>1, <2>4 DEF CInv, CallOk, Running
  <2>6. Switch(call)' = enabled
    BY <1>1, <1>4, <2>4 DEF Switch
  <2>7. TestsFirst(call)' = TestsFirst(call)
    BY <2>4 DEF TestsFirst
  <2>8. SwitchOk'
    BY <2>3, <2>4, <2>6, <2>7 DEF CInv, SwitchOk
  <2>9. DryRunSendsNothing' /\ AnswersAreTrue'
    BY <1>1, <2>4 DEF DryRunSendsNothing, AnswersAreTrue
  <2>10. QED
    BY <1>2, <2>5, <2>8, <2>9 DEF CInv
<1>5. CASE Running /\ handles[call.db].switch # k
  <2>1. call' = call
    BY <1>5 DEF SetDryRun
  <2>2. Switch(call)' = Switch(call)
    BY <1>1, <1>5, <2>1 DEF Switch
  <2>3. CallOk' /\ SwitchOk'
    BY <1>1, <2>1, <2>2 DEF CInv, CallOk, Running, SwitchOk, TestsFirst
  <2>4. DryRunSendsNothing' /\ AnswersAreTrue'
    BY <1>1, <1>3, <2>1 DEF DryRunSendsNothing, AnswersAreTrue
  <2>5. QED
    BY <1>2, <2>3, <2>4 DEF CInv
<1>6. CASE ~Running
  <2>1. call' \in Call /\ call'.at = "none" /\ call'.pool = None
    <3>1. call.at = "none"
      BY <1>6 DEF Running
    <3>2. call' = call \/ call' = [call EXCEPT !.on = @ \/ enabled, !.off = @ \/ ~enabled]
      BY DEF SetDryRun
    <3>3. QED
      BY <1>3, <3>1, <3>2 DEF Call
  <2>2. QED
    BY <1>2, <2>1 DEF CInv, CallOk, Running, SwitchOk, DryRunSendsNothing, AnswersAreTrue
<1>7. QED
  BY <1>4, <1>5, <1>6

(* Every step keeps what is said of the calls. *)
LEMMA CallStep ==
    ASSUME IInv, CInv, [Next]_vars PROVE CInv'
<1>1. CASE UNCHANGED vars
  <2>1. Grown /\ UNCHANGED <<txs, stmts, call>>
    BY <1>1 DEF vars, Grown
  <2>2. QED
    BY <2>1, GrownKeeps
<1>2. CASE Makes
  BY <1>2, MakesGrow, GrownKeeps
<1>3. CASE Next
  BY <1>2, <1>3, BeginTxKeeps, EndTxKeeps, DBCallKeeps, TxCallKeeps, StmtCallKeeps, testKeeps,
     observeKeeps, sendKeeps, ReturnKeeps, SetDryRunKeeps DEF Next, Makes
<1>4. QED
  BY <1>1, <1>3

(* The invariant of the calls holds. *)
LEMMA CInvHolds ==
    Spec => []CInv
<1>1. Init => CInv
  <2> SUFFICES ASSUME Init PROVE CInv
    OBVIOUS
  <2>1. txs = <<>> /\ stmts = <<>> /\ call = NoCall
    BY DEF Init
  <2>2. NoCall \in Call /\ NoCall.at = "none" /\ NoCall.pool = None
    BY DEF NoCall, Call, None
  <2>3. QED
    BY <2>1, <2>2 DEF CInv, TxsOk, StmtsOk, CallOk, Running, SwitchOk, DryRunSendsNothing,
                      AnswersAreTrue
<1>2. IInv /\ CInv /\ [Next]_vars => CInv'
  BY CallStep
<1>3. QED
  BY <1>1, <1>2, IInvHolds, PTL DEF Spec

(* The pools, handles, views, switches, transactions and prepared statements *)
(* that the constructors and calls of db/ make have their types, for any     *)
(* configurations.                                                           *)
THEOREM TypesHold ==
    Spec => []TypeOK
<1>1. IInv /\ CInv => TypeOK
  <2> SUFFICES ASSUME IInv, CInv PROVE TypeOK
    OBVIOUS
  <2>1. opening \in Seq(Opening) /\ Len(opening) <= 1
    <3>1. opening = <<>> \/ \E o \in Opening : opening = <<o>>
      BY DEF IInv, Structure
    <3>2. CASE opening = <<>>
      BY <3>2
    <3>3. ASSUME NEW o \in Opening, opening = <<o>>
          PROVE  opening \in Seq(Opening) /\ Len(opening) <= 1
      BY <3>3
    <3>4. QED
      BY <3>1, <3>2, <3>3
  <2>2. QED
    BY <2>1 DEF IInv, Structure, CInv, TxsOk, StmtsOk, CallOk, TypeOK
<1>2. QED
  BY <1>1, IInvHolds, CInvHolds, PTL

(* A statement goes to a pool of its own handle and schema: through every    *)
(* route view, with any transaction in its context, and prepared or not      *)
(* (db.go:303-345, 511-541, stmt.go:38-129).                                 *)
THEOREM StatementsStay ==
    Spec => []StatementStaysInItsSchema
<1>1. IInv /\ CInv => StatementStaysInItsSchema
  BY DEF IInv, HandlesOk, OwnsItsOwn, CInv, CallOk, Running, StatementStaysInItsSchema
<1>2. QED
  BY <1>1, IInvHolds, CInvHolds, PTL

(* Whenever other goroutines turn dry run on and off, a call sends a         *)
(* statement only if it was off at some moment of the call                   *)
(* (runtime.go:37-83).                                                       *)
THEOREM DryRunIsQuiet ==
    Spec => []DryRunSendsNothing
<1>1. CInv => DryRunSendsNothing
  BY DEF CInv
<1>2. QED
  BY <1>1, CInvHolds, PTL

(* What a call says of the data comes from the database, unless dry run was  *)
(* turned while it ran (db.go:347-420, value.go, stmt.go:67-129).            *)
THEOREM AnswersHold ==
    Spec => []AnswersAreTrue
<1>1. CInv => AnswersAreTrue
  BY DEF CInv
<1>2. QED
  BY <1>1, CInvHolds, PTL
=============================================================================

------------------------------ MODULE DmlProofs ------------------------------
(***************************************************************************)
(* Proofs about Dml and DmlExec, for any inputs.  An execution changes no   *)
(* table but its builder's, and rows of tenant tables keep their tenants.   *)
(*                                                                          *)
(* The first result goes along a statement: it begins in a context where    *)
(* the builder's table has its own name, every part leaves that scope as    *)
(* it was (RenderingKeeps), so the statement, with all its clauses in any   *)
(* dialect's order, names that table, and what the database does with it    *)
(* is done to that table.  The calls that build it, and clones, keep heaps  *)
(* whose expressions end.                                                   *)
(*                                                                          *)
(* The second goes along it once more, for what its parts are: the          *)
(* predicate of the tenants is a part of its WHERE that no other condition  *)
(* weakens (Guards), what it assigns is no tenant (SetsKeep), and the rows  *)
(* of an INSERT have the one tenant in force (RowOfOne).  What the database *)
(* does with such statements is in QueryProofs.                             *)
(***************************************************************************)
EXTENDS DmlExec, QueryProofs

-----------------------------------------------------------------------------
(* Builders. *)

(* The columns, and a written one whose value is an expression of L. *)
ColumnNames == {"TID", "del", "id", "ref", "tid"}
Written(L) == [col : ColumnNames, v : L]

DMLFields ==
    {"kind", "table", "insertColumns", "insertRows", "batch", "setValues", "batchUpdateRows",
     "updateKeys", "selectBuilder", "conds", "unscoped", "untenant", "hasTenantIDs", "tenantIDs",
     "ctxTenant", "upsert", "joins", "returning", "shard", "err"}

(* A conflict clause whose values are expressions of L, or none.            *)
ClauseIn(L, c) ==
    DOMAIN c = {"nothing", "cols", "updates"} /\ \A k \in DOMAIN c.updates : c.updates[k] \in L
UpsertIn(L, u) == u = <<>> \/ \E c : u = <<c>> /\ ClauseIn(L, c)

(* A DML builder whose parts are made of the expressions of L.              *)
DmlIn(L, b) ==
    /\ DOMAIN b = DMLFields /\ b.kind \in All /\ b.batch \in Int
    /\ b.insertRows \in Seq(Seq(Written(L))) /\ b.batchUpdateRows \in Seq(Seq(Written(L)))
    /\ b.setValues \in Seq(Written(L)) /\ b.insertColumns \in Seq(ColumnNames)
    /\ b.conds \in Seq(L) /\ b.returning \in Seq(L)
    /\ Sequence(b.joins) /\ \A i \in DOMAIN b.joins : JoinIn(L, b.joins[i])
    /\ b.hasTenantIDs => Sequence(b.tenantIDs)
    /\ b.selectBuilder # 0 \/ b.kind = "insertFrom" => Sub(b.selectBuilder) \in L
    /\ UpsertIn(L, b.upsert)
    /\ Col(b.table, "id") \in L /\ Val(1) \in L

(* What is made of fewer expressions is made of more. *)
LEMMA DmlInMore ==
    ASSUME NEW L, NEW M, L \subseteq M, NEW b, DmlIn(L, b)
    PROVE  DmlIn(M, b)
<1>1. PICK V, W : V = Written(L) /\ W = Written(M)
  OBVIOUS
<1>2. V \subseteq W
  BY <1>1 DEF Written
<1>3. \A s \in Seq(V) : s \in Seq(W)
  BY <1>2, SeqMonotonic
<1>4. PICK VV, WW : VV = Seq(V) /\ WW = Seq(W)
  OBVIOUS
<1>5. \A s \in Seq(VV) : s \in Seq(WW)
  <2>1. VV \subseteq WW
    BY <1>3, <1>4
  <2>2. QED
    BY <2>1, SeqMonotonic
<1>6. b.insertRows \in Seq(WW) /\ b.batchUpdateRows \in Seq(WW) /\ b.setValues \in Seq(W)
  BY <1>1, <1>3, <1>4, <1>5 DEF DmlIn
<1>7. b.conds \in Seq(M) /\ b.returning \in Seq(M) /\ \A i \in DOMAIN b.joins : JoinIn(M, b.joins[i])
  BY InMore DEF DmlIn
<1>8. UpsertIn(M, b.upsert)
  BY DEF DmlIn, UpsertIn, ClauseIn
<1>9. QED
  BY <1>1, <1>4, <1>6, <1>7, <1>8 DEF DmlIn

(* The expressions of written columns. *)
LEMMA WrittenValues ==
    ASSUME NEW L, NEW sets \in Seq(Written(L))
    PROVE  [i \in DOMAIN sets |-> sets[i].v] \in Seq(L)
<1>1. PICK n \in Nat : DOMAIN sets = 1 .. n /\ \A i \in 1 .. n : sets[i] \in Written(L)
  <2>1. Len(sets) \in Nat /\ DOMAIN sets = 1 .. Len(sets) /\ \A i \in 1 .. Len(sets) : sets[i] \in Written(L)
    BY LenProperties, ElementOfSeq
  <2>2. QED
    BY <2>1
<1>2. PICK f : f = [i \in 1 .. n |-> sets[i].v]
  OBVIOUS
<1>3. f \in [1 .. n -> L]
  BY <1>1, <1>2 DEF Written
<1>4. f \in Seq(L)
  BY <1>3, IsASeq
<1>5. QED
  BY SMTT(30), <1>1, <1>2, <1>4

(* A DML builder is no query, so it may change without changing any.        *)
LEMMA OtherBuilder ==
    ASSUME NEW h, NEW T, NEW rank, HeapOver(h, T, rank), NEW id \in DOMAIN h, IsDML(h[id]), NEW b
    PROVE  HeapOver([h EXCEPT ![id] = b], T, rank)
<1>1. PICK g : g = [h EXCEPT ![id] = b]
  OBVIOUS
<1>2. DOMAIN g = DOMAIN h /\ \A i \in DOMAIN h : i # id => g[i] = h[i]
  BY <1>1
<1>3. Sequence(g)
  <2>1. PICK n \in Nat : h = [i \in 1 .. n |-> h[i]]
    BY DEF HeapOver, Sequence
  <2>2. g = [i \in 1 .. n |-> g[i]]
    BY <1>1, <2>1
  <2>3. QED
    BY <2>2 DEF Sequence
<1>4. \A e \in T : e.k = "sub" => e.a \in DOMAIN h /\ e.a # id /\ QueryShaped(h[e.a])
  <2>1. ~QueryShaped(h[id])
    BY DEF QueryShaped, QueryFields, IsDML
  <2>2. QED
    BY <2>1 DEF HeapOver
<1>5. \A e \in T : e.k = "sub" => g[e.a] = h[e.a]
  BY <1>2, <1>4
<1>6. Ranked(g, T, rank)
  BY <1>5 DEF HeapOver, Ranked, ExpressionIn
<1>7. HeapOver(g, T, rank)
  BY <1>2, <1>3, <1>4, <1>5, <1>6 DEF HeapOver
<1>8. QED
  BY <1>1, <1>7

-----------------------------------------------------------------------------
(* The context of a statement. *)

(* The table a statement of b may change. *)
Target(b) ==
    LET base == Bases[b.table]
        given == IF base.own # NoShard THEN base.own ELSE b.shard
    IN IF base.sharded THEN ShardingRule(b.table, given) ELSE <<base.table>>

(* Installing the tenants of a builder leaves its table and its shard.      *)
LEMMA InstalledTenant ==
    ASSUME NEW rc, IsContext(rc), rc.shardNames = <<>>, NEW b, b.hasTenantIDs => IsList(b.tenantIDs)
    PROVE  LET r == installTenant(rc, b) IN
           /\ DOMAIN r = ContextFields /\ IsList(r.tenantIDs) /\ r.err = rc.err
           /\ r.shardNames = <<>> /\ r.mainTable = rc.mainTable /\ r.queryShard = rc.queryShard
<1>1. PICK s : s = seedTenant(rc, b.ctxTenant)
  OBVIOUS
<1>2. /\ DOMAIN s = ContextFields /\ IsList(s.tenantIDs) /\ s.err = rc.err
      /\ s.shardNames = <<>> /\ s.mainTable = rc.mainTable /\ s.queryShard = rc.queryShard
  <2>1. CASE b.ctxTenant # NoTenant
    <3>1. PICK ids : ids = <<b.ctxTenant>>
      OBVIOUS
    <3>2. s = [rc EXCEPT !.tenantHas = TRUE, !.tenantIDs = ids]
      BY <1>1, <2>1, <3>1 DEF seedTenant, SetTenant
    <3>3. IsList(ids)
      <4>1. DOMAIN ids = 1 .. 1 /\ 1 \in Nat
        BY <3>1
      <4>2. QED
        BY <4>1 DEF IsList
    <3>4. QED
      BY <3>2, <3>3 DEF IsContext, ContextFields
  <2>2. CASE b.ctxTenant = NoTenant
    BY <1>1, <2>2 DEF seedTenant, IsContext
  <2>3. QED
    BY <2>1, <2>2
<1>3. CASE b.untenant
  <2>1. PICK r : r = [s EXCEPT !.tenantDisabled = TRUE]
    OBVIOUS
  <2>2. installTenant(rc, b) = r
    BY <1>1, <1>3, <2>1 DEF installTenant, PushTenantDisabled
  <2>3. QED
    BY <1>2, <2>1, <2>2 DEF ContextFields
<1>4. CASE ~b.untenant /\ b.hasTenantIDs
  <2>1. PICK r : r = [s EXCEPT !.tenantHas = TRUE, !.tenantDisabled = FALSE, !.tenantIDs = b.tenantIDs]
    OBVIOUS
  <2>2. installTenant(rc, b) = r
    BY <1>1, <1>4, <2>1 DEF installTenant, PushTenant
  <2>3. QED
    BY <1>2, <1>4, <2>1, <2>2 DEF ContextFields
<1>5. CASE ~b.untenant /\ ~b.hasTenantIDs
  <2>1. installTenant(rc, b) = s
    BY <1>1, <1>5 DEF installTenant
  <2>2. QED
    BY <1>2, <2>1
<1>6. QED
  BY <1>3, <1>4, <1>5

(* A statement begins in a context in which its table has its own name.     *)
LEMMA BegunContext ==
    ASSUME NEW L, NEW h, NEW id, DmlIn(L, h[id]), NEW d
    PROVE  /\ IsContext(Begun(h, id, d))
           /\ NameIn(Begun(h, id, d), h[id].table) = Target(h[id])
<1>1. PICK b : b = h[id]
  OBVIOUS
<1>2. PICK r0 : r0 = NewRenderContext(d)
  OBVIOUS
<1>3. DOMAIN r0 = ContextFields /\ r0.err = "" /\ r0.tenantIDs = <<>>
  BY <1>2 DEF NewRenderContext, ContextFields
<1>4. PICK r1 : r1 = SwapQueryShard(r0, b.shard)
  OBVIOUS
<1>5. /\ DOMAIN r1 = ContextFields /\ r1.err = "" /\ r1.shardNames = <<>>
      /\ r1.queryShard = b.shard /\ r1.tenantIDs = <<>>
  BY <1>3, <1>4 DEF SwapQueryShard, ContextFields
<1>6. PICK r2 : r2 = [r1 EXCEPT !.mainTable = b.table]
  OBVIOUS
<1>7. /\ DOMAIN r2 = ContextFields /\ r2.err = "" /\ r2.shardNames = <<>>
      /\ r2.queryShard = b.shard /\ r2.mainTable = b.table /\ r2.tenantIDs = <<>>
  BY <1>5, <1>6 DEF ContextFields
<1>8. r2 = installShard(r0, b)
  BY <1>4, <1>6 DEF installShard
<1>9. IsContext(r2)
  <2>1. DOMAIN r2.shardNames = {}
    <3>1. r2.shardNames = <<>>
      BY <1>7
    <3>2. QED
      BY <3>1
  <2>2. DOMAIN r2.tenantIDs = 1 .. 0 /\ 0 \in Nat
    <3>1. r2.tenantIDs = <<>>
      BY <1>7
    <3>2. DOMAIN r2.tenantIDs = {} /\ {} = 1 .. 0
      BY <3>1
    <3>3. QED
      BY <3>2
  <2>3. QED
    BY <1>7, <2>1, <2>2 DEF IsContext, IsList, NamesRight
<1>10. PICK r3 : r3 = installTenant(r2, b)
  OBVIOUS
<1>11. /\ DOMAIN r3 = ContextFields /\ IsList(r3.tenantIDs) /\ r3.err = ""
       /\ r3.shardNames = <<>> /\ r3.mainTable = b.table /\ r3.queryShard = b.shard
  <2>1. b.hasTenantIDs => IsList(b.tenantIDs)
    BY <1>1, SequenceOf DEF DmlIn
  <2>2. r2.shardNames = <<>> /\ r2.err = "" /\ r2.mainTable = b.table /\ r2.queryShard = b.shard
    BY <1>7
  <2>3. QED
    BY <1>9, <1>10, <2>1, <2>2, InstalledTenant
<1>12. PICK r4 : r4 = [r3 EXCEPT !.path = <<id>>]
  OBVIOUS
<1>13. /\ DOMAIN r4 = ContextFields /\ IsList(r4.tenantIDs) /\ r4.err = ""
       /\ r4.shardNames = <<>> /\ r4.mainTable = b.table /\ r4.queryShard = b.shard
  BY <1>11, <1>12 DEF ContextFields
<1>14. IsContext(r4)
  <2>1. DOMAIN r4.shardNames = {}
    <3>1. r4.shardNames = <<>>
      BY <1>13
    <3>2. QED
      BY <3>1
  <2>2. QED
    BY <1>13, <2>1 DEF IsContext, NamesRight
<1>15. NameIn(r4, b.table) = Target(b)
  BY <1>13 DEF NameIn, shardValueFor, Target, ShardingRule
<1>16. r4 = Begun(h, id, d)
  BY <1>1, <1>2, <1>8, <1>10, <1>12 DEF Begun
<1>17. QED
  BY <1>1, <1>14, <1>15, <1>16

-----------------------------------------------------------------------------
(* The parts of statements. *)

(* Assignments are rendered. *)
LEMMA RenderSetsKeeps ==
    ASSUME NEW h, NEW L, KeepsIn(h, L), NEW rc, IsContext(rc), NEW sets \in Seq(Written(L))
    PROVE  Keeps(rc, renderSets(h, rc, sets).rc)
<1>1. PICK es : es = [i \in DOMAIN sets |-> sets[i].v]
  OBVIOUS
<1>2. es \in Seq(L)
  BY <1>1, WrittenValues
<1>3. renderSets(h, rc, sets).rc = RenderAll(h, rc, es).rc
  BY <1>1 DEF renderSets, SetNodes, Out
<1>4. QED
  BY <1>2, <1>3, RenderAllKeeps

(* A join of an UPDATE or a DELETE is rendered, with the tenant's predicate *)
(* in its ON when it is an outer join,                                      *)
LEMMA JoinOnCondKeeps ==
    ASSUME NEW h, NEW L, KeepsIn(h, L), NEW t, IsContext(t.rc), NEW j, JoinIn(L, j)
    PROVE  Keeps(t.rc, JoinOnCond(h, j, t).rc)
<1>1. PICK on : on = Parenthesized(RenderAll(h, t.rc, j.on))
  OBVIOUS
<1>2. Keeps(t.rc, on.rc)
  BY <1>1, ParenthesizedKeeps DEF JoinIn
<1>3. Keeps(on.rc, TenantOfOuter(on, j).rc)
  BY <1>2, KeptContext, KeepsSelf, AddTenantKeeps DEF TenantOfOuter
<1>4. JoinOnCond(h, j, t).rc = TenantOfOuter(on, j).rc
  BY <1>1 DEF JoinOnCond, Joined, renderJoinCond, Conditions, Out
<1>5. QED
  BY <1>2, <1>3, <1>4, KeepsOn

PushJoined(x, acc, j) == Push(acc, JoinOnCond(x.h, j, renderTableName(x.h, acc.rc, j.table)))
JoinedFold == INSTANCE FoldLemmas WITH Step <- PushJoined, Inv <- KeptSoFar

(* and so are all of them.                                                  *)
LEMMA JoinRendersKeep ==
    ASSUME NEW h, NEW L, KeepsIn(h, L), NEW rc, IsContext(rc), NEW b,
           IsList(b.joins), \A i \in DOMAIN b.joins : JoinIn(L, b.joins[i])
    PROVE  Keeps(rc, joinRenders(h, rc, b).rc)
<1>1. PICK x : x = [rc |-> rc, h |-> h]
  OBVIOUS
<1>2. PICK n \in Nat : DOMAIN b.joins = 1 .. n
  BY DEF IsList
<1>3. KeptSoFar(x, 0, Begin(rc))
  BY <1>1, KeepsSelf DEF KeptSoFar, Begin
<1>4. ASSUME NEW i \in 1 .. n, NEW a, KeptSoFar(x, i - 1, a)
      PROVE  KeptSoFar(x, i, PushJoined(x, a, b.joins[i]))
  <2>1. Keeps(x.rc, a.rc) /\ IsContext(a.rc)
    BY <1>4, KeptContext DEF KeptSoFar
  <2>2. PICK j : j = b.joins[i]
    OBVIOUS
  <2>3. JoinIn(L, j)
    BY <1>2, <2>2
  <2>4. PICK t : t = renderTableName(h, a.rc, j.table)
    OBVIOUS
  <2>5. Keeps(a.rc, t.rc)
    BY <2>1, <2>3, <2>4, TableNameKeeps DEF JoinIn
  <2>6. Keeps(t.rc, JoinOnCond(h, j, t).rc)
    BY <2>3, <2>5, KeptContext, JoinOnCondKeeps
  <2>7. PushJoined(x, a, j).rc = JoinOnCond(h, j, t).rc
    BY <1>1, <2>4 DEF PushJoined, Push
  <2>8. Keeps(x.rc, PushJoined(x, a, j).rc)
    BY <2>1, <2>5, <2>6, <2>7, KeepsOn
  <2>9. QED
    BY <2>2, <2>8 DEF KeptSoFar
<1>5. KeptSoFar(x, n, JoinedFold!Folded(x, Begin(rc), b.joins))
  BY <1>2, <1>3, <1>4, LeastNumber, JoinedFold!FoldInduction DEF JoinedFold!LeastNumber
<1>6. joinRenders(h, rc, b) = JoinedFold!Folded(x, Begin(rc), b.joins)
  BY <1>1 DEF joinRenders, JoinedFold!Folded, PushJoined, FoldLeft, MapThenFoldSet, Max, JoinedFold!Last
<1>7. QED
  BY <1>1, <1>5, <1>6 DEF KeptSoFar

AddTenantOf(x, acc, t) == AddTenant(acc, t)
TenantFold == INSTANCE FoldLemmas WITH Step <- AddTenantOf, Inv <- KeptSoFar

(* The WHERE of an UPDATE or a DELETE, with the tenants' predicates.        *)
LEMMA DmlWhereKeeps ==
    ASSUME NEW h, NEW L, KeepsIn(h, L), NEW rc, IsContext(rc), NEW b,
           IsList(b.joins), b.conds \in Seq(L)
    PROVE  Keeps(rc, dmlWhere(h, rc, b).rc)
<1>1. PICK is : is = {i \in DOMAIN b.joins : joinSoftDeleteInWhere(b.joins[i].kind)}
  OBVIOUS
<1>2. PICK inner : inner = Chosen(b.joins, is)
  OBVIOUS
<1>3. PICK main : main = TableRef("base", b.table)
  OBVIOUS
<1>4. PICK tables : tables = <<main>> \o [i \in DOMAIN inner |-> inner[i].table]
  OBVIOUS
<1>5. PICK n \in Nat : DOMAIN tables = 1 .. n
  <2>1. is \in SUBSET DOMAIN b.joins
    BY <1>1
  <2>2. IsList(inner)
    BY <1>2, <2>1, ChosenListed
  <2>3. IsList(tables)
    BY <1>4, <2>2, TablesListed
  <2>4. QED
    BY <2>3 DEF IsList
<1>6. PICK c : c = checkTenantJoins(rc, main, b.joins)
  OBVIOUS
<1>7. Keeps(rc, c)
  BY <1>6, ChecksKeep
<1>8. PICK acc : acc = Parenthesized(RenderAll(h, c, b.conds))
  OBVIOUS
<1>9. Keeps(rc, acc.rc)
  BY <1>7, <1>8, KeptContext, ParenthesizedKeeps, KeepsOn
<1>10. PICK x : x = [rc |-> rc]
  OBVIOUS
<1>11. KeptSoFar(x, 0, acc)
  BY <1>9, <1>10 DEF KeptSoFar
<1>12. ASSUME NEW i \in 1 .. n, NEW a, KeptSoFar(x, i - 1, a)
       PROVE  KeptSoFar(x, i, AddTenantOf(x, a, tables[i]))
  <2>1. Keeps(x.rc, a.rc) /\ IsContext(a.rc)
    BY <1>12, KeptContext DEF KeptSoFar
  <2>2. Keeps(x.rc, AddTenant(a, tables[i]).rc)
    BY <2>1, AddTenantKeeps, KeepsOn
  <2>3. QED
    BY <2>2 DEF KeptSoFar, AddTenantOf
<1>13. KeptSoFar(x, n, TenantFold!Folded(x, acc, tables))
  BY <1>5, <1>11, <1>12, LeastNumber, TenantFold!FoldInduction DEF TenantFold!LeastNumber
<1>14. FoldLeft(AddTenant, acc, tables) = TenantFold!Folded(x, acc, tables)
  BY SMTT(30) DEF TenantFold!Folded, AddTenantOf, FoldLeft, MapThenFoldSet, Max, TenantFold!Last
<1>15. dmlWhere(h, rc, b).rc = FoldLeft(AddTenant, acc, tables).rc
  BY <1>1, <1>2, <1>3, <1>4, <1>6, <1>8 DEF dmlWhere, Filter, Conditions, Out
<1>16. QED
  BY <1>10, <1>13, <1>14, <1>15 DEF KeptSoFar

-----------------------------------------------------------------------------
(* Rows and their values. *)

(* What is chosen of a sequence is made of its elements. *)
LEMMA ChosenIn ==
    ASSUME NEW T, NEW s \in Seq(T), NEW is \in SUBSET DOMAIN s
    PROVE  Chosen(s, is) \in Seq(T)
<1>1. PICK n \in Nat : DOMAIN s = 1 .. n /\ \A i \in 1 .. n : s[i] \in T
  <2>1. Len(s) \in Nat /\ DOMAIN s = 1 .. Len(s) /\ \A i \in 1 .. Len(s) : s[i] \in T
    BY LenProperties, ElementOfSeq
  <2>2. QED
    BY <2>1
<1>2. PICK c : c = Chosen(s, is)
  OBVIOUS
<1>3. PICK m \in Nat : m = Cardinality(is)
  BY <1>1, ChosenAre
<1>4. c = [k \in 1 .. m |-> c[k]] /\ \A k \in 1 .. m : \E i \in is : c[k] = s[i]
  BY SMTT(30), <1>1, <1>2, <1>3, ChosenAre
<1>5. \A k \in 1 .. m : c[k] \in T
  BY <1>1, <1>4
<1>6. c \in Seq(T)
  BY <1>4, <1>5, IsASeq
<1>7. QED
  BY SMTT(30), <1>2, <1>6

OnceMore(x, acc, c) == IF Contains(acc, c) THEN acc ELSE Append(acc, c)
Listing(x, i, acc) == acc \in Seq(x.T)
OnceFold == INSTANCE FoldLemmas WITH Step <- OnceMore, Inv <- Listing

(* So is what is left when repetitions are dropped. *)
LEMMA OnceIn ==
    ASSUME NEW T, NEW s \in Seq(T)
    PROVE  Once(s) \in Seq(T)
<1>1. PICK n \in Nat : DOMAIN s = 1 .. n /\ \A i \in 1 .. n : s[i] \in T
  <2>1. Len(s) \in Nat /\ DOMAIN s = 1 .. Len(s) /\ \A i \in 1 .. Len(s) : s[i] \in T
    BY LenProperties, ElementOfSeq
  <2>2. QED
    BY <2>1
<1>2. PICK x : x = [T |-> T]
  OBVIOUS
<1>3. Listing(x, 0, <<>>)
  BY <1>2 DEF Listing
<1>4. ASSUME NEW i \in 1 .. n, NEW a, Listing(x, i - 1, a)
      PROVE  Listing(x, i, OnceMore(x, a, s[i]))
  <2>1. a \in Seq(T) /\ s[i] \in T
    BY <1>1, <1>2, <1>4 DEF Listing
  <2>2. Append(a, s[i]) \in Seq(T)
    BY <2>1
  <2>3. OnceMore(x, a, s[i]) \in Seq(T)
    BY <2>1, <2>2 DEF OnceMore
  <2>4. QED
    BY <1>2, <2>3 DEF Listing
<1>5. Listing(x, n, OnceFold!Folded(x, <<>>, s))
  BY <1>1, <1>3, <1>4, LeastNumber, OnceFold!FoldInduction DEF OnceFold!LeastNumber
<1>6. Once(s) = OnceFold!Folded(x, <<>>, s)
  BY DEF Once, OnceFold!Folded, OnceMore, FoldLeft, MapThenFoldSet, Max, OnceFold!Last
<1>7. QED
  BY SMTT(30), <1>2, <1>5, <1>6 DEF Listing

(* Rows that are one group have the columns of the first of them. *)
LEMMA EvenRows ==
    ASSUME NEW R, NEW rows \in Seq(R), Len(groupInsertRows(rows)) <= 1
    PROVE  \A i \in DOMAIN rows : ColumnSet(rows[i]) = ColumnSet(rows[1])
<1>1. PICK groups : groups = groupInsertRows(rows)
  OBVIOUS
<1>2. groups \in Seq(Seq(R)) /\ SameRows(<<rows>>, groups) /\ AllGrouped(groups)
  BY <1>1, GroupsKeepRows
<1>3. DOMAIN groups \subseteq {1}
  <2>1. Len(groups) \in Nat /\ DOMAIN groups = 1 .. Len(groups) /\ Len(groups) <= 1
    BY <1>1, <1>2, LenProperties
  <2>2. QED
    BY <2>1
<1>4. PICK f : Moves(f, <<rows>>, groups)
  BY <1>2 DEF SameRows
<1>5. ASSUME NEW i \in DOMAIN rows
      PROVE  ColumnSet(rows[i]) = ColumnSet(groups[1][1])
  <2>1. 1 \in DOMAIN <<rows>> /\ <<rows>>[1] = rows
    OBVIOUS
  <2>2. PICK p : p = <<1, i>>
    OBVIOUS
  <2>3. p \in Places(<<rows>>) /\ p[1] = 1 /\ p[2] = i
    BY <2>1, <2>2, PlaceIs
  <2>4. f[p] \in Places(groups) /\ At(groups, f[p]) = At(<<rows>>, p)
    BY <1>4, <2>3 DEF Moves
  <2>5. f[p][1] \in DOMAIN groups /\ f[p][2] \in DOMAIN groups[f[p][1]]
    BY <2>4, PlaceIs
  <2>6. f[p][1] = 1
    BY <1>3, <2>5
  <2>7. Uniform(groups[1])
    BY <1>2, <2>5, <2>6 DEF AllGrouped
  <2>8. At(groups, f[p]) = rows[i]
    BY <2>1, <2>3, <2>4 DEF At
  <2>9. groups[1][f[p][2]] = rows[i]
    BY <2>6, <2>8 DEF At
  <2>10. QED
    BY <2>5, <2>6, <2>7, <2>9 DEF Uniform
<1>6. ASSUME NEW i \in DOMAIN rows
      PROVE  1 \in DOMAIN rows
  <2>1. Len(rows) \in Nat /\ DOMAIN rows = 1 .. Len(rows)
    BY LenProperties
  <2>2. QED
    BY <2>1
<1>7. QED
  BY <1>5, <1>6

(* The columns of cols are written in the row. *)
OfColumns(row, cols) == \A j \in DOMAIN cols : \E i \in DOMAIN row : row[i].col = cols[j]

(* The values of such a row in the order of cols. *)
LEMMA ValuesInOrderIn ==
    ASSUME NEW L, NEW row \in Seq(Written(L)), NEW cols, IsList(cols), OfColumns(row, cols)
    PROVE  ValuesInOrder(cols, row) \in Seq(L)
<1>1. PICK n \in Nat : DOMAIN cols = 1 .. n
  BY SMTT(30) DEF IsList
<1>2. PICK m \in Nat : DOMAIN row = 1 .. m /\ \A i \in 1 .. m : row[i] \in Written(L)
  <2>1. Len(row) \in Nat /\ DOMAIN row = 1 .. Len(row) /\ \A i \in 1 .. Len(row) : row[i] \in Written(L)
    BY LenProperties, ElementOfSeq
  <2>2. QED
    BY <2>1
<1>3. ASSUME NEW j \in 1 .. n
      PROVE  row[Min({i \in DOMAIN row : row[i].col = cols[j]})].v \in L
  <2>1. PICK is : is = {i \in DOMAIN row : row[i].col = cols[j]}
    OBVIOUS
  <2>2. is \in SUBSET Nat /\ is # {} /\ is \subseteq 1 .. m
    <3>1. is \subseteq DOMAIN row
      BY <2>1
    <3>2. \E i \in DOMAIN row : row[i].col = cols[j]
      BY <1>1 DEF OfColumns
    <3>3. is # {}
      BY <2>1, <3>2
    <3>4. QED
      BY <1>2, <3>1, <3>3
  <2>3. Min(is) \in 1 .. m
    BY <2>2, MinOf
  <2>4. row[Min(is)] \in Written(L)
    BY <1>2, <2>3
  <2>5. row[Min(is)].v \in L
    BY <2>4 DEF Written
  <2>6. QED
    BY <2>1, <2>5
<1>4. PICK f : f = [j \in 1 .. n |-> row[Min({i \in DOMAIN row : row[i].col = cols[j]})].v]
  OBVIOUS
<1>5. f \in Seq(L)
  BY <1>3, <1>4, IsASeq
<1>6. ValuesInOrder(cols, row) = f
  BY <1>1, <1>4 DEF ValuesInOrder
<1>7. QED
  BY <1>5, <1>6

(* The columns of a row are what its column set counts. *)
LEMMA ColumnSetIs ==
    ASSUME NEW row
    PROVE  DOMAIN ColumnSet(row) = {row[k].col : k \in DOMAIN row}
<1>1. PICK s : s = ColumnsOf(row)
  OBVIOUS
<1>2. DOMAIN s = DOMAIN row /\ \A k \in DOMAIN row : s[k] = row[k].col
  BY <1>1 DEF ColumnsOf
<1>3. DOMAIN ToBag(s) = {s[k] : k \in DOMAIN s}
  BY DEF ToBag, Range
<1>4. QED
  BY <1>1, <1>2, <1>3 DEF ColumnSet

(* Every row of one group has the columns of the statement.                 *)
LEMMA RowsOfColumns ==
    ASSUME NEW L, NEW b, b.insertRows \in Seq(Seq(Written(L))),
           Len(groupInsertRows(b.insertRows)) <= 1, NEW i \in DOMAIN b.insertRows
    PROVE  IsList(InsertColumns(b)) /\ OfColumns(b.insertRows[i], InsertColumns(b))
<1>1. PICK rows : rows = b.insertRows
  OBVIOUS
<1>2. PICK R : R = Seq(Written(L))
  OBVIOUS
<1>3. rows \in Seq(R) /\ Len(groupInsertRows(rows)) <= 1 /\ i \in DOMAIN rows /\ rows # <<>>
  BY <1>1, <1>2
<1>4. 1 \in DOMAIN rows
  <2>1. Len(rows) \in Nat /\ DOMAIN rows = 1 .. Len(rows)
    BY <1>3, LenProperties
  <2>2. QED
    BY <1>3, <2>1
<1>5. PICK row : row = rows[1]
  OBVIOUS
<1>6. PICK n \in Nat : DOMAIN row = 1 .. n
  <2>1. row \in Seq(Written(L))
    BY <1>2, <1>3, <1>4, <1>5, ElementOfSeq
  <2>2. QED
    BY <2>1, LenProperties
<1>7. PICK T : T = {row[k].col : k \in DOMAIN row}
  OBVIOUS
<1>8. ColumnsOf(row) \in Seq(T)
  <2>1. PICK s : s = [k \in 1 .. n |-> row[k].col]
    OBVIOUS
  <2>2. s \in Seq(T)
    <3>1. \A k \in 1 .. n : row[k].col \in T
      BY <1>6, <1>7
    <3>2. QED
      BY <2>1, <3>1, IsASeq
  <2>3. QED
    BY <1>6, <2>1, <2>2 DEF ColumnsOf
<1>9. PICK cols : cols = InsertColumns(b)
  OBVIOUS
<1>10. cols \in Seq(T)
  BY <1>1, <1>3, <1>5, <1>8, <1>9, OnceIn DEF InsertColumns
<1>11. DOMAIN ColumnSet(rows[i]) = T
  <2>1. ColumnSet(rows[i]) = ColumnSet(row)
    BY <1>3, <1>5, EvenRows
  <2>2. DOMAIN ColumnSet(row) = T
    BY <1>7, ColumnSetIs
  <2>3. QED
    BY <2>1, <2>2
<1>12. OfColumns(rows[i], cols)
  <2>1. ASSUME NEW j \in DOMAIN cols
        PROVE  \E k \in DOMAIN rows[i] : rows[i][k].col = cols[j]
    <3>1. cols[j] \in T
      BY <1>10, ElementOfSeq, LenProperties
    <3>2. DOMAIN ColumnSet(rows[i]) = {rows[i][k].col : k \in DOMAIN rows[i]}
      BY ColumnSetIs
    <3>3. QED
      BY <1>11, <3>1, <3>2
  <2>2. QED
    BY <2>1 DEF OfColumns
<1>13. IsList(cols)
  BY <1>10, LenProperties DEF IsList
<1>14. QED
  BY <1>1, <1>9, <1>12, <1>13

PushRow(x, acc, row) == Push(acc, AsNode("row", 0, RenderAll(x.h, acc.rc, ValuesInOrder(x.cols, row))))
RowFold == INSTANCE FoldLemmas WITH Step <- PushRow, Inv <- KeptSoFar

(* The rows of VALUES are rendered.                                         *)
LEMMA RenderRowsKeep ==
    ASSUME NEW h, NEW L, KeepsIn(h, L), NEW rc, IsContext(rc), NEW b,
           b.insertRows \in Seq(Seq(Written(L))), Len(groupInsertRows(b.insertRows)) <= 1
    PROVE  Keeps(rc, renderRows(h, rc, b).rc)
<1>1. PICK x : x = [rc |-> rc, h |-> h, cols |-> InsertColumns(b)]
  OBVIOUS
<1>2. PICK n \in Nat : DOMAIN b.insertRows = 1 .. n
  BY LenProperties
<1>3. KeptSoFar(x, 0, Begin(rc))
  BY <1>1, KeepsSelf DEF KeptSoFar, Begin
<1>4. ASSUME NEW i \in 1 .. n, NEW a, KeptSoFar(x, i - 1, a)
      PROVE  KeptSoFar(x, i, PushRow(x, a, b.insertRows[i]))
  <2>1. Keeps(x.rc, a.rc) /\ IsContext(a.rc)
    BY <1>4, KeptContext DEF KeptSoFar
  <2>2. PICK row : row = b.insertRows[i]
    OBVIOUS
  <2>3. row \in Seq(Written(L))
    BY <1>2, <2>2, ElementOfSeq, LenProperties
  <2>4. IsList(x.cols) /\ OfColumns(row, x.cols)
    BY <1>1, <1>2, <2>2, RowsOfColumns
  <2>5. PICK es : es = ValuesInOrder(x.cols, row)
    OBVIOUS
  <2>6. es \in Seq(L)
    BY <2>3, <2>4, <2>5, ValuesInOrderIn
  <2>7. Keeps(a.rc, RenderAll(h, a.rc, es).rc)
    BY <2>1, <2>6, RenderAllKeeps
  <2>8. PushRow(x, a, row).rc = RenderAll(h, a.rc, es).rc
    BY <1>1, <2>5 DEF PushRow, Push, AsNode, Out
  <2>9. Keeps(x.rc, PushRow(x, a, row).rc)
    BY <2>1, <2>7, <2>8, KeepsOn
  <2>10. QED
    BY <2>2, <2>9 DEF KeptSoFar
<1>5. KeptSoFar(x, n, RowFold!Folded(x, Begin(rc), b.insertRows))
  BY <1>2, <1>3, <1>4, LeastNumber, RowFold!FoldInduction DEF RowFold!LeastNumber
<1>6. renderRows(h, rc, b) = RowFold!Folded(x, Begin(rc), b.insertRows)
  BY <1>1 DEF renderRows, RowFold!Folded, PushRow, FoldLeft, MapThenFoldSet, Max, RowFold!Last
<1>7. QED
  BY <1>1, <1>5, <1>6 DEF KeptSoFar

PushKey(x, acc, cv) == Push(acc, KeyCond(ResolveTableName(acc.rc, x.table), x.table, cv))
KeyFold == INSTANCE FoldLemmas WITH Step <- PushKey, Inv <- KeptSoFar

(* So are the keys of a record,                                             *)
LEMMA KeyCondKeeps ==
    ASSUME NEW rc, IsContext(rc), NEW base, NEW cv
    PROVE  Keeps(rc, KeyCond(ResolveTableName(rc, base), base, cv).rc)
<1>1. PICK p : p = ResolveTableName(rc, base)
  OBVIOUS
<1>2. Keeps(rc, p.rc)
  BY <1>1, ResolveKeeps
<1>3. PICK acc : acc = Push(Begin(p.rc), Reference(p, base, cv.col))
  OBVIOUS
<1>4. acc.rc = p.rc
  BY <1>3 DEF Push, Reference, Out
<1>5. PICK vs : vs = <<cv.v.a>>
  OBVIOUS
<1>6. DOMAIN vs = 1 .. 1 /\ 1 \in Nat
  BY <1>5
<1>7. Keeps(acc.rc, AddArgs(acc, vs).rc)
  BY <1>2, <1>4, <1>6, KeptContext, AddArgsKeep
<1>8. KeyCond(p, base, cv).rc = AddArgs(acc, vs).rc
  BY <1>3, <1>5 DEF KeyCond, AsNode, Out
<1>9. QED
  BY <1>1, <1>2, <1>4, <1>7, <1>8, KeepsOn

(* one after the other,                                                     *)
LEMMA KeyCondsKeep ==
    ASSUME NEW rc, IsContext(rc), NEW b, NEW row, IsList(row)
    PROVE  Keeps(rc, keyConds(rc, b, row).rc)
<1>1. PICK x : x = [rc |-> rc, table |-> b.table]
  OBVIOUS
<1>2. PICK is : is = {i \in DOMAIN row : IsKey(b, row[i])}
  OBVIOUS
<1>3. PICK keys : keys = WhereOf(b, row)
  OBVIOUS
<1>4. IsList(keys)
  <2>1. is \in SUBSET DOMAIN row
    BY <1>2
  <2>2. keys = Chosen(row, is)
    BY <1>2, <1>3 DEF WhereOf, Filter
  <2>3. QED
    BY <2>1, <2>2, ChosenListed
<1>5. PICK n \in Nat : DOMAIN keys = 1 .. n
  BY <1>4 DEF IsList
<1>6. KeptSoFar(x, 0, Begin(rc))
  BY <1>1, KeepsSelf DEF KeptSoFar, Begin
<1>7. ASSUME NEW i \in 1 .. n, NEW a, KeptSoFar(x, i - 1, a)
      PROVE  KeptSoFar(x, i, PushKey(x, a, keys[i]))
  <2>1. Keeps(x.rc, a.rc) /\ IsContext(a.rc)
    BY <1>7, KeptContext DEF KeptSoFar
  <2>2. PICK r : r = KeyCond(ResolveTableName(a.rc, x.table), x.table, keys[i])
    OBVIOUS
  <2>3. Keeps(a.rc, r.rc)
    BY <2>1, <2>2, KeyCondKeeps
  <2>4. Keeps(x.rc, PushKey(x, a, keys[i]).rc)
    BY <2>1, <2>2, <2>3, KeepsOn DEF PushKey, Push
  <2>5. QED
    BY <2>4 DEF KeptSoFar
<1>8. KeptSoFar(x, n, KeyFold!Folded(x, Begin(rc), keys))
  BY <1>5, <1>6, <1>7, LeastNumber, KeyFold!FoldInduction DEF KeyFold!LeastNumber
<1>9. keyConds(rc, b, row) = KeyFold!Folded(x, Begin(rc), keys)
  BY <1>1, <1>3 DEF keyConds, KeyFold!Folded, PushKey, FoldLeft, MapThenFoldSet, Max, KeyFold!Last
<1>10. QED
  BY <1>1, <1>8, <1>9 DEF KeptSoFar

(* and RETURNING.                                                           *)
LEMMA ReturningKeeps ==
    ASSUME NEW h, NEW L, KeepsIn(h, L), NEW rc, IsContext(rc), NEW b, b.returning \in Seq(L)
    PROVE  Keeps(rc, renderReturning(h, rc, b).rc)
<1>1. CASE b.returning = <<>>
  BY <1>1, KeepsSelf DEF renderReturning, Rendering, Out
<1>2. CASE b.returning # <<>> /\ ~DialectOf(rc).returning
  BY <1>2, KeepsSelf DEF renderReturning, Rendering, Out
<1>3. CASE b.returning # <<>> /\ DialectOf(rc).returning
  <2>1. renderReturning(h, rc, b).rc = RenderAll(h, rc, b.returning).rc
    BY <1>3 DEF renderReturning, Rendering, AsClause, Out
  <2>2. QED
    BY <2>1, RenderAllKeeps
<1>4. QED
  BY <1>1, <1>2, <1>3

-----------------------------------------------------------------------------
(* The parts of a statement, one after another. *)

DmlPartNames == {"target", "name", "values", "query", "sets", "joins", "where"}

(* The parts that name the table give it the name it has in the context.    *)
NamedIn(rc, b, part, n) ==
    /\ part = "name" => n = NameIn(rc, b.table)
    /\ part = "target" => n.a.name = NameIn(rc, b.table)
PartDone(rc, b, part, r) == Keeps(rc, r.rc) /\ (r.rc.err = "" => NamedIn(rc, b, part, r.n))

(* The parts of statements that builder b has.                              *)
PartOf(b, part) ==
    /\ part \in DmlPartNames
    /\ part = "values" => Len(groupInsertRows(b.insertRows)) <= 1
    /\ part = "query" => b.kind = "insertFrom"

(* Each part is rendered,                                                   *)
LEMMA DmlPartDone ==
    ASSUME NEW h, NEW L, KeepsIn(h, L), NEW rc, IsContext(rc), NEW b, DmlIn(L, b),
           NEW sets \in Seq(Written(L)), NEW part, PartOf(b, part)
    PROVE  PartDone(rc, b, part, DmlPart(h, b, sets, rc, part))
<1>1. PICK p : p = ResolveTableName(rc, b.table)
  OBVIOUS
<1>2. Keeps(rc, p.rc) /\ (p.rc.err = "" => p.name = NameIn(rc, b.table))
  BY <1>1, ResolveKeeps
<1>3. CASE part = "target"
  <2>1. DmlPart(h, b, sets, rc, part) = Scan(p, b.table)
    BY <1>1, <1>3 DEF DmlPart, renderTableName, TableRef
  <2>2. Scan(p, b.table).rc = p.rc /\ Scan(p, b.table).n.a.name = p.name
    BY DEF Scan, Out, Leaf, Node
  <2>3. QED
    BY <1>2, <1>3, <2>1, <2>2 DEF PartDone, NamedIn
<1>4. CASE part = "name"
  <2>1. DmlPart(h, b, sets, rc, part) = TargetName(p)
    BY <1>1, <1>4 DEF DmlPart
  <2>2. TargetName(p).rc = p.rc /\ TargetName(p).n = p.name
    BY DEF TargetName, Out
  <2>3. QED
    BY <1>2, <1>4, <2>1, <2>2 DEF PartDone, NamedIn
<1>5. CASE part = "values"
  <2>1. DmlPart(h, b, sets, rc, part).rc = renderRows(h, rc, b).rc
    BY <1>5 DEF DmlPart, AsClause, Out
  <2>2. QED
    BY <1>5, <2>1, RenderRowsKeep DEF PartOf, DmlIn, PartDone, NamedIn
<1>6. CASE part = "query"
  <2>1. DmlPart(h, b, sets, rc, part).rc = Render(h, rc, Sub(b.selectBuilder)).rc
    BY <1>6 DEF DmlPart, FirstKid, Out
  <2>2. Sub(b.selectBuilder) \in L
    BY <1>6 DEF PartOf, DmlIn
  <2>3. QED
    BY <1>6, <2>1, <2>2 DEF KeepsIn, PartDone, NamedIn
<1>7. CASE part = "sets"
  <2>1. CASE sets = <<>>
    BY <1>7, <2>1, KeepsSelf DEF DmlPart, Out, PartDone, NamedIn
  <2>2. CASE sets # <<>>
    BY <1>7, <2>2, RenderSetsKeeps DEF DmlPart, PartDone, NamedIn
  <2>3. QED
    BY <2>1, <2>2
<1>8. CASE part = "joins"
  <2>1. DmlPart(h, b, sets, rc, part).rc = joinRenders(h, rc, b).rc
    BY <1>8 DEF DmlPart, AsList, Out
  <2>2. IsList(b.joins) /\ \A i \in DOMAIN b.joins : JoinIn(L, b.joins[i])
    BY SequenceOf DEF DmlIn
  <2>3. QED
    BY <1>8, <2>1, <2>2, JoinRendersKeep DEF PartDone, NamedIn
<1>9. CASE part = "where"
  <2>1. DmlPart(h, b, sets, rc, part) = dmlWhere(h, rc, b)
    BY <1>9 DEF DmlPart
  <2>2. IsList(b.joins) /\ b.conds \in Seq(L)
    BY SequenceOf DEF DmlIn
  <2>3. QED
    BY <1>9, <2>1, <2>2, DmlWhereKeeps DEF PartDone, NamedIn
<1>10. QED
  BY <1>3, <1>4, <1>5, <1>6, <1>7, <1>8, <1>9 DEF PartOf, DmlPartNames

(* The first i parts have been rendered. *)
PartsSoFar(x, i, acc) ==
    /\ Keeps(x.rc, acc.rc) /\ Sequence(acc.ns) /\ Len(acc.ns) = i
    /\ acc.rc.err = "" => \A k \in 1 .. i : NamedIn(x.rc, x.b, x.parts[k], acc.ns[k])

(* One part more.                                                           *)
LEMMA OnePartMore ==
    ASSUME NEW x, NEW i \in Nat, NEW acc, PartsSoFar(x, i, acc),
           NEW r, PartDone(acc.rc, x.b, x.parts[i + 1], r),
           NEW next, next.rc = r.rc, next.ns = Append(acc.ns, r.n)
    PROVE  PartsSoFar(x, i + 1, next)
<1>1. Keeps(x.rc, acc.rc) /\ Sequence(acc.ns) /\ Len(acc.ns) = i
  BY DEF PartsSoFar
<1>2. Keeps(acc.rc, r.rc)
  BY DEF PartDone
<1>3. Keeps(x.rc, next.rc)
  BY <1>1, <1>2, KeepsOn
<1>4. /\ Sequence(next.ns) /\ Len(next.ns) = i + 1 /\ next.ns[i + 1] = r.n
      /\ \A k \in 1 .. i : next.ns[k] = acc.ns[k]
  BY <1>1, OneMore
<1>5. ASSUME next.rc.err = "", NEW k \in 1 .. i + 1
      PROVE  NamedIn(x.rc, x.b, x.parts[k], next.ns[k])
  <2>1. acc.rc.err = ""
    BY <1>2, <1>5, KeptContext
  <2>2. CASE k \in 1 .. i
    BY <1>4, <2>1, <2>2 DEF PartsSoFar
  <2>3. CASE k = i + 1
    <3>1. NameIn(acc.rc, x.b.table) = NameIn(x.rc, x.b.table)
      BY <1>1, OneName
    <3>2. NamedIn(acc.rc, x.b, x.parts[k], next.ns[k])
      BY <1>4, <1>5, <2>3 DEF PartDone
    <3>3. QED
      BY <3>1, <3>2 DEF NamedIn
  <2>4. k \in 1 .. i \/ k = i + 1
    OBVIOUS
  <2>5. QED
    BY <2>2, <2>3, <2>4
<1>6. QED
  BY <1>3, <1>4, <1>5 DEF PartsSoFar

MarkPart(x, acc, part) == Mark(acc, DmlPart(x.h, x.b, x.sets, acc.rc, part))
PartsFold == INSTANCE FoldLemmas WITH Step <- MarkPart, Inv <- PartsSoFar

(* So are all the parts of a statement. *)
LEMMA DmlPartsDone ==
    ASSUME NEW h, NEW L, KeepsIn(h, L), NEW rc, IsContext(rc), NEW b, DmlIn(L, b),
           NEW sets \in Seq(Written(L)), NEW n \in Nat, NEW parts, DOMAIN parts = 1 .. n,
           \A i \in 1 .. n : PartOf(b, parts[i]),
           NEW acc, acc = DmlParts(h, b, sets, rc, parts)
    PROVE  /\ Keeps(rc, acc.rc) /\ Sequence(acc.ns) /\ Len(acc.ns) = n
           /\ acc.rc.err = "" => \A i \in 1 .. n : NamedIn(rc, b, parts[i], acc.ns[i])
<1>1. PICK x : x = [rc |-> rc, h |-> h, b |-> b, sets |-> sets, parts |-> parts]
  OBVIOUS
<1>2. PICK base : base = [ns |-> <<>>, rc |-> rc, marks |-> <<>>]
  OBVIOUS
<1>3. PartsSoFar(x, 0, base)
  <2>1. PICK e : e = <<>>
    OBVIOUS
  <2>2. Sequence(e) /\ Len(e) = 0
    BY <2>1 DEF Sequence
  <2>3. base.ns = e /\ base.rc = rc /\ x.rc = rc
    BY <1>1, <1>2, <2>1
  <2>4. QED
    BY <2>2, <2>3, KeepsSelf DEF PartsSoFar
<1>4. ASSUME NEW i \in 1 .. n, NEW a, PartsSoFar(x, i - 1, a)
      PROVE  PartsSoFar(x, i, MarkPart(x, a, parts[i]))
  <2>1. PICK m \in Nat : m = i - 1 /\ i = m + 1
    OBVIOUS
  <2>2. Keeps(x.rc, a.rc) /\ IsContext(a.rc)
    BY <1>4, KeptContext DEF PartsSoFar
  <2>3. PICK part : part = parts[i]
    OBVIOUS
  <2>4. PICK r : r = DmlPart(h, b, sets, a.rc, part)
    OBVIOUS
  <2>5. PartDone(a.rc, b, part, r)
    BY <2>2, <2>3, <2>4, DmlPartDone
  <2>6. x.b = b /\ x.parts[m + 1] = part
    BY <1>1, <2>1, <2>3
  <2>7. PICK next : next = MarkPart(x, a, part)
    OBVIOUS
  <2>8. next.rc = r.rc /\ next.ns = Append(a.ns, r.n)
    BY <1>1, <2>4, <2>7 DEF MarkPart, Mark
  <2>9. PartsSoFar(x, m, a)
    BY <1>4, <2>1
  <2>10. PartsSoFar(x, m + 1, next)
    BY <2>5, <2>6, <2>8, <2>9, OnePartMore
  <2>11. QED
    BY <2>1, <2>3, <2>7, <2>10
<1>5. PartsSoFar(x, n, PartsFold!Folded(x, base, parts))
  BY <1>3, <1>4, LeastNumber, PartsFold!FoldInduction DEF PartsFold!LeastNumber
<1>6. acc = PartsFold!Folded(x, base, parts)
  BY <1>1, <1>2 DEF DmlParts, PartsFold!Folded, MarkPart, FoldLeft, MapThenFoldSet, Max, PartsFold!Last
<1>7. QED
  BY <1>1, <1>5, <1>6 DEF PartsSoFar

BatchPartNames == {"sets", "name", "keys", "where"}

(* So are those of the statement for one record of a batch update.          *)
LEMMA BatchPartDone ==
    ASSUME NEW h, NEW L, KeepsIn(h, L), NEW rc, IsContext(rc), NEW b, DmlIn(L, b),
           NEW row \in Seq(Written(L)), NEW part \in BatchPartNames
    PROVE  PartDone(rc, b, part, BatchPart(h, b, row, rc, part))
<1>1. PICK p : p = ResolveTableName(rc, b.table)
  OBVIOUS
<1>2. Keeps(rc, p.rc) /\ (p.rc.err = "" => p.name = NameIn(rc, b.table))
  BY <1>1, ResolveKeeps
<1>3. CASE part = "name"
  <2>1. BatchPart(h, b, row, rc, part) = TargetName(p)
    BY <1>1, <1>3 DEF BatchPart
  <2>2. TargetName(p).rc = p.rc /\ TargetName(p).n = p.name
    BY DEF TargetName, Out
  <2>3. QED
    BY <1>2, <1>3, <2>1, <2>2 DEF PartDone, NamedIn
<1>4. CASE part = "sets"
  <2>1. PICK is : is = {i \in DOMAIN row : ~IsKey(b, row[i])}
    OBVIOUS
  <2>2. SetsOf(b, row) = Chosen(row, is) /\ is \in SUBSET DOMAIN row
    BY <2>1 DEF SetsOf, Filter
  <2>3. PICK T : T = Written(L)
    OBVIOUS
  <2>4. SetsOf(b, row) \in Seq(Written(L))
    BY <2>2, <2>3, ChosenIn
  <2>5. BatchPart(h, b, row, rc, part) = renderSets(h, rc, SetsOf(b, row))
    BY <1>4 DEF BatchPart
  <2>6. QED
    BY <1>4, <2>4, <2>5, RenderSetsKeeps DEF PartDone, NamedIn
<1>5. CASE part = "keys"
  <2>1. IsList(row)
    BY LenProperties DEF IsList
  <2>2. BatchPart(h, b, row, rc, part).rc = keyConds(rc, b, row).rc
    BY <1>5 DEF BatchPart, AsList, Out
  <2>3. QED
    BY <1>5, <2>1, <2>2, KeyCondsKeep DEF PartDone, NamedIn
<1>6. CASE part = "where"
  <2>1. BatchPart(h, b, row, rc, part) = dmlWhere(h, rc, b)
    BY <1>6 DEF BatchPart
  <2>2. IsList(b.joins) /\ b.conds \in Seq(L)
    BY SequenceOf DEF DmlIn
  <2>3. QED
    BY <1>6, <2>1, <2>2, DmlWhereKeeps DEF PartDone, NamedIn
<1>7. QED
  BY <1>3, <1>4, <1>5, <1>6 DEF BatchPartNames

PushBatchPart(x, acc, part) == Push(acc, BatchPart(x.h, x.b, x.row, acc.rc, part))
BatchFold == INSTANCE FoldLemmas WITH Step <- PushBatchPart, Inv <- PartsSoFar
BatchPartsOf(h, b, row, rc) ==
    FoldLeft(LAMBDA acc, part : Push(acc, BatchPart(h, b, row, acc.rc, part)),
             Begin(rc), <<"sets", "name", "keys", "where">>)

NamesSecond(rc, b, acc) ==
    Keeps(rc, acc.rc) /\ (acc.rc.err = "" => acc.ns[2] = NameIn(rc, b.table))

(* Those parts are rendered, and the second is the table's name.            *)
LEMMA BatchPartsDone ==
    ASSUME NEW h, NEW L, KeepsIn(h, L), NEW rc, IsContext(rc), NEW b, DmlIn(L, b),
           NEW row \in Seq(Written(L)), NEW acc, acc = BatchPartsOf(h, b, row, rc)
    PROVE  NamesSecond(rc, b, acc)
<1>1. PICK parts : parts = <<"sets", "name", "keys", "where">>
  OBVIOUS
<1>2. PICK x : x = [rc |-> rc, h |-> h, b |-> b, row |-> row, parts |-> parts]
  OBVIOUS
<1>3. PICK base : base = Begin(rc)
  OBVIOUS
<1>4. PICK n \in Nat : n = 4
  OBVIOUS
<1>5. DOMAIN parts = 1 .. n /\ \A i \in 1 .. n : parts[i] \in BatchPartNames
  BY <1>1, <1>4 DEF BatchPartNames
<1>6. PartsSoFar(x, 0, base)
  <2>1. PICK e : e = <<>>
    OBVIOUS
  <2>2. Sequence(e) /\ Len(e) = 0
    BY <2>1 DEF Sequence
  <2>3. base.ns = e /\ base.rc = rc /\ x.rc = rc
    BY <1>2, <1>3, <2>1 DEF Begin
  <2>4. QED
    BY <2>2, <2>3, KeepsSelf DEF PartsSoFar
<1>7. ASSUME NEW i \in 1 .. n, NEW a, PartsSoFar(x, i - 1, a)
      PROVE  PartsSoFar(x, i, PushBatchPart(x, a, parts[i]))
  <2>1. PICK m \in Nat : m = i - 1 /\ i = m + 1
    OBVIOUS
  <2>2. Keeps(x.rc, a.rc) /\ IsContext(a.rc)
    BY <1>7, KeptContext DEF PartsSoFar
  <2>3. PICK part : part = parts[i]
    OBVIOUS
  <2>4. PICK r : r = BatchPart(h, b, row, a.rc, part)
    OBVIOUS
  <2>5. part \in BatchPartNames
    BY <1>5, <2>3
  <2>6. PartDone(a.rc, b, part, r)
    BY <2>2, <2>4, <2>5, BatchPartDone
  <2>7. x.b = b /\ x.parts[m + 1] = part
    BY <1>2, <2>1, <2>3
  <2>8. PICK next : next = PushBatchPart(x, a, part)
    OBVIOUS
  <2>9. next.rc = r.rc /\ next.ns = Append(a.ns, r.n)
    BY <1>2, <2>4, <2>8 DEF PushBatchPart, Push
  <2>10. PartsSoFar(x, m, a)
    BY <1>7, <2>1
  <2>11. PartsSoFar(x, m + 1, next)
    BY <2>6, <2>7, <2>9, <2>10, OnePartMore
  <2>12. QED
    BY <2>1, <2>3, <2>8, <2>11
<1>8. PartsSoFar(x, n, BatchFold!Folded(x, base, parts))
  BY <1>5, <1>6, <1>7, LeastNumber, BatchFold!FoldInduction DEF BatchFold!LeastNumber
<1>9. acc = BatchFold!Folded(x, base, parts)
  BY <1>1, <1>2, <1>3 DEF BatchPartsOf, BatchFold!Folded, PushBatchPart, FoldLeft, MapThenFoldSet, Max, BatchFold!Last
<1>10. 2 \in 1 .. n /\ parts[2] = "name"
  BY <1>1, <1>4
<1>11. acc.rc.err = "" => NamedIn(rc, b, "name", acc.ns[2])
  BY <1>2, <1>8, <1>9, <1>10 DEF PartsSoFar
<1>12. QED
  BY <1>2, <1>8, <1>9, <1>11 DEF PartsSoFar, NamedIn, NamesSecond

-----------------------------------------------------------------------------
(* Statements. *)

(* The table a statement changes. *)
TargetOf(n) == IF n.t = "insert" THEN n.a.name ELSE n.kids[1].a.name

(* A statement without an error changes the table of its builder. *)
Names(b, st) == st.err = "" => TargetOf(st.n) = Target(b)
OneKidMore(next, n, m) == next = [n EXCEPT !.kids = Append(@, m)]
TargetIs(n, t, a, kids) == TargetOf(n) = IF t = "insert" THEN a.name ELSE kids[1].a.name

(* RETURNING goes to the end of a statement.                                *)
LEMMA AppendedTarget ==
    ASSUME NEW n, NEW t, NEW a, NEW kids, HasKids(n, t, a, kids), NEW m, NEW next, OneKidMore(next, n, m)
    PROVE  TargetIs(next, t, a, kids)
<1>1. PICK more : more = Append(kids, m)
  OBVIOUS
<1>2. next.t = t /\ next.a = a /\ next.kids = more
  BY <1>1 DEF Node, HasKids, OneKidMore
<1>3. 1 \in 1 .. Len(kids) /\ more[1] = kids[1]
  BY <1>1, OneMore, SequenceOf DEF HasKids
<1>4. QED
  BY <1>2, <1>3 DEF TargetOf, TargetIs

(* What is refused has an error. *)
LEMMA RefusedErr ==
    ASSUME NEW e
    PROVE  Refused(e).err = e
<1>1. PICK s : s = <<>>
  OBVIOUS
<1>2. Refused(e) = [err |-> e, n |-> Empty, args |-> s]
  BY <1>1 DEF Refused
<1>3. QED
  BY <1>2

IsStatement(st, err, rc, n) == st = Statement(err, rc, n)

(* A statement without an error is one of parts without any.                *)
LEMMA StatementIs ==
    ASSUME NEW err, NEW rc, NEW n, NEW st, IsStatement(st, err, rc, n), st.err = ""
    PROVE  err = "" /\ rc.err = "" /\ st.n = n
<1>1. PICK no : no = ""
  OBVIOUS
<1>2. st = Statement(err, rc, n)
  BY DEF IsStatement
<1>3. err = no
  <2>1. ASSUME err # no
        PROVE  FALSE
    <3>1. st = Refused(err)
      BY <1>1, <1>2, <2>1 DEF Statement
    <3>2. QED
      BY <1>1, <1>2, <2>1, <3>1, RefusedErr
  <2>2. QED
    BY <2>1
<1>4. rc.err = no
  <2>1. ASSUME rc.err # no
        PROVE  FALSE
    <3>1. st = Refused(rc.err)
      BY <1>1, <1>2, <1>3, <2>1 DEF Statement
    <3>2. QED
      BY <1>1, <1>2, <2>1, <3>1, RefusedErr
  <2>2. QED
    BY <2>1
<1>5. st = [err |-> no, n |-> n, args |-> rc.args]
  BY <1>1, <1>2, <1>3, <1>4 DEF Statement
<1>6. st.n = n
  BY <1>5
<1>7. QED
  BY <1>1, <1>2, <1>3, <1>4, <1>6

(* So the target of a whole statement is that of its parts.                 *)
LEMMA CompleteTarget ==
    ASSUME NEW h, NEW L, KeepsIn(h, L), NEW rc, IsContext(rc), NEW b, b.returning \in Seq(L),
           NEW t, NEW a, NEW kids, NEW stmt, HasKids(stmt.n, t, a, kids),
           Complete(h, b, stmt, rc).err = ""
    PROVE  stmt.err = "" /\ rc.err = "" /\ TargetIs(Complete(h, b, stmt, rc).n, t, a, kids)
<1>1. PICK ret : ret = renderReturning(h, rc, b)
  OBVIOUS
<1>2. Keeps(rc, ret.rc)
  BY <1>1, ReturningKeeps
<1>3. stmt.err = ""
  BY RefusedErr DEF Complete
<1>4. PICK n : n = [stmt.n EXCEPT !.kids = Append(@, ret.n)]
  OBVIOUS
<1>5. PICK st : st = Complete(h, b, stmt, rc)
  OBVIOUS
<1>6. IsStatement(st, ret.err, ret.rc, n)
  BY <1>1, <1>3, <1>4, <1>5 DEF Complete, AddReturning, IsStatement
<1>7. ret.rc.err = "" /\ st.n = n
  <2>1. st.err = ""
    BY <1>5
  <2>2. QED
    BY <1>6, <2>1, StatementIs
<1>8. rc.err = ""
  BY <1>2, <1>7, KeptContext
<1>9. TargetIs(n, t, a, kids)
  <2>1. PICK m, k : m = ret.n /\ k = stmt.n
    OBVIOUS
  <2>2. HasKids(k, t, a, kids)
    BY <2>1
  <2>3. OneKidMore(n, k, m)
    BY <1>4, <2>1 DEF OneKidMore
  <2>4. QED
    BY <2>2, <2>3, AppendedTarget
<1>10. QED
  BY <1>3, <1>5, <1>7, <1>8, <1>9

(* An error names no table. *)
LEMMA RefusedNames ==
    ASSUME NEW b, NEW e, e # ""
    PROVE  Names(b, Refused(e))
  BY RefusedErr DEF Names

(* What a statement's parts say its table is.                               *)
Aims(b, t, a, kids) == Target(b) = IF t = "insert" THEN a.name ELSE kids[1].a.name

(* A statement is of the table its parts are of.                            *)
LEMMA CompleteNames ==
    ASSUME NEW h, NEW L, KeepsIn(h, L), NEW rc, IsContext(rc), NEW b, b.returning \in Seq(L),
           NEW t, NEW a, NEW kids, NEW stmt, HasKids(stmt.n, t, a, kids),
           rc.err = "" => Aims(b, t, a, kids)
    PROVE  Names(b, Complete(h, b, stmt, rc))
<1>1. PICK st : st = Complete(h, b, stmt, rc)
  OBVIOUS
<1>2. CASE st.err = ""
  <2>1. rc.err = "" /\ TargetIs(st.n, t, a, kids)
    BY <1>1, <1>2, CompleteTarget
  <2>2. QED
    BY <1>1, <2>1 DEF Names, Aims, TargetIs
<1>3. CASE st.err # ""
  BY <1>1, <1>3 DEF Names
<1>4. QED
  BY <1>2, <1>3

(* What cannot be put together names none.                                  *)
LEMMA CompleteRefuses ==
    ASSUME NEW h, NEW rc, NEW b, NEW stmt, stmt.err # ""
    PROVE  Names(b, Complete(h, b, stmt, rc))
  BY RefusedNames DEF Complete

(* This is three. *)
LEMMA ThreeKids ==
    ASSUME NEW t, NEW a, NEW k1, NEW k2, NEW k3
    PROVE  HasKids(Node(t, a, <<k1, k2, k3>>), t, a, <<k1, k2, k3>>)
<1>1. PICK n \in Nat : n = 3
  OBVIOUS
<1>2. PICK s : s = <<k1, k2, k3>>
  OBVIOUS
<1>3. s = [i \in 1 .. n |-> s[i]] /\ Len(s) = n
  BY <1>1, <1>2
<1>4. Sequence(s) /\ Len(s) > 0
  BY <1>1, <1>3 DEF Sequence
<1>5. QED
  BY <1>2, <1>4 DEF HasKids

(* And four. *)
LEMMA FourKids ==
    ASSUME NEW t, NEW a, NEW k1, NEW k2, NEW k3, NEW k4
    PROVE  HasKids(Node(t, a, <<k1, k2, k3, k4>>), t, a, <<k1, k2, k3, k4>>)
<1>1. PICK n \in Nat : n = 4
  OBVIOUS
<1>2. PICK s : s = <<k1, k2, k3, k4>>
  OBVIOUS
<1>3. s = [i \in 1 .. n |-> s[i]] /\ Len(s) = n
  BY <1>1, <1>2
<1>4. Sequence(s) /\ Len(s) > 0
  BY <1>1, <1>3 DEF Sequence
<1>5. QED
  BY <1>2, <1>4 DEF HasKids

NoErrorOf(es) == FirstError(es) = ""

(* A list of errors without a first one has none. *)
LEMMA NoFirstError ==
    ASSUME NEW es, NEW n \in Nat, DOMAIN es = 1 .. n, NoErrorOf(es), NEW i \in 1 .. n
    PROVE  es[i] = ""
<1>1. PICK bad : bad = {j \in DOMAIN es : es[j] # ""}
  OBVIOUS
<1>2. CASE bad = {}
  BY <1>1, <1>2
<1>3. CASE bad # {}
  <2>1. bad \in SUBSET Nat
    <3>1. bad \subseteq DOMAIN es
      BY <1>1, Zenon
    <3>2. QED
      BY <3>1
  <2>2. Min(bad) \in bad
    BY <1>3, <2>1, MinOf
  <2>3. FirstError(es) = es[Min(bad)]
    BY <1>1, <1>3 DEF FirstError
  <2>4. QED
    BY <1>1, <2>2, <2>3 DEF NoErrorOf
<1>4. QED
  BY <1>2, <1>3

(* One of five. *)
LEMMA FourthError ==
    ASSUME NEW e1, NEW e2, NEW e3, NEW e4, NEW e5, NoErrorOf(<<e1, e2, e3, e4, e5>>)
    PROVE  e4 = ""
<1>1. PICK es : es = <<e1, e2, e3, e4, e5>>
  OBVIOUS
<1>2. PICK n \in Nat : n = 5
  OBVIOUS
<1>3. DOMAIN es = 1 .. n /\ 4 \in 1 .. n /\ es[4] = e4
  BY <1>1, <1>2
<1>4. es[4] = ""
  BY <1>1, <1>3, NoFirstError
<1>5. QED
  BY <1>3, <1>4

(* Five elements. *)
LEMMA FiveOf ==
    ASSUME NEW T, NEW e1 \in T, NEW e2 \in T, NEW e3 \in T, NEW e4 \in T, NEW e5 \in T,
           NEW s, s = <<e1, e2, e3, e4, e5>>
    PROVE  DOMAIN s = 1 .. 5 /\ \A i \in 1 .. 5 : s[i] \in T
<1>1. DOMAIN s = 1 .. 5
  OBVIOUS
<1>2. s[1] = e1 /\ s[2] = e2 /\ s[3] = e3 /\ s[4] = e4 /\ s[5] = e5
  OBVIOUS
<1>3. \A i \in 1 .. 5 : i = 1 \/ i = 2 \/ i = 3 \/ i = 4 \/ i = 5
  OBVIOUS
<1>4. QED
  BY <1>1, <1>2, <1>3

(* The names of columns in their order. *)
LEMMA ColumnsOrdered ==
    ASSUME NEW s, s = ColumnOrder
    PROVE  DOMAIN s = 1 .. 5 /\ \A i \in 1 .. 5 : s[i] \in ColumnNames
<1>1. PICK e1, e2, e3, e4, e5 : e1 = "TID" /\ e2 = "del" /\ e3 = "id" /\ e4 = "ref" /\ e5 = "tid"
  OBVIOUS
<1>2. PICK C : C = ColumnNames
  OBVIOUS
<1>3. e1 \in C /\ e2 \in C /\ e3 \in C /\ e4 \in C /\ e5 \in C
  BY <1>1, <1>2 DEF ColumnNames
<1>4. s = <<e1, e2, e3, e4, e5>>
  BY <1>1 DEF ColumnOrder
<1>5. QED
  BY <1>2, <1>3, <1>4, FiveOf

(* The assignments of a map are written columns.                            *)
LEMMA AssignmentsIn ==
    ASSUME NEW L, NEW f, \A k \in DOMAIN f : f[k] \in L
    PROVE  Assignments(f) \in Seq(Written(L))
<1>1. PICK C : C = ColumnNames
  OBVIOUS
<1>2. PICK s, is : s = ColumnOrder /\ is = {i \in DOMAIN s : s[i] \in DOMAIN f}
  OBVIOUS
<1>3. PICK n \in Nat : n = 5
  OBVIOUS
<1>4. DOMAIN s = 1 .. n /\ \A i \in 1 .. n : s[i] \in C
  BY <1>1, <1>2, <1>3, ColumnsOrdered
<1>5. PICK keys : keys = Chosen(s, is)
  OBVIOUS
<1>6. is \in SUBSET DOMAIN s
  BY <1>2
<1>7. PICK m \in Nat : m = Cardinality(is)
  BY <1>4, <1>6, ChosenAre
<1>8. keys = [k \in 1 .. m |-> keys[k]] /\ \A k \in 1 .. m : \E i \in is : keys[k] = s[i]
  BY <1>4, <1>5, <1>6, <1>7, ChosenAre
<1>9. DOMAIN keys = 1 .. m /\ \A k \in 1 .. m : keys[k] \in C /\ keys[k] \in DOMAIN f
  BY <1>2, <1>4, <1>8
<1>10. keys = sortedMapKeys(f)
  BY <1>2, <1>5 DEF sortedMapKeys, Filter
<1>11. PICK W : W = Written(L)
  OBVIOUS
<1>12. PICK g : g = [i \in 1 .. m |-> columnValue(keys[i], f[keys[i]])]
  OBVIOUS
<1>13. \A i \in 1 .. m : columnValue(keys[i], f[keys[i]]) \in W
  BY <1>1, <1>9, <1>11 DEF columnValue, Written
<1>14. g \in Seq(W)
  BY <1>12, <1>13, IsASeq
<1>15. Assignments(f) = g
  BY <1>9, <1>10, <1>12 DEF Assignments
<1>16. QED
  BY <1>11, <1>14, <1>15

(* So are those of an upsert.                                               *)
LEMMA UpsertSetsIn ==
    ASSUME NEW L, NEW b, UpsertIn(L, b.upsert)
    PROVE  UpsertSets(b) \in Seq(Written(L))
<1>1. PICK W : W = Written(L)
  OBVIOUS
<1>2. <<>> \in Seq(W)
  OBVIOUS
<1>3. CASE b.upsert = <<>>
  BY <1>1, <1>2, <1>3 DEF UpsertSets
<1>4. CASE b.upsert # <<>>
  <2>1. PICK c : b.upsert = <<c>> /\ ClauseIn(L, c)
    BY <1>4 DEF UpsertIn
  <2>2. b.upsert[1] = c
    BY <2>1
  <2>3. CASE c.nothing
    BY <1>1, <1>2, <1>4, <2>2, <2>3 DEF UpsertSets
  <2>4. CASE ~c.nothing
    <3>1. UpsertSets(b) = Assignments(c.updates)
      BY <1>4, <2>2, <2>4 DEF UpsertSets
    <3>2. QED
      BY <2>1, <3>1, AssignmentsIn DEF ClauseIn
  <2>5. QED
    BY <2>3, <2>4
<1>5. QED
  BY <1>3, <1>4

Taken(rc, b) == InsertRefusal(rc, b) = ""

(* Rows that an INSERT takes are one group.                                 *)
LEMMA RowsTaken ==
    ASSUME NEW R, NEW rc, NEW b, b.insertRows \in Seq(R), Taken(rc, b)
    PROVE  Len(groupInsertRows(b.insertRows)) <= 1
<1>1. PICK groups : groups = groupInsertRows(b.insertRows)
  OBVIOUS
<1>2. Len(groups) \in Nat
  <2>1. groups \in Seq(Seq(R))
    BY <1>1, GroupsKeepRows
  <2>2. QED
    BY <2>1, LenProperties
<1>3. PICK e4 : e4 = IF Len(groups) > 1 THEN "mixed columns" ELSE ""
  OBVIOUS
<1>4. PICK e1, e2, e3, e5 :
        /\ e1 = rejectTenantInsert(rc, b) /\ e2 = rejectTenantUpsert(rc, b)
        /\ e3 = IF b.insertRows = <<>> THEN "no rows" ELSE ""
        /\ e5 = IF b.upsert = <<>> THEN "" ELSE RenderUpsert(DialectOf(rc), b.upsert[1], InsertColumns(b))
  OBVIOUS
<1>5. NoErrorOf(<<e1, e2, e3, e4, e5>>)
  BY <1>1, <1>3, <1>4 DEF InsertRefusal, Taken, NoErrorOf
<1>6. e4 = ""
  BY <1>5, FourthError
<1>7. ~(Len(groups) > 1)
  <2>1. PICK many, no : many = "mixed columns" /\ no = ""
    OBVIOUS
  <2>2. many # no
    BY <2>1
  <2>3. e4 = IF Len(groups) > 1 THEN many ELSE no
    BY <1>3, <2>1
  <2>4. QED
    BY <1>6, <2>1, <2>2, <2>3, Zenon
<1>8. QED
  BY <1>1, <1>2, <1>7

(* A context in which the table of b has the name it should.                *)
Aimed(rc, b) == IsContext(rc) /\ NameIn(rc, b.table) = Target(b)

(* An INSERT is of its builder's table,                                     *)
LEMMA InsertNames ==
    ASSUME NEW h, NEW L, KeepsIn(h, L), NEW b, DmlIn(L, b), NEW rc, Aimed(rc, b)
    PROVE  Names(b, renderInsert(h, rc, b))
<1>1. CASE InsertRefusal(rc, b) # ""
  BY <1>1, RefusedNames DEF renderInsert
<1>2. CASE InsertRefusal(rc, b) = ""
  <2>1. PICK parts : parts = <<"values", "name", "sets">>
    OBVIOUS
  <2>2. PICK n \in Nat : n = 3
    OBVIOUS
  <2>3. Len(groupInsertRows(b.insertRows)) <= 1
    BY <1>2, RowsTaken DEF DmlIn, Taken
  <2>4. DOMAIN parts = 1 .. n /\ 2 \in 1 .. n /\ parts[2] = "name"
    BY <2>1, <2>2
  <2>5. \A i \in 1 .. n : PartOf(b, parts[i])
    <3>1. \A i \in 1 .. n : parts[i] \in {"values", "name", "sets"}
      BY <2>1, <2>2
    <3>2. QED
      BY <2>3, <3>1 DEF PartOf, DmlPartNames
  <2>6. PICK sets : sets = UpsertSets(b)
    OBVIOUS
  <2>7. sets \in Seq(Written(L))
    BY <2>6, UpsertSetsIn DEF DmlIn
  <2>8. PICK acc : acc = DmlParts(h, b, sets, rc, parts)
    OBVIOUS
  <2>9. /\ Keeps(rc, acc.rc)
        /\ acc.rc.err = "" => \A i \in 1 .. n : NamedIn(rc, b, parts[i], acc.ns[i])
    BY <2>4, <2>5, <2>7, <2>8, DmlPartsDone DEF Aimed
  <2>10. acc.rc.err = "" => acc.ns[2] = Target(b)
    BY <2>4, <2>9 DEF NamedIn, Aimed
  <2>11. PICK a, k1, k2 :
           /\ a = [name |-> acc.ns[2], base |-> b.table, columns |-> InsertColumns(b),
                   conflict |-> ConflictOf(b), target |-> IF b.upsert = <<>> THEN <<>> ELSE b.upsert[1].cols]
           /\ k1 = acc.ns[1] /\ k2 = acc.ns[3]
    OBVIOUS
  <2>12. PICK kids, stmt : kids = <<k1, k2>> /\ stmt = InsertNode(b, InsertColumns(b), ConflictOf(b),
            IF b.upsert = <<>> THEN <<>> ELSE b.upsert[1].cols, <<acc.ns[1], acc.ns[3]>>, acc.ns[2])
    OBVIOUS
  <2>13. stmt.n = Node("insert", a, kids)
    BY <2>11, <2>12 DEF InsertNode
  <2>14. HasKids(stmt.n, "insert", a, kids)
    BY <2>12, <2>13, TwoKids
  <2>15. acc.rc.err = "" => Aims(b, "insert", a, kids)
    BY <2>10, <2>11 DEF Aims
  <2>16. renderInsert(h, rc, b) = Complete(h, b, stmt, acc.rc)
    BY <1>2, <2>1, <2>6, <2>8, <2>12 DEF renderInsert, Inserted
  <2>17. IsContext(acc.rc) /\ b.returning \in Seq(L)
    BY <2>9, KeptContext DEF DmlIn
  <2>18. QED
    BY <2>14, <2>15, <2>16, <2>17, CompleteNames
<1>3. QED
  BY <1>1, <1>2

(* So is an INSERT ... SELECT,                                              *)
LEMMA InsertFromNames ==
    ASSUME NEW h, NEW L, KeepsIn(h, L), NEW b, DmlIn(L, b), b.kind = "insertFrom",
           NEW rc, Aimed(rc, b)
    PROVE  Names(b, renderInsertFrom(h, rc, b))
<1>1. CASE rejectTenantInsertFrom(h, rc, b) # ""
  BY <1>1, RefusedNames DEF renderInsertFrom
<1>2. CASE rejectTenantInsertFrom(h, rc, b) = ""
  <2>1. PICK parts : parts = <<"query", "name">>
    OBVIOUS
  <2>2. PICK n \in Nat : n = 2
    OBVIOUS
  <2>3. PICK none : none = <<>>
    OBVIOUS
  <2>4. DOMAIN parts = 1 .. n /\ 2 \in 1 .. n /\ parts[2] = "name"
    BY <2>1, <2>2
  <2>5. \A i \in 1 .. n : PartOf(b, parts[i])
    <3>1. \A i \in 1 .. n : parts[i] \in {"query", "name"}
      BY <2>1, <2>2
    <3>2. QED
      BY <3>1 DEF PartOf, DmlPartNames
  <2>6. none \in Seq(Written(L))
    BY <2>3
  <2>7. PICK acc : acc = DmlParts(h, b, none, rc, parts)
    OBVIOUS
  <2>8. /\ Keeps(rc, acc.rc)
        /\ acc.rc.err = "" => \A i \in 1 .. n : NamedIn(rc, b, parts[i], acc.ns[i])
    BY <2>4, <2>5, <2>6, <2>7, DmlPartsDone DEF Aimed
  <2>9. acc.rc.err = "" => acc.ns[2] = Target(b)
    BY <2>4, <2>8 DEF NamedIn, Aimed
  <2>10. PICK cols : cols = SelectedColumns(h, b)
    OBVIOUS
  <2>11. PICK a : a = [name |-> acc.ns[2], base |-> b.table, columns |-> cols,
                       conflict |-> "none", target |-> none]
    OBVIOUS
  <2>12. PICK kids, stmt : /\ kids = <<acc.ns[1], Empty>>
                           /\ stmt = InsertNode(b, cols, "none", none, kids, acc.ns[2])
    OBVIOUS
  <2>13. stmt.n = Node("insert", a, kids)
    BY <2>11, <2>12 DEF InsertNode
  <2>14. HasKids(stmt.n, "insert", a, kids)
    BY <2>12, <2>13, TwoKids
  <2>15. acc.rc.err = "" => Aims(b, "insert", a, kids)
    BY <2>9, <2>11 DEF Aims
  <2>16. renderInsertFrom(h, rc, b) = Complete(h, b, stmt, acc.rc)
    BY <1>2, <2>1, <2>3, <2>7, <2>10, <2>12 DEF renderInsertFrom, InsertedFrom
  <2>17. IsContext(acc.rc) /\ b.returning \in Seq(L)
    BY <2>8, KeptContext DEF DmlIn
  <2>18. QED
    BY <2>14, <2>15, <2>16, <2>17, CompleteNames
<1>3. QED
  BY <1>1, <1>2

(* Arguments are put into another order; nothing else changes.              *)
LEMMA JoinArgsKeep ==
    ASSUME NEW spec, NEW b, NEW acc, IsContext(acc.rc)
    PROVE  Keeps(acc.rc, JoinArgsFirst(spec, b, acc))
<1>1. PICK r : r = JoinArgsFirst(spec, b, acc)
  OBVIOUS
<1>2. CASE b.joins = <<>> \/ ~spec.joinsBeforeSet
  <2>1. r = acc.rc
    BY <1>1, <1>2 DEF JoinArgsFirst
  <2>2. QED
    BY SMTT(30), <1>1, <2>1, KeepsSelf
<1>3. CASE ~(b.joins = <<>> \/ ~spec.joinsBeforeSet)
  <2>1. PICK args : args = SubSeq(acc.rc.args, 1, acc.marks[1])
                             \o SubSeq(acc.rc.args, acc.marks[2] + 1, acc.marks[3])
                             \o SubSeq(acc.rc.args, acc.marks[1] + 1, acc.marks[2])
                             \o SubSeq(acc.rc.args, acc.marks[3] + 1, acc.marks[4])
    OBVIOUS
  <2>2. r = [acc.rc EXCEPT !.args = args]
    BY <1>1, <1>3, <2>1 DEF JoinArgsFirst
  <2>3. SameNames(acc.rc, r)
    BY <2>2 DEF SameNames, SameScope, IsContext, ContextFields
  <2>4. QED
    BY SMTT(30), <1>1, <2>3, SameNamesKeep
<1>4. QED
  BY <1>2, <1>3

(* An UPDATE is of its first part,                                          *)
LEMMA UpdateKids ==
    ASSUME NEW spec, NEW target, NEW sets, NEW where, NEW joins
    PROVE  \E kids : /\ HasKids(RenderUpdate(spec, target, sets, where, joins).n, "update", 0, kids)
                     /\ kids[1] = target
<1>1. PICK st : st = RenderUpdate(spec, target, sets, where, joins)
  OBVIOUS
<1>2. CASE joins = <<>>
  <2>1. st.n = Node("update", 0, <<target, sets, where>>)
    BY <1>1, <1>2 DEF RenderUpdate
  <2>2. PICK kids : kids = <<target, sets, where>>
    OBVIOUS
  <2>3. HasKids(st.n, "update", 0, kids) /\ kids[1] = target
    BY <2>1, <2>2, ThreeKids
  <2>4. QED
    BY <1>1, <2>3
<1>3. CASE joins # <<>> /\ spec.joinsBeforeSet
  <2>1. PICK j : j = renderJoined(joins)
    OBVIOUS
  <2>2. st.n = Node("update", 0, <<target, j, sets, where>>)
    BY <1>1, <1>3, <2>1 DEF RenderUpdate
  <2>3. PICK kids : kids = <<target, j, sets, where>>
    OBVIOUS
  <2>4. HasKids(st.n, "update", 0, kids) /\ kids[1] = target
    BY <2>2, <2>3, FourKids
  <2>5. QED
    BY <1>1, <2>4
<1>4. CASE joins # <<>> /\ ~spec.joinsBeforeSet
  <2>1. PICK t, o : t = JoinTables(joins) /\ o = JoinOns(joins, where)
    OBVIOUS
  <2>2. st.n = Node("update", 0, <<target, sets, t, o>>)
    BY <1>1, <1>4, <2>1 DEF RenderUpdate
  <2>3. PICK kids : kids = <<target, sets, t, o>>
    OBVIOUS
  <2>4. HasKids(st.n, "update", 0, kids) /\ kids[1] = target
    BY <2>2, <2>3, FourKids
  <2>5. QED
    BY <1>1, <2>4
<1>5. QED
  BY <1>2, <1>3, <1>4

Deletes(n, target) == \E kids : HasKids(n, "delete", 0, kids) /\ kids[1] = target

(* and a DELETE, if it is put together at all.                              *)
LEMMA DeleteKids ==
    ASSUME NEW spec, NEW target, NEW joins, NEW where, NEW st, st = RenderDelete(spec, target, joins, where)
    PROVE  st.err # "" \/ Deletes(st.n, target)
<1>2. CASE joins = <<>>
  <2>1. st.n = Node("delete", 0, <<target, where>>)
    BY <1>2 DEF RenderDelete
  <2>2. PICK kids : kids = <<target, where>>
    OBVIOUS
  <2>3. HasKids(st.n, "delete", 0, kids) /\ kids[1] = target
    BY <2>1, <2>2, TwoKids
  <2>4. QED
    BY <2>3 DEF Deletes
<1>3. CASE joins # <<>> /\ spec.deleteJoins = "joined"
  <2>1. PICK j : j = renderJoined(joins)
    OBVIOUS
  <2>2. st.n = Node("delete", 0, <<target, j, where>>)
    BY <1>3, <2>1 DEF RenderDelete
  <2>3. PICK kids : kids = <<target, j, where>>
    OBVIOUS
  <2>4. HasKids(st.n, "delete", 0, kids) /\ kids[1] = target
    BY <2>2, <2>3, ThreeKids
  <2>5. QED
    BY <2>4 DEF Deletes
<1>4. CASE joins # <<>> /\ spec.deleteJoins = "using"
  <2>1. PICK t, o : t = JoinTables(joins) /\ o = JoinOns(joins, where)
    OBVIOUS
  <2>2. st.n = Node("delete", 0, <<target, t, o>>)
    <3>1. PICK e : e = IF joinsHaveOuter(joins) THEN "outer join" ELSE ""
      OBVIOUS
    <3>2. spec.deleteJoins # "joined"
      BY <1>4
    <3>3. st = [err |-> e, n |-> Node("delete", 0, <<target, t, o>>)]
      BY <1>4, <2>1, <3>1, <3>2 DEF RenderDelete
    <3>4. QED
      BY <3>3
  <2>3. PICK kids : kids = <<target, t, o>>
    OBVIOUS
  <2>4. HasKids(st.n, "delete", 0, kids) /\ kids[1] = target
    BY <2>2, <2>3, ThreeKids
  <2>5. QED
    BY <2>4 DEF Deletes
<1>5. CASE joins # <<>> /\ spec.deleteJoins # "joined" /\ spec.deleteJoins # "using"
  <2>1. PICK e : e = "delete join"
    OBVIOUS
  <2>2. st = [err |-> e, n |-> Empty]
    BY <1>5, <2>1 DEF RenderDelete
  <2>3. st.err = e
    BY <2>2
  <2>4. e # ""
    BY <2>1
  <2>5. QED
    BY <2>3, <2>4
<1>6. QED
  BY <1>2, <1>3, <1>4, <1>5

(* So is an UPDATE of the builder's table, and a soft DELETE,               *)
LEMMA UpdateNames ==
    ASSUME NEW h, NEW L, KeepsIn(h, L), NEW b, DmlIn(L, b), NEW rc, Aimed(rc, b),
           NEW sets \in Seq(Written(L))
    PROVE  Names(b, renderUpdateStatement(h, rc, b, sets))
<1>1. PICK parts : parts = <<"target", "sets", "joins", "where">>
  OBVIOUS
<1>2. PICK n \in Nat : n = 4
  OBVIOUS
<1>3. DOMAIN parts = 1 .. n /\ 1 \in 1 .. n /\ parts[1] = "target"
  BY <1>1, <1>2
<1>4. \A i \in 1 .. n : PartOf(b, parts[i])
  <2>1. \A i \in 1 .. n : parts[i] \in {"target", "sets", "joins", "where"}
    BY <1>1, <1>2
  <2>2. QED
    BY <2>1 DEF PartOf, DmlPartNames
<1>5. PICK acc : acc = DmlParts(h, b, sets, rc, parts)
  OBVIOUS
<1>6. /\ Keeps(rc, acc.rc)
      /\ acc.rc.err = "" => \A i \in 1 .. n : NamedIn(rc, b, parts[i], acc.ns[i])
  BY <1>3, <1>4, <1>5, DmlPartsDone DEF Aimed
<1>7. PICK spec, target : spec = DialectOf(rc) /\ target = acc.ns[1]
  OBVIOUS
<1>8. acc.rc.err = "" => target.a.name = Target(b)
  BY <1>3, <1>6, <1>7 DEF NamedIn, Aimed
<1>9. PICK stmt : stmt = RenderUpdate(spec, target, acc.ns[2], acc.ns[4], acc.ns[3])
  OBVIOUS
<1>10. PICK kids : HasKids(stmt.n, "update", 0, kids) /\ kids[1] = target
  BY <1>9, UpdateKids
<1>11. PICK r : r = JoinArgsFirst(spec, b, acc)
  OBVIOUS
<1>12. IsContext(acc.rc) /\ Keeps(acc.rc, r)
  BY <1>6, <1>11, KeptContext, JoinArgsKeep
<1>13. r.err = "" => Aims(b, "update", 0, kids)
  BY <1>8, <1>10, <1>12, KeptContext DEF Aims
<1>14. renderUpdateStatement(h, rc, b, sets) = Complete(h, b, stmt, r)
  BY <1>1, <1>5, <1>7, <1>9, <1>11 DEF renderUpdateStatement, Updated
<1>15. IsContext(r) /\ b.returning \in Seq(L)
  BY <1>12, KeptContext DEF DmlIn
<1>16. QED
  BY <1>10, <1>13, <1>14, <1>15, CompleteNames

(* and a DELETE.                                                            *)
LEMMA DeleteNames ==
    ASSUME NEW h, NEW L, KeepsIn(h, L), NEW b, DmlIn(L, b), NEW rc, Aimed(rc, b)
    PROVE  Names(b, renderDelete(h, rc, b))
<1>1. PICK parts : parts = <<"target", "joins", "where">>
  OBVIOUS
<1>2. PICK n \in Nat : n = 3
  OBVIOUS
<1>3. DOMAIN parts = 1 .. n /\ 1 \in 1 .. n /\ parts[1] = "target"
  BY <1>1, <1>2
<1>4. \A i \in 1 .. n : PartOf(b, parts[i])
  <2>1. \A i \in 1 .. n : parts[i] \in {"target", "joins", "where"}
    BY <1>1, <1>2
  <2>2. QED
    BY <2>1 DEF PartOf, DmlPartNames
<1>5. PICK none : none = <<>>
  OBVIOUS
<1>6. none \in Seq(Written(L))
  BY <1>5
<1>7. PICK acc : acc = DmlParts(h, b, none, rc, parts)
  OBVIOUS
<1>8. /\ Keeps(rc, acc.rc)
      /\ acc.rc.err = "" => \A i \in 1 .. n : NamedIn(rc, b, parts[i], acc.ns[i])
  BY <1>3, <1>4, <1>6, <1>7, DmlPartsDone DEF Aimed
<1>9. PICK spec, target : spec = DialectOf(rc) /\ target = acc.ns[1]
  OBVIOUS
<1>10. acc.rc.err = "" => target.a.name = Target(b)
  BY <1>3, <1>8, <1>9 DEF NamedIn, Aimed
<1>11. PICK stmt : stmt = RenderDelete(spec, target, acc.ns[2], acc.ns[3])
  OBVIOUS
<1>12. renderDelete(h, rc, b) = Complete(h, b, stmt, acc.rc)
  BY <1>1, <1>5, <1>7, <1>9, <1>11 DEF renderDelete, Deleted
<1>13. IsContext(acc.rc) /\ b.returning \in Seq(L)
  BY <1>8, KeptContext DEF DmlIn
<1>14. CASE stmt.err # ""
  BY <1>12, <1>14, CompleteRefuses
<1>15. CASE Deletes(stmt.n, target)
  <2>1. PICK kids : HasKids(stmt.n, "delete", 0, kids) /\ kids[1] = target
    BY <1>15 DEF Deletes
  <2>2. acc.rc.err = "" => Aims(b, "delete", 0, kids)
    BY <1>10, <2>1 DEF Aims
  <2>3. QED
    BY <1>12, <1>13, <2>1, <2>2, CompleteNames
<1>16. QED
  BY <1>11, <1>14, <1>15, DeleteKids

(* What is set is made of the expressions of the builder.                   *)
LEMMA UpdateSetsIn ==
    ASSUME NEW L, NEW b, DmlIn(L, b)
    PROVE  UpdateSets(b) \in Seq(Written(L))
<1>1. CASE b.kind = "delete"
  <2>1. PICK W, v : W = Written(L) /\ v = Val(1)
    OBVIOUS
  <2>2. PICK c : c = columnValue("del", v)
    OBVIOUS
  <2>3. c \in W
    BY <2>1, <2>2 DEF columnValue, Written, DmlIn, ColumnNames
  <2>4. UpdateSets(b) = <<c>>
    BY <1>1, <2>1, <2>2 DEF UpdateSets
  <2>5. <<c>> \in Seq(W)
    BY <2>3
  <2>6. QED
    BY <2>1, <2>4, <2>5
<1>2. CASE b.kind # "delete"
  BY <1>2 DEF UpdateSets, DmlIn
<1>3. QED
  BY <1>1, <1>2

(* Every statement of a builder is of its table.                            *)
LEMMA RenderDmlNames ==
    ASSUME NEW h, NEW L, KeepsIn(h, L), NEW b, DmlIn(L, b), NEW rc, Aimed(rc, b)
    PROVE  Names(b, RenderDml(h, rc, b))
<1>1. CASE b.kind = "insert"
  <2>1. RenderDml(h, rc, b) = renderInsert(h, rc, b)
    BY <1>1 DEF RenderDml, SoftDelete
  <2>2. QED
    BY <2>1, InsertNames
<1>2. CASE b.kind = "insertFrom"
  <2>1. RenderDml(h, rc, b) = renderInsertFrom(h, rc, b)
    BY <1>2 DEF RenderDml, SoftDelete
  <2>2. QED
    BY <1>2, <2>1, InsertFromNames
<1>3. CASE b.kind = "update" \/ SoftDelete(b)
  <2>1. RenderDml(h, rc, b) = renderUpdate(h, rc, b)
    BY <1>3 DEF RenderDml, SoftDelete
  <2>2. CASE UpdateRefusal(rc, b) # ""
    BY <2>1, <2>2, RefusedNames DEF renderUpdate
  <2>3. CASE UpdateRefusal(rc, b) = ""
    <3>1. renderUpdate(h, rc, b) = renderUpdateStatement(h, rc, b, UpdateSets(b))
      BY <2>3 DEF renderUpdate
    <3>2. QED
      BY <2>1, <3>1, UpdateSetsIn, UpdateNames
  <2>4. QED
    BY <2>2, <2>3
<1>4. CASE b.kind = "delete" /\ ~SoftDelete(b)
  <2>1. RenderDml(h, rc, b) = renderDelete(h, rc, b)
    BY <1>4 DEF RenderDml
  <2>2. QED
    BY <2>1, DeleteNames
<1>5. QED
  BY <1>1, <1>2, <1>3, <1>4 DEF DmlIn, All

(* A statement begins in the scope of its own builder, whatever was        *)
(* rendered before it.                                                      *)
LEMMA ToSqlNames ==
    ASSUME NEW h, NEW L, KeepsIn(h, L), NEW id, DmlIn(L, h[id]), NEW d
    PROVE  Names(h[id], ToSqlOf(h, id, d))
<1>1. PICK b : b = h[id]
  OBVIOUS
<1>2. PICK rc : rc = Begun(h, id, d)
  OBVIOUS
<1>3. Aimed(rc, b)
  BY <1>1, <1>2, BegunContext DEF Aimed
<1>4. CASE b.err # ""
  BY <1>1, <1>4, RefusedNames DEF ToSqlOf
<1>5. CASE b.err = "" /\ b.kind = "update" /\ b.batchUpdateRows # <<>>
  <2>1. ToSqlOf(h, id, d) = Refused("use Exec")
    BY <1>1, <1>5 DEF ToSqlOf
  <2>2. QED
    BY <1>1, <2>1, RefusedNames
<1>6. CASE b.err = "" /\ ~(b.kind = "update" /\ b.batchUpdateRows # <<>>)
  <2>1. ToSqlOf(h, id, d) = RenderDml(h, rc, b)
    BY <1>1, <1>2, <1>6 DEF ToSqlOf
  <2>2. QED
    BY <1>1, <1>3, <2>1, RenderDmlNames
<1>7. QED
  BY <1>4, <1>5, <1>6

(* The statement for a record is made of the parts above. *)
LEMMA BatchRowIs ==
    ASSUME NEW h, NEW b, NEW rc, NEW row
    PROVE  BatchRow(h, b, rc, row)
             = Batched(rejectTenantSets(rc, b, SetsOf(b, row)), b, BatchPartsOf(h, b, row, rc))
  BY DEF BatchRow, BatchPartsOf

(* So does the statement for one record.                                    *)
LEMMA BatchStatementNames ==
    ASSUME NEW h, NEW L, KeepsIn(h, L), NEW id, DmlIn(L, h[id]), NEW d, NEW row \in Seq(Written(L))
    PROVE  Names(h[id], BatchStatement(h, id, d, row))
<1>1. PICK b : b = h[id]
  OBVIOUS
<1>2. PICK rc : rc = Begun(h, id, d)
  OBVIOUS
<1>3. IsContext(rc) /\ NameIn(rc, b.table) = Target(b)
  BY <1>1, <1>2, BegunContext
<1>4. PICK acc : acc = BatchPartsOf(h, b, row, rc)
  OBVIOUS
<1>5. acc.rc.err = "" => acc.ns[2] = Target(b)
  <2>1. DmlIn(L, b) /\ IsContext(rc)
    BY <1>1, <1>3
  <2>2. acc.rc.err = "" => acc.ns[2] = NameIn(rc, b.table)
    <3>1. NamesSecond(rc, b, acc)
      BY <1>4, <2>1, BatchPartsDone
    <3>2. QED
      BY <3>1 DEF NamesSecond
  <2>3. QED
    BY <1>3, <2>2
<1>6. PICK err, n : err = rejectTenantSets(rc, b, SetsOf(b, row)) /\ n = BatchNode(b, acc)
  OBVIOUS
<1>7. PICK st : st = BatchStatement(h, id, d, row)
  OBVIOUS
<1>8. IsStatement(st, err, acc.rc, n)
  <2>1. st = BatchRow(h, b, rc, row)
    BY <1>1, <1>2, <1>7 DEF BatchStatement
  <2>2. st = Batched(err, b, acc)
    BY <1>4, <1>6, <2>1, BatchRowIs
  <2>3. QED
    BY <1>6, <2>2 DEF Batched, IsStatement
<1>9. n.t = "update" /\ n.kids[1].a.name = acc.ns[2]
  <2>1. PICK k1, k2, k3 :
          /\ k1 = Leaf("scan", [name |-> acc.ns[2], base |-> b.table, by |-> acc.rc.path, as |-> acc.ns[2]])
          /\ k2 = acc.ns[1] /\ k3 = Node("where", 0, acc.ns[3] \o acc.ns[4].kids)
    OBVIOUS
  <2>2. n = Node("update", 0, <<k1, k2, k3>>)
    BY <1>6, <2>1 DEF BatchNode
  <2>3. n.t = "update" /\ n.kids[1] = k1
    BY <2>2 DEF Node
  <2>4. k1.a.name = acc.ns[2]
    BY <2>1 DEF Leaf, Node
  <2>5. QED
    BY <2>3, <2>4
<1>10. CASE st.err = ""
  <2>1. acc.rc.err = "" /\ st.n = n
    BY <1>8, <1>10, StatementIs
  <2>2. QED
    BY <1>1, <1>5, <1>7, <1>9, <2>1 DEF Names, TargetOf
<1>11. CASE st.err # ""
  BY <1>1, <1>7, <1>11 DEF Names
<1>12. QED
  BY <1>10, <1>11

-----------------------------------------------------------------------------
(* All the statements of one execution. *)

(* Statements there are, each of the builder's table.                       *)
AllName(b, stmts) ==
    Sequence(stmts) /\ Len(stmts) > 0 /\ \A i \in DOMAIN stmts : Names(b, stmts[i])

(* One statement. *)
LEMMA OneNames ==
    ASSUME NEW b, NEW st, Names(b, st)
    PROVE  AllName(b, <<st>>)
<1>1. PICK n \in Nat : n = 1
  OBVIOUS
<1>2. PICK s : s = <<st>>
  OBVIOUS
<1>3. s = [i \in 1 .. n |-> s[i]] /\ Len(s) = 1 /\ \A i \in DOMAIN s : s[i] = st
  BY <1>1, <1>2
<1>4. AllName(b, s)
  BY <1>3 DEF AllName, Sequence
<1>5. QED
  BY <1>2, <1>4

(* One for each of several. *)
LEMMA SeveralName ==
    ASSUME NEW b, NEW n \in Nat, n > 0, NEW s, NEW stmts, stmts = [i \in 1 .. n |-> s[i]],
           \A i \in 1 .. n : Names(b, s[i])
    PROVE  AllName(b, stmts)
<1>1. stmts = [i \in 1 .. n |-> stmts[i]] /\ Len(stmts) = n /\ DOMAIN stmts = 1 .. n
  OBVIOUS
<1>2. \A i \in 1 .. n : stmts[i] = s[i]
  OBVIOUS
<1>3. QED
  BY <1>1, <1>2 DEF AllName, Sequence

(* The records of a batch that set something.                               *)
LEMMA BatchRowsIn ==
    ASSUME NEW R, NEW b, b.batchUpdateRows \in Seq(R)
    PROVE  BatchRows(b) \in Seq(R)
<1>1. PICK s, is : s = b.batchUpdateRows /\ is = {i \in DOMAIN s : SetsOf(b, s[i]) # <<>>}
  OBVIOUS
<1>2. is \in SUBSET DOMAIN s
  BY <1>1
<1>3. BatchRows(b) = Chosen(s, is)
  BY <1>1 DEF BatchRows, Filter
<1>4. QED
  BY <1>1, <1>2, <1>3, ChosenIn

(* One error of four. *)
LEMMA LastOfFour ==
    ASSUME NEW e1, NEW e2, NEW e3, NEW e4, NoErrorOf(<<e1, e2, e3, e4>>)
    PROVE  e4 = ""
<1>1. PICK es : es = <<e1, e2, e3, e4>>
  OBVIOUS
<1>2. PICK n \in Nat : n = 4
  OBVIOUS
<1>3. DOMAIN es = 1 .. n /\ 4 \in 1 .. n /\ es[4] = e4
  BY <1>1, <1>2
<1>4. es[4] = ""
  BY <1>1, <1>3, NoFirstError
<1>5. QED
  BY <1>3, <1>4

BatchTaken(b) == BatchRefusal(b) = ""

(* A batch that is not refused has some. *)
LEMMA BatchHasRows ==
    ASSUME NEW b, BatchTaken(b)
    PROVE  BatchRows(b) # <<>>
<1>1. PICK few, no : few = "no records" /\ no = ""
  OBVIOUS
<1>2. PICK e4 : e4 = IF BatchRows(b) = <<>> THEN few ELSE no
  OBVIOUS
<1>3. PICK e1, e2, e3 :
        /\ e1 = IF b.joins # <<>> THEN "batch join" ELSE ""
        /\ e2 = IF KeysOf(b) = <<>> THEN "no keys" ELSE ""
        /\ e3 = IF validateBatchUpdateKeys(b) THEN "" ELSE "key columns"
  OBVIOUS
<1>4. NoErrorOf(<<e1, e2, e3, e4>>)
  BY <1>1, <1>2, <1>3 DEF BatchTaken, BatchRefusal, NoErrorOf
<1>5. e4 = no
  BY <1>1, <1>4, LastOfFour
<1>6. few # no
  BY <1>1
<1>7. QED
  BY <1>2, <1>5, <1>6, Zenon

(* A batch update: all the statements, or one error.                        *)
LEMMA BatchNames ==
    ASSUME NEW h, NEW L, KeepsIn(h, L), NEW id, DmlIn(L, h[id]), NEW d
    PROVE  AllName(h[id], renderBatchDML(h, id, d))
<1>1. PICK b : b = h[id]
  OBVIOUS
<1>2. CASE BatchRefusal(b) # ""
  <2>1. renderBatchDML(h, id, d) = <<Refused(BatchRefusal(b))>>
    BY <1>1, <1>2 DEF renderBatchDML
  <2>2. Names(b, Refused(BatchRefusal(b)))
    BY <1>2, RefusedNames
  <2>3. QED
    BY <1>1, <2>1, <2>2, OneNames
<1>3. CASE BatchRefusal(b) = ""
  <2>1. PICK rows : rows = BatchRows(b)
    OBVIOUS
  <2>2. rows \in Seq(Seq(Written(L))) /\ rows # <<>>
    <3>1. PICK R : R = Seq(Written(L))
      OBVIOUS
    <3>2. b.batchUpdateRows \in Seq(R)
      BY <1>1, <3>1 DEF DmlIn
    <3>3. rows \in Seq(R)
      BY <2>1, <3>2, BatchRowsIn
    <3>4. BatchTaken(b)
      BY ZenonT(60), <1>3 DEF BatchTaken
    <3>5. QED
      BY <2>1, <3>1, <3>3, <3>4, BatchHasRows
  <2>3. PICK n \in Nat : n > 0 /\ DOMAIN rows = 1 .. n /\ \A i \in 1 .. n : rows[i] \in Seq(Written(L))
    <3>1. PICK R : R = Seq(Written(L))
      OBVIOUS
    <3>2. rows \in Seq(R) /\ rows # <<>>
      BY <2>2, <3>1
    <3>3. /\ Len(rows) \in Nat /\ Len(rows) > 0 /\ DOMAIN rows = 1 .. Len(rows)
          /\ \A i \in 1 .. Len(rows) : rows[i] \in R
      BY <3>2, LenProperties, ElementOfSeq, EmptySeq
    <3>4. QED
      BY <3>1, <3>3
  <2>4. PICK s : s = [i \in 1 .. n |-> BatchStatement(h, id, d, rows[i])]
    OBVIOUS
  <2>5. \A i \in 1 .. n : s[i] = BatchStatement(h, id, d, rows[i])
    BY <2>4
  <2>6. \A i \in 1 .. n : Names(b, s[i])
    BY <1>1, <2>3, <2>5, BatchStatementNames
  <2>7. s = [i \in 1 .. n |-> s[i]]
    BY <2>4
  <2>8. AllName(b, s)
    BY <2>3, <2>6, <2>7, SeveralName
  <2>9. renderBatchDML(h, id, d) = AllOrError(s)
    BY <1>1, <1>3, <2>1, <2>3, <2>4 DEF renderBatchDML
  <2>10. PICK err : err = FirstError([i \in DOMAIN s |-> s[i].err])
    OBVIOUS
  <2>11. CASE err # ""
    <3>1. AllOrError(s) = <<Refused(err)>>
      BY <2>10, <2>11 DEF AllOrError
    <3>2. Names(b, Refused(err))
      BY <2>11, RefusedNames
    <3>3. QED
      BY <1>1, <2>9, <3>1, <3>2, OneNames
  <2>12. CASE err = ""
    <3>1. AllOrError(s) = s
      BY <2>10, <2>12 DEF AllOrError
    <3>2. QED
      BY <1>1, <2>8, <2>9, <3>1
  <2>13. QED
    BY <2>11, <2>12
<1>4. QED
  BY <1>2, <1>3

-----------------------------------------------------------------------------
(* Heaps. *)

(* A heap whose builders are made of the expressions of T, those of E among *)
(* them, which end over it.                                                 *)
DmlHeapOver(E, h, T, rank) ==
    /\ E \subseteq T /\ HeapOver(h, T, rank)
    /\ \A i \in DOMAIN h : IsDML(h[i]) => DmlIn(T, h[i])
DmlHeap(E, h) == \E T, rank : DmlHeapOver(E, h, T, rank)

(* Render is the recursion it is meant to be. *)
RenderIsRecursion == \A h, S, rank : HeapOver(h, S, rank) => RenderRecurses(h, S)

(* Over such a heap everything is rendered in its own scope.                *)
LEMMA HeapKeeps ==
    ASSUME RenderIsRecursion, NEW h, NEW T, NEW rank, HeapOver(h, T, rank)
    PROVE  KeepsIn(h, T)
<1>1. RenderRecurses(h, T)
  BY DEF RenderIsRecursion
<1>2. Ranked(h, T, rank)
  BY DEF HeapOver
<1>3. QED
  BY <1>1, <1>2, RenderingKeeps

(* A DML builder is one by its fields.                                      *)
LEMMA DmlIsDML ==
    ASSUME NEW L, NEW b, DmlIn(L, b)
    PROVE  IsDML(b)
  BY DEF DmlIn, DMLFields, IsDML

(* One builder changes.                                                     *)
LEMMA BuilderPut ==
    ASSUME NEW E, NEW h, NEW T, NEW rank, DmlHeapOver(E, h, T, rank),
           NEW id \in DOMAIN h, IsDML(h[id]), NEW b, DmlIn(T, b),
           NEW g, g = [h EXCEPT ![id] = b]
    PROVE  DmlHeapOver(E, g, T, rank) /\ g[id] = b /\ DOMAIN g = DOMAIN h
<1>1. HeapOver(g, T, rank)
  BY OtherBuilder DEF DmlHeapOver
<1>2. DOMAIN g = DOMAIN h /\ g[id] = b /\ \A i \in DOMAIN h : i # id => g[i] = h[i]
  OBVIOUS
<1>3. \A i \in DOMAIN g : IsDML(g[i]) => DmlIn(T, g[i])
  BY <1>2 DEF DmlHeapOver
<1>4. QED
  BY <1>1, <1>2, <1>3 DEF DmlHeapOver

ChunkStatement(h, id, rows, d) == ToSqlOf([h EXCEPT ![id].insertRows = rows], id, d)

(* A chunk is rendered in the builder's place: its statement is of the      *)
(* builder's table too.                                                     *)
LEMMA ChunkNames ==
    ASSUME RenderIsRecursion, NEW E, NEW h, NEW T, NEW rank, DmlHeapOver(E, h, T, rank),
           NEW id \in DOMAIN h, IsDML(h[id]), NEW rows \in Seq(Seq(Written(T))), NEW d
    PROVE  Names(h[id], ChunkStatement(h, id, rows, d))
<1>1. PICK b : b = h[id]
  OBVIOUS
<1>2. DmlIn(T, b)
  BY <1>1 DEF DmlHeapOver
<1>3. PICK c : c = [b EXCEPT !.insertRows = rows]
  OBVIOUS
<1>4. DmlIn(T, c)
  BY <1>2, <1>3 DEF DmlIn, DMLFields
<1>5. Target(c) = Target(b)
  BY <1>2, <1>3 DEF DmlIn, DMLFields, Target
<1>6. PICK g : g = [h EXCEPT ![id] = c]
  OBVIOUS
<1>7. DmlHeapOver(E, g, T, rank) /\ g[id] = c
  BY <1>4, <1>6, BuilderPut
<1>8. KeepsIn(g, T)
  BY <1>7, HeapKeeps DEF DmlHeapOver
<1>9. Names(c, ToSqlOf(g, id, d))
  BY <1>4, <1>7, <1>8, ToSqlNames
<1>10. g = [h EXCEPT ![id].insertRows = rows]
  BY <1>1, <1>3, <1>6
<1>11. QED
  BY <1>1, <1>5, <1>9, <1>10 DEF Names, ChunkStatement

(* The chunks of rows, as a sequence of sequences of them. *)
LEMMA ChunksIn ==
    ASSUME NEW R, NEW b, b.insertRows \in Seq(R), b.batch \in Int
    PROVE  Chunks(b) \in Seq(Seq(R)) /\ Chunks(b) # <<>>
<1>1. PICK rows, batch : rows = b.insertRows /\ batch = b.batch
  OBVIOUS
<1>2. PICK split : split = splitInsertChunks(rows, batch)
  OBVIOUS
<1>3. split \in Seq(Seq(R))
  <2>1. PICK groups : groups = groupInsertRows(rows)
    OBVIOUS
  <2>2. groups \in Seq(Seq(R)) /\ AllGrouped(groups)
    BY <1>1, <2>1, GroupsKeepRows
  <2>3. CASE batch <= 0
    BY <1>2, <2>1, <2>2, <2>3 DEF splitInsertChunks
  <2>4. CASE ~(batch <= 0)
    <3>1. batch \in Nat /\ batch > 0
      BY <1>1, <2>4
    <3>2. split = FlattenSeq([i \in DOMAIN groups |-> Cut(groups[i], batch)])
      BY <1>2, <2>1, <2>4 DEF splitInsertChunks
    <3>3. QED
      BY <2>2, <3>1, <3>2, CutsKeepRows
  <2>5. QED
    BY <2>3, <2>4
<1>4. CASE b.kind = "insert" /\ Len(split) > 1
  <2>1. Chunks(b) = split
    BY <1>1, <1>2, <1>4 DEF Chunks
  <2>2. split # <<>>
    BY <1>4
  <2>3. QED
    BY <1>3, <2>1, <2>2
<1>5. CASE ~(b.kind = "insert" /\ Len(split) > 1)
  <2>1. PICK one : one = <<rows>>
    OBVIOUS
  <2>2. Chunks(b) = one
    BY <1>1, <1>2, <1>5, <2>1 DEF Chunks
  <2>3. one \in Seq(Seq(R)) /\ one # <<>>
    BY <1>1, <2>1
  <2>4. QED
    BY <2>2, <2>3
<1>6. QED
  BY <1>4, <1>5

(* Every statement of an execution is of its builder's table, in the shard  *)
(* of the builder's own ShardBy (dml_exec.go, render.go).                   *)
LEMMA StatementsName ==
    ASSUME RenderIsRecursion, NEW E, NEW h, DmlHeap(E, h), NEW id \in DOMAIN h, IsDML(h[id]), NEW d
    PROVE  AllName(h[id], Statements(h, id, d)) /\ AllName(h[id], readReturning(h, id, d))
<1>1. PICK T, rank : DmlHeapOver(E, h, T, rank)
  BY DEF DmlHeap
<1>2. PICK b : b = h[id]
  OBVIOUS
<1>3. DmlIn(T, b) /\ KeepsIn(h, T)
  BY <1>1, <1>2, HeapKeeps DEF DmlHeapOver
<1>4. AllName(b, Statements(h, id, d))
  <2>1. CASE b.err = "" /\ b.kind = "update" /\ b.batchUpdateRows # <<>>
    <3>1. Statements(h, id, d) = renderBatchDML(h, id, d)
      BY <1>2, <2>1 DEF Statements
    <3>2. QED
      BY <1>2, <1>3, <3>1, BatchNames
  <2>2. CASE ~(b.err = "" /\ b.kind = "update" /\ b.batchUpdateRows # <<>>)
    <3>1. PICK R, chunks : R = Seq(Written(T)) /\ chunks = Chunks(b)
      OBVIOUS
    <3>2. chunks \in Seq(Seq(R)) /\ chunks # <<>>
      BY <1>3, <3>1, ChunksIn DEF DmlIn
    <3>3. PICK n \in Nat : n > 0 /\ DOMAIN chunks = 1 .. n /\ \A i \in 1 .. n : chunks[i] \in Seq(R)
      <4>1. PICK RR : RR = Seq(R)
        OBVIOUS
      <4>2. chunks \in Seq(RR) /\ chunks # <<>>
        BY <3>2, <4>1
      <4>3. /\ Len(chunks) \in Nat /\ Len(chunks) > 0 /\ DOMAIN chunks = 1 .. Len(chunks)
            /\ \A i \in 1 .. Len(chunks) : chunks[i] \in RR
        BY <4>2, LenProperties, ElementOfSeq, EmptySeq
      <4>4. QED
        BY <4>1, <4>3
    <3>4. PICK s : s = [i \in 1 .. n |-> ChunkStatement(h, id, chunks[i], d)]
      OBVIOUS
    <3>5. \A i \in 1 .. n : Names(b, s[i])
      <4>1. \A i \in 1 .. n : s[i] = ChunkStatement(h, id, chunks[i], d)
        BY <3>4
      <4>2. \A i \in 1 .. n : chunks[i] \in Seq(Seq(Written(T)))
        BY <3>1, <3>3
      <4>3. QED
        BY <1>1, <1>2, <4>1, <4>2, ChunkNames
    <3>6. s = [i \in 1 .. n |-> s[i]]
      BY <3>4
    <3>7. AllName(b, s)
      BY <3>3, <3>5, <3>6, SeveralName
    <3>8. Statements(h, id, d) = s
      BY <1>2, <2>2, <3>1, <3>3, <3>4 DEF Statements, ChunkStatement
    <3>9. QED
      BY <3>7, <3>8
  <2>3. QED
    BY <2>1, <2>2
<1>5. AllName(b, readReturning(h, id, d))
  <2>1. CASE Len(b.returning) # 1
    <3>1. readReturning(h, id, d) = <<Refused("one column")>>
      BY <1>2, <2>1 DEF readReturning
    <3>2. Names(b, Refused("one column"))
      BY RefusedNames
    <3>3. QED
      BY <3>1, <3>2, OneNames
  <2>2. CASE Len(b.returning) = 1
    <3>1. readReturning(h, id, d) = <<ToSqlOf(h, id, d)>>
      BY <1>2, <2>2 DEF readReturning
    <3>2. Names(b, ToSqlOf(h, id, d))
      BY <1>2, <1>3, ToSqlNames
    <3>3. QED
      BY <3>1, <3>2, OneNames
  <2>3. QED
    BY <2>1, <2>2
<1>6. QED
  BY <1>2, <1>4, <1>5

-----------------------------------------------------------------------------
(* The database. *)

(* What the database has done is to one table. *)
OnlyAt(data, name, r) == r.ok => \E rows : r.db = [data EXCEPT ![name] = rows]

(* A statement that is done changes the table it is of (Changes.tla).       *)
LEMMA ApplyOnlyAt ==
    ASSUME NEW data, NEW n, NEW q
    PROVE  OnlyAt(data, TargetOf(n), Apply(data, n, q))
<1>1. OnlyAt(data, TargetOf(n), Refusal)
  BY DEF OnlyAt, Refusal
<1>2. ASSUME NEW name, NEW rows, NEW k
      PROVE  OnlyAt(data, name, Changed(data, name, rows, k))
  <2>1. Changed(data, name, rows, k).db = [data EXCEPT ![name] = rows]
    BY DEF Changed
  <2>2. QED
    BY <2>1 DEF OnlyAt
<1>3. CASE ~NamesResolve(n)
  BY <1>1, <1>3 DEF Apply
<1>4. CASE NamesResolve(n) /\ n.t = "insert"
  <2>1. PICK p, given : p = InDb(q, data) /\ given = Given(n.kids[1], p)
    OBVIOUS
  <2>2. Apply(data, n, q) = InsertAll(data, n, p, given)
    BY <1>4, <2>1 DEF Apply, ApplyInsert
  <2>3. PICK all : InsertAll(data, n, p, given) \in {Outcome(data, n.a.name, all), Refusal}
    BY DEF InsertAll
  <2>4. Outcome(data, n.a.name, all) \in {Changed(data, n.a.name, all.rows, all.n), Refusal}
    BY DEF Outcome
  <2>5. TargetOf(n) = n.a.name
    BY <1>4 DEF TargetOf
  <2>6. QED
    BY <1>1, <1>2, <2>2, <2>3, <2>4, <2>5
<1>5. CASE NamesResolve(n) /\ n.t # "insert"
  <2>1. PICK p, name : p = InDb(q, data) /\ name = n.kids[1].a.name
    OBVIOUS
  <2>2. PICK rows, hits : Apply(data, n, q) = Change(data, n, p, rows, hits)
    BY <1>5, <2>1 DEF Apply, ApplyChange, ChangeRows
  <2>3. \E new, k : Change(data, n, p, rows, hits) \in {Changed(data, name, new, k), Refusal}
    BY <2>1 DEF Change
  <2>4. TargetOf(n) = name
    BY <1>5, <2>1 DEF TargetOf
  <2>5. QED
    BY <1>1, <1>2, <2>2, <2>3, <2>4
<1>6. QED
  BY <1>3, <1>4, <1>5

-----------------------------------------------------------------------------
(* The calls that build a statement. *)

(* What the calls take is made of the expressions of L. *)
InputsIn(L) ==
    /\ \A i \in DOMAIN Records : Records[i] \in Seq(Written(L))
    /\ \A i \in DOMAIN Tuples : Tuples[i] \in Seq(L)
    /\ \A i \in DOMAIN Assignable : Assignable[i] \in Written(L)
    /\ \A i \in DOMAIN Predicates : Predicates[i] \in L
    /\ \A i \in DOMAIN Joins : JoinIn(L, Joins[i])
    /\ \A i \in DOMAIN Targets : Targets[i] \in Seq(ColumnNames)
    /\ Batches \subseteq Int /\ \A ids \in TenantLists : Sequence(ids)

(* A builder is replaced by another of the same expressions. *)
Puts(L, p) ==
    /\ \E b : DmlIn(L, b) /\ heap' = [heap EXCEPT ![p] = b]
    /\ UNCHANGED <<db, run>>

(* Inputs made of fewer expressions are made of more.                       *)
LEMMA InputsInMore ==
    ASSUME NEW L, NEW M, L \subseteq M, InputsIn(L)
    PROVE  InputsIn(M)
<1>1. PICK V, W : V = Written(L) /\ W = Written(M)
  OBVIOUS
<1>2. V \subseteq W
  BY <1>1 DEF Written
<1>3. \A s \in Seq(V) : s \in Seq(W)
  BY <1>2, SeqMonotonic
<1>4. \A s \in Seq(L) : s \in Seq(M)
  BY SeqMonotonic
<1>5. \A i \in DOMAIN Joins : JoinIn(M, Joins[i])
  BY InMore DEF InputsIn
<1>6. QED
  BY <1>1, <1>2, <1>3, <1>4, <1>5 DEF InputsIn

(* One value more, or several. *)
LEMMA MoreOf ==
    ASSUME NEW T, NEW s \in Seq(T)
    PROVE  (\A e \in T : Append(s, e) \in Seq(T)) /\ (\A r \in Seq(T) : s \o r \in Seq(T))
  OBVIOUS

(* A call that puts such a builder there.                                   *)
LEMMA CallPuts ==
    ASSUME NEW L, NEW p, NEW kinds, NEW b, DmlIn(L, b), Call(p, kinds, b)
    PROVE  Puts(L, p)
<1>1. heap' = [heap EXCEPT ![p] = b] /\ UNCHANGED <<db, run>>
  BY DEF Call
<1>2. QED
  BY <1>1 DEF Puts

(* The column and the key lists of the builder grow,                        *)
LEMMA ColumnsPuts ==
    ASSUME NEW L, InputsIn(L), NEW p, DmlIn(L, B(p)), Columns(p)
    PROVE  Puts(L, p)
<1>1. PICK b : b = B(p)
  OBVIOUS
<1>2. PICK i \in DOMAIN Targets : Call(p, {"insert"}, [b EXCEPT !.insertColumns = @ \o Targets[i]])
  BY <1>1 DEF Columns
<1>3. PICK cols : cols = b.insertColumns \o Targets[i]
  OBVIOUS
<1>4. cols \in Seq(ColumnNames)
  <2>1. b.insertColumns \in Seq(ColumnNames) /\ Targets[i] \in Seq(ColumnNames)
    BY <1>1, <1>2 DEF DmlIn, InputsIn
  <2>2. PICK C : C = ColumnNames
    OBVIOUS
  <2>3. QED
    BY <1>3, <2>1, <2>2, MoreOf
<1>5. PICK c : c = [b EXCEPT !.insertColumns = cols]
  OBVIOUS
<1>6. DmlIn(L, c)
  BY <1>1, <1>4, <1>5 DEF DmlIn, DMLFields
<1>7. Call(p, {"insert"}, c)
  BY <1>2, <1>3, <1>5
<1>8. QED
  BY <1>6, <1>7, CallPuts

(* those of a batch update,                                                 *)
LEMMA KeysPuts ==
    ASSUME NEW L, InputsIn(L), NEW p, DmlIn(L, B(p)), Keys(p)
    PROVE  Puts(L, p)
<1>1. PICK b : b = B(p)
  OBVIOUS
<1>2. PICK i \in DOMAIN Targets : Call(p, {"update"}, [b EXCEPT !.updateKeys = @ \o Targets[i]])
  BY <1>1 DEF Keys
<1>3. PICK keys : keys = b.updateKeys \o Targets[i]
  OBVIOUS
<1>4. PICK c : c = [b EXCEPT !.updateKeys = keys]
  OBVIOUS
<1>5. DmlIn(L, c)
  BY <1>1, <1>4 DEF DmlIn, DMLFields
<1>6. Call(p, {"update"}, c)
  BY <1>2, <1>3, <1>4
<1>7. QED
  BY <1>5, <1>6, CallPuts

AfterValues(b, tuple) ==
    IF b.err # "" THEN b
    ELSE IF b.kind # "insert" THEN [b EXCEPT !.err = "values"]
    ELSE IF b.insertColumns = <<>> THEN b
    ELSE IF Len(tuple) # Len(b.insertColumns) THEN [b EXCEPT !.err = "count"]
    ELSE [b EXCEPT !.insertRows = Append(@, [j \in DOMAIN tuple |-> columnValue(b.insertColumns[j], tuple[j])])]

(* a row of values is written column by column, or the call is refused,     *)
LEMMA ValuesPuts ==
    ASSUME NEW L, InputsIn(L), NEW p, DmlIn(L, B(p)), Values(p)
    PROVE  Puts(L, p)
<1>1. PICK b : b = B(p)
  OBVIOUS
<1>2. PICK i \in DOMAIN Tuples : Call(p, {"insert", "update"}, AfterValues(b, Tuples[i]))
  BY <1>1 DEF Values, AfterValues
<1>8. PICK c : c = AfterValues(b, Tuples[i])
  OBVIOUS
<1>9. Call(p, {"insert", "update"}, c)
  BY <1>2, <1>8
<1>3. DmlIn(L, b)
  BY <1>1
<1>4. \A e : DmlIn(L, [b EXCEPT !.err = e])
  BY <1>3 DEF DmlIn, DMLFields
<1>5. CASE Len(Tuples[i]) = Len(b.insertColumns)
  <2>1. PICK tuple, cols : tuple = Tuples[i] /\ cols = b.insertColumns
    OBVIOUS
  <2>2. tuple \in Seq(L) /\ cols \in Seq(ColumnNames)
    BY SMTT(30), <1>2, <1>3, <2>1 DEF DmlIn, InputsIn
  <2>3. PICK n \in Nat : /\ DOMAIN tuple = 1 .. n /\ \A j \in 1 .. n : tuple[j] \in L
                         /\ \A j \in 1 .. n : cols[j] \in ColumnNames
    <3>1. PICK C : C = ColumnNames
      OBVIOUS
    <3>2. /\ Len(tuple) \in Nat /\ DOMAIN tuple = 1 .. Len(tuple)
          /\ \A j \in 1 .. Len(tuple) : tuple[j] \in L
      BY <2>2, LenProperties, ElementOfSeq
    <3>3. \A j \in 1 .. Len(tuple) : cols[j] \in C
      BY <1>5, <2>1, <2>2, <3>1, ElementOfSeq
    <3>4. QED
      BY <3>1, <3>2, <3>3
  <2>4. PICK row : row = [j \in 1 .. n |-> columnValue(cols[j], tuple[j])]
    OBVIOUS
  <2>5. row \in Seq(Written(L))
    <3>1. PICK W : W = Written(L)
      OBVIOUS
    <3>2. \A j \in 1 .. n : columnValue(cols[j], tuple[j]) \in W
      BY <2>3, <3>1 DEF columnValue, Written
    <3>3. row \in Seq(W)
      BY <2>4, <3>2, IsASeq
    <3>4. QED
      BY <3>1, <3>3
  <2>6. PICK R, rows : R = Seq(Written(L)) /\ rows = Append(b.insertRows, row)
    OBVIOUS
  <2>7. rows \in Seq(R)
    <3>1. b.insertRows \in Seq(R)
      BY <1>3, <2>6 DEF DmlIn
    <3>2. row \in R
      BY <2>5, <2>6
    <3>3. QED
      BY <2>6, <3>1, <3>2, MoreOf
  <2>8. DmlIn(L, [b EXCEPT !.insertRows = rows])
    BY <1>3, <2>6, <2>7 DEF DmlIn, DMLFields
  <2>9. rows = Append(b.insertRows, [j \in DOMAIN Tuples[i] |-> columnValue(b.insertColumns[j], Tuples[i][j])])
    BY <2>1, <2>3, <2>4, <2>6
  <2>10. c \in {b, [b EXCEPT !.err = "values"], [b EXCEPT !.insertRows = rows]}
    BY <1>5, <1>8, <2>9 DEF AfterValues
  <2>11. DmlIn(L, c)
    BY <1>3, <1>4, <2>8, <2>10
  <2>12. QED
    BY <1>9, <2>11, CallPuts
<1>6. CASE Len(Tuples[i]) # Len(b.insertColumns)
  <2>1. c \in {b, [b EXCEPT !.err = "values"], [b EXCEPT !.err = "count"]}
    BY <1>6, <1>8 DEF AfterValues
  <2>2. DmlIn(L, c)
    BY <1>3, <1>4, <2>1
  <2>3. QED
    BY <1>9, <2>2, CallPuts
<1>7. QED
  BY <1>5, <1>6

RowsOf(i, j) == IF i = j THEN <<Records[i]>> ELSE <<Records[i], Records[j]>>
RowBefore(b) == IF b.setValues # <<>> THEN <<b.setValues>> ELSE <<>>
AfterValuesOf(b, rows, before) ==
    IF b.err # "" THEN b
    ELSE IF b.kind \notin {"insert", "update"} THEN [b EXCEPT !.err = "values of"]
    ELSE IF b.kind = "insert" THEN [b EXCEPT !.insertRows = @ \o rows]
    ELSE IF b.batchUpdateRows = <<>> /\ Len(rows) = 1 THEN [b EXCEPT !.setValues = @ \o rows[1]]
    ELSE [b EXCEPT !.setValues = <<>>, !.batchUpdateRows = @ \o before \o rows]

(* and records are written.                                                 *)
LEMMA ValuesOfPuts ==
    ASSUME NEW L, InputsIn(L), NEW p, DmlIn(L, B(p)), ValuesOf(p)
    PROVE  Puts(L, p)
<1>1. PICK b : b = B(p)
  OBVIOUS
<1>2. PICK i \in DOMAIN Records, j \in DOMAIN Records :
         Call(p, All, AfterValuesOf(b, RowsOf(i, j), RowBefore(b)))
  <2>1. \E i, j \in DOMAIN Records : Call(p, All, AfterValuesOf(B(p), RowsOf(i, j), RowBefore(B(p))))
    BY ZenonT(30) DEF ValuesOf, AfterValuesOf, RowsOf, RowBefore
  <2>2. QED
    BY <1>1, <2>1
<1>3. PICK R, W : W = Written(L) /\ R = Seq(W)
  OBVIOUS
<1>4. DmlIn(L, b) /\ Records[i] \in R /\ Records[j] \in R
  BY <1>1, <1>3 DEF InputsIn
<1>5. b.insertRows \in Seq(R) /\ b.batchUpdateRows \in Seq(R) /\ b.setValues \in R
  BY <1>3, <1>4 DEF DmlIn
<1>6. PICK rows : rows = RowsOf(i, j)
  OBVIOUS
<1>7. rows \in Seq(R) /\ rows[1] \in R
  <2>1. PICK r, q : r = Records[i] /\ q = Records[j]
    OBVIOUS
  <2>2. <<r>> \in Seq(R) /\ <<r>>[1] \in R /\ <<r, q>> \in Seq(R) /\ <<r, q>>[1] \in R
    BY <1>4, <2>1
  <2>3. rows = <<r>> \/ rows = <<r, q>>
    BY <1>6, <2>1 DEF RowsOf
  <2>4. QED
    BY <2>2, <2>3
<1>8. PICK before : before = RowBefore(b)
  OBVIOUS
<1>9. before \in Seq(R)
  <2>1. PICK s, e : s = b.setValues /\ e = <<>>
    OBVIOUS
  <2>2. <<s>> \in Seq(R) /\ e \in Seq(R)
    BY <1>5, <2>1
  <2>3. before = <<s>> \/ before = e
    BY <1>8, <2>1 DEF RowBefore
  <2>4. QED
    BY <2>2, <2>3
<1>10. PICK c : c = AfterValuesOf(b, rows, before)
  OBVIOUS
<1>11. PICK r1, r2, r3 : /\ r1 = b.insertRows \o rows /\ r2 = b.setValues \o rows[1]
                        /\ r3 = b.batchUpdateRows \o before \o rows
  OBVIOUS
<1>12. r1 \in Seq(R) /\ r2 \in Seq(W) /\ r3 \in Seq(R)
  <2>1. b.setValues \in Seq(W) /\ rows[1] \in Seq(W)
    BY <1>3, <1>5, <1>7
  <2>2. b.batchUpdateRows \o before \in Seq(R)
    BY <1>5, <1>9, MoreOf
  <2>3. QED
    BY <1>5, <1>7, <1>11, <2>1, <2>2, MoreOf
<1>13. PICK none : none = <<>>
  OBVIOUS
<1>14. none \in Seq(W)
  BY <1>13
<1>15. PICK c1, c2, c3, c4 :
         /\ c1 = [b EXCEPT !.insertRows = r1] /\ c2 = [b EXCEPT !.setValues = r2]
         /\ c3 = [b EXCEPT !.setValues = none, !.batchUpdateRows = r3]
         /\ c4 = [b EXCEPT !.err = "values of"]
  OBVIOUS
<1>16. DmlIn(L, c1)
  BY <1>3, <1>4, <1>12, <1>15 DEF DmlIn, DMLFields
<1>17. DmlIn(L, c2)
  BY <1>3, <1>4, <1>12, <1>15 DEF DmlIn, DMLFields
<1>18. DmlIn(L, c3)
  BY <1>3, <1>4, <1>12, <1>14, <1>15 DEF DmlIn, DMLFields
<1>19. DmlIn(L, c4)
  BY <1>4, <1>15 DEF DmlIn, DMLFields
<1>20. c = b \/ c = c1 \/ c = c2 \/ c = c3 \/ c = c4
  BY <1>10, <1>11, <1>13, <1>15 DEF AfterValuesOf
<1>21. DmlIn(L, c)
  BY <1>4, <1>16, <1>17, <1>18, <1>19, <1>20
<1>22. QED
  BY <1>2, <1>6, <1>8, <1>10, <1>21, CallPuts

(* Assignments are added to the builder's.                                  *)
LEMMA MoreSets ==
    ASSUME NEW L, NEW b, DmlIn(L, b), NEW sets \in Seq(Written(L)),
           NEW c, c = [b EXCEPT !.setValues = sets]
    PROVE  DmlIn(L, c)
  BY DEF DmlIn, DMLFields

(* A value is put into a map.                                               *)
LEMMA PutIn ==
    ASSUME NEW L, NEW f, \A k \in DOMAIN f : f[k] \in L, NEW c, NEW v \in L, NEW g, g = PutAt(f, c, v)
    PROVE  \A k \in DOMAIN g : g[k] \in L
  BY DEF PutAt

(* Set adds one,                                                            *)
LEMMA SetPuts ==
    ASSUME NEW L, InputsIn(L), NEW p, DmlIn(L, B(p)), Set(p)
    PROVE  Puts(L, p)
<1>1. PICK b : b = B(p)
  OBVIOUS
<1>2. PICK i \in DOMAIN Assignable : Call(p, {"update"}, [b EXCEPT !.setValues = Append(@, Assignable[i])])
  BY <1>1 DEF Set
<1>3. PICK sets : sets = Append(b.setValues, Assignable[i])
  OBVIOUS
<1>4. sets \in Seq(Written(L))
  <2>1. PICK W : W = Written(L)
    OBVIOUS
  <2>2. b.setValues \in Seq(W) /\ Assignable[i] \in W
    BY <1>1, <1>2, <2>1 DEF DmlIn, InputsIn
  <2>3. QED
    BY <1>3, <2>1, <2>2, MoreOf
<1>5. PICK c : c = [b EXCEPT !.setValues = sets]
  OBVIOUS
<1>6. DmlIn(L, c)
  BY <1>1, <1>4, <1>5, MoreSets
<1>7. Call(p, {"update"}, c)
  BY <1>2, <1>3, <1>5
<1>8. QED
  BY <1>6, <1>7, CallPuts

AfterData(b, c, e) ==
    [b EXCEPT !.setValues = @ \o Assignments(PutAt(PutAt(NoUpdates, c.col, c.v), e.col, e.v))]

(* Data those of a map,                                                     *)
LEMMA DataPuts ==
    ASSUME NEW L, InputsIn(L), NEW p, DmlIn(L, B(p)), Data(p)
    PROVE  Puts(L, p)
<1>1. PICK b : b = B(p)
  OBVIOUS
<1>2. PICK i \in DOMAIN Assignable, j \in DOMAIN Assignable :
         Call(p, {"update"}, AfterData(b, Assignable[i], Assignable[j]))
  BY <1>1 DEF Data, AfterData
<1>3. PICK W, c, e : W = Written(L) /\ c = Assignable[i] /\ e = Assignable[j]
  OBVIOUS
<1>4. c.v \in L /\ e.v \in L
  BY <1>2, <1>3 DEF InputsIn, Written
<1>5. PICK f0, f1, f2 : f0 = NoUpdates /\ f1 = PutAt(f0, c.col, c.v) /\ f2 = PutAt(f1, e.col, e.v)
  OBVIOUS
<1>6. \A k \in DOMAIN f0 : f0[k] \in L
  <2>1. DOMAIN f0 = {}
    BY <1>5 DEF NoUpdates
  <2>2. QED
    BY <2>1
<1>7. \A k \in DOMAIN f1 : f1[k] \in L
  BY <1>4, <1>5, <1>6, PutIn
<1>8. \A k \in DOMAIN f2 : f2[k] \in L
  BY <1>4, <1>5, <1>7, PutIn
<1>9. PICK more, sets : more = Assignments(f2) /\ sets = b.setValues \o more
  OBVIOUS
<1>10. sets \in Seq(Written(L))
  <2>1. more \in Seq(W)
    BY <1>3, <1>8, <1>9, AssignmentsIn
  <2>2. b.setValues \in Seq(W)
    BY <1>1, <1>3 DEF DmlIn
  <2>3. QED
    BY <1>3, <1>9, <2>1, <2>2, MoreOf
<1>11. PICK d : d = [b EXCEPT !.setValues = sets]
  OBVIOUS
<1>12. DmlIn(L, d)
  BY <1>1, <1>10, <1>11, MoreSets
<1>13. Call(p, {"update"}, d)
  BY <1>2, <1>3, <1>5, <1>9, <1>11 DEF AfterData
<1>14. QED
  BY <1>12, <1>13, CallPuts

(* Where a condition, a join call a join, Returning a column.               *)
LEMMA ClausePuts ==
    ASSUME NEW L, InputsIn(L), NEW p, DmlIn(L, B(p)), Where(p) \/ addJoin(p) \/ Returning(p)
    PROVE  Puts(L, p)
<1>1. PICK b : b = B(p)
  OBVIOUS
<1>2. CASE Where(p)
  <2>1. PICK i \in DOMAIN Predicates : Call(p, {"update", "delete"}, [b EXCEPT !.conds = Append(@, Predicates[i])])
    BY <1>1, <1>2 DEF Where
  <2>2. PICK s, c : s = Append(b.conds, Predicates[i]) /\ c = [b EXCEPT !.conds = s]
    OBVIOUS
  <2>3. s \in Seq(L)
    <3>1. b.conds \in Seq(L) /\ Predicates[i] \in L
      BY <1>1, <2>1 DEF DmlIn, InputsIn
    <3>2. QED
      BY <2>2, <3>1, MoreOf
  <2>4. DmlIn(L, c)
    BY <1>1, <2>2, <2>3 DEF DmlIn, DMLFields
  <2>5. Call(p, {"update", "delete"}, c)
    BY <2>1, <2>2
  <2>6. QED
    BY <2>4, <2>5, CallPuts
<1>3. CASE addJoin(p)
  <2>1. PICK i \in DOMAIN Joins : Call(p, {"update", "delete"}, [b EXCEPT !.joins = Append(@, Joins[i])])
    BY <1>1, <1>3 DEF addJoin
  <2>2. PICK j, s, c : j = Joins[i] /\ s = Append(b.joins, j) /\ c = [b EXCEPT !.joins = s]
    OBVIOUS
  <2>3. JoinIn(L, j) /\ Sequence(b.joins) /\ \A k \in DOMAIN b.joins : JoinIn(L, b.joins[k])
    BY <1>1, <2>1, <2>2 DEF DmlIn, InputsIn
  <2>4. PICK n \in Nat : n = Len(b.joins) /\ DOMAIN b.joins = 1 .. n
    BY <2>3, SequenceOf
  <2>5. /\ Sequence(s) /\ DOMAIN s = 1 .. n + 1 /\ s[n + 1] = j
        /\ \A k \in 1 .. n : s[k] = b.joins[k]
    BY <2>2, <2>3, <2>4, OneMore
  <2>6. \A k \in 1 .. n + 1 : k \in 1 .. n \/ k = n + 1
    OBVIOUS
  <2>7. \A k \in DOMAIN s : JoinIn(L, s[k])
    BY <2>3, <2>4, <2>5, <2>6
  <2>8. DmlIn(L, c)
    BY <1>1, <2>2, <2>5, <2>7 DEF DmlIn, DMLFields
  <2>9. Call(p, {"update", "delete"}, c)
    BY <2>1, <2>2
  <2>10. QED
    BY <2>8, <2>9, CallPuts
<1>4. CASE Returning(p)
  <2>1. PICK e, s, c : /\ e = Col(b.table, "id") /\ s = Append(b.returning, e)
                       /\ c = [b EXCEPT !.returning = s]
    OBVIOUS
  <2>2. s \in Seq(L)
    <3>1. b.returning \in Seq(L) /\ e \in L
      BY <1>1, <2>1 DEF DmlIn
    <3>2. QED
      BY <2>1, <3>1, MoreOf
  <2>3. DmlIn(L, c)
    BY <1>1, <2>1, <2>2 DEF DmlIn, DMLFields
  <2>4. Call(p, All, c)
    BY <1>1, <1>4, <2>1 DEF Returning
  <2>5. QED
    BY <2>3, <2>4, CallPuts
<1>5. QED
  BY <1>2, <1>3, <1>4

(* Settings.                                                                *)
LEMMA SettingsPut ==
    ASSUME NEW L, InputsIn(L), NEW p, DmlIn(L, B(p)),
           Batch(p) \/ Unscoped(p) \/ ShardBy(p) \/ Tenant(p) \/ UnTenant(p)
    PROVE  Puts(L, p)
<1>1. PICK b : b = B(p)
  OBVIOUS
<1>2. CASE Batch(p)
  <2>1. PICK n \in Batches : Call(p, {"insert"}, [b EXCEPT !.batch = n])
    BY <1>1, <1>2 DEF Batch
  <2>2. n \in Int
    BY <2>1 DEF InputsIn
  <2>3. PICK c : c = [b EXCEPT !.batch = n]
    OBVIOUS
  <2>4. DmlIn(L, c)
    BY <1>1, <2>2, <2>3 DEF DmlIn, DMLFields
  <2>5. QED
    BY <2>1, <2>3, <2>4, CallPuts
<1>3. CASE Unscoped(p)
  <2>1. PICK c : c = [b EXCEPT !.unscoped = TRUE]
    OBVIOUS
  <2>2. DmlIn(L, c)
    BY <1>1, <2>1 DEF DmlIn, DMLFields
  <2>3. Call(p, {"delete"}, c)
    BY <1>1, <1>3, <2>1 DEF Unscoped
  <2>4. QED
    BY <2>2, <2>3, CallPuts
<1>4. CASE ShardBy(p)
  <2>1. PICK v \in Shards : Call(p, All, [b EXCEPT !.shard = v])
    BY <1>1, <1>4 DEF ShardBy
  <2>2. PICK c : c = [b EXCEPT !.shard = v]
    OBVIOUS
  <2>3. DmlIn(L, c)
    BY <1>1, <2>2 DEF DmlIn, DMLFields
  <2>4. QED
    BY <2>1, <2>2, <2>3, CallPuts
<1>5. CASE Tenant(p)
  <2>1. PICK ids \in TenantLists : Call(p, All, IF ids = <<>> THEN [b EXCEPT !.untenant = FALSE]
            ELSE [b EXCEPT !.untenant = FALSE, !.hasTenantIDs = TRUE, !.tenantIDs = ids])
    BY <1>1, <1>5 DEF Tenant
  <2>2. Sequence(ids)
    BY <2>1 DEF InputsIn
  <2>3. PICK c, d : /\ c = [b EXCEPT !.untenant = FALSE]
                    /\ d = [b EXCEPT !.untenant = FALSE, !.hasTenantIDs = TRUE, !.tenantIDs = ids]
    OBVIOUS
  <2>4. DmlIn(L, c)
    BY <1>1, <2>3 DEF DmlIn, DMLFields
  <2>5. DmlIn(L, d)
    BY <1>1, <2>2, <2>3 DEF DmlIn, DMLFields
  <2>6. Call(p, All, c) \/ Call(p, All, d)
    BY <2>1, <2>3
  <2>7. QED
    BY <2>4, <2>5, <2>6, CallPuts
<1>6. CASE UnTenant(p)
  <2>1. PICK c : c = [b EXCEPT !.untenant = TRUE]
    OBVIOUS
  <2>2. DmlIn(L, c)
    BY <1>1, <2>1 DEF DmlIn, DMLFields
  <2>3. Call(p, All, c)
    BY <1>1, <1>6, <2>1 DEF UnTenant
  <2>4. QED
    BY <2>2, <2>3, CallPuts
<1>7. QED
  BY <1>2, <1>3, <1>4, <1>5, <1>6

(* A builder's conflict clause, or the one it starts with. *)
LEMMA UpsertClause ==
    ASSUME NEW L, NEW b, DmlIn(L, b)
    PROVE  ClauseIn(L, Upsert(b))
<1>1. CASE b.upsert = <<>>
  <2>1. PICK none, f : none = <<>> /\ f = NoUpdates
    OBVIOUS
  <2>2. Upsert(b) = [nothing |-> FALSE, cols |-> none, updates |-> f]
    BY <1>1, <2>1 DEF Upsert
  <2>3. DOMAIN f = {}
    BY <2>1 DEF NoUpdates
  <2>4. QED
    BY <2>2, <2>3 DEF ClauseIn
<1>2. CASE b.upsert # <<>>
  <2>1. PICK c : b.upsert = <<c>> /\ ClauseIn(L, c)
    BY <1>2 DEF DmlIn, UpsertIn
  <2>2. Upsert(b) = c
    BY <1>2, <2>1 DEF Upsert
  <2>3. QED
    BY <2>1, <2>2
<1>3. QED
  BY <1>1, <1>2

(* A clause replaces it.                                                    *)
LEMMA ClausePut ==
    ASSUME NEW L, NEW p, DmlIn(L, B(p)), NEW u, ClauseIn(L, u),
           Call(p, {"insert"}, [B(p) EXCEPT !.upsert = <<u>>])
    PROVE  Puts(L, p)
<1>1. PICK b, us : b = B(p) /\ us = <<u>>
  OBVIOUS
<1>2. UpsertIn(L, us)
  BY <1>1 DEF UpsertIn
<1>3. PICK c : c = [b EXCEPT !.upsert = us]
  OBVIOUS
<1>4. DmlIn(L, c)
  BY <1>1, <1>2, <1>3 DEF DmlIn, DMLFields
<1>5. Call(p, {"insert"}, c)
  BY <1>1, <1>3
<1>6. QED
  BY <1>4, <1>5, CallPuts

(* OnConflictKey, DoNothing and DoUpdate add to it.                         *)
LEMMA UpsertPuts ==
    ASSUME NEW L, InputsIn(L), NEW p, DmlIn(L, B(p)), OnConflictKey(p) \/ DoNothing(p) \/ DoUpdate(p)
    PROVE  Puts(L, p)
<1>1. PICK u : u = Upsert(B(p))
  OBVIOUS
<1>2. ClauseIn(L, u)
  BY <1>1, UpsertClause
<1>3. CASE OnConflictKey(p)
  <2>1. PICK i \in DOMAIN Targets :
           Call(p, {"insert"}, [B(p) EXCEPT !.upsert = <<[u EXCEPT !.cols = @ \o Targets[i]]>>])
    BY <1>1, <1>3 DEF OnConflictKey
  <2>2. PICK v : v = [u EXCEPT !.cols = @ \o Targets[i]]
    OBVIOUS
  <2>3. ClauseIn(L, v)
    BY <1>2, <2>2 DEF ClauseIn
  <2>4. QED
    BY <2>1, <2>2, <2>3, ClausePut
<1>4. CASE DoNothing(p)
  <2>1. Call(p, {"insert"}, [B(p) EXCEPT !.upsert = <<[u EXCEPT !.nothing = TRUE]>>])
    BY <1>1, <1>4 DEF DoNothing
  <2>2. PICK v : v = [u EXCEPT !.nothing = TRUE]
    OBVIOUS
  <2>3. ClauseIn(L, v)
    BY <1>2, <2>2 DEF ClauseIn
  <2>4. QED
    BY <2>1, <2>2, <2>3, ClausePut
<1>5. CASE DoUpdate(p)
  <2>1. PICK i \in DOMAIN Assignable :
           Call(p, {"insert"}, [B(p) EXCEPT !.upsert =
               <<[u EXCEPT !.updates = PutAt(@, Assignable[i].col, Assignable[i].v)]>>])
    BY <1>1, <1>5 DEF DoUpdate
  <2>2. PICK c, f, g : c = Assignable[i] /\ f = u.updates /\ g = PutAt(f, c.col, c.v)
    OBVIOUS
  <2>3. PICK v : v = [u EXCEPT !.updates = g]
    OBVIOUS
  <2>4. c.v \in L
    BY <2>1, <2>2 DEF InputsIn, Written
  <2>5. \A k \in DOMAIN g : g[k] \in L
    BY <1>2, <2>2, <2>4, PutIn DEF ClauseIn
  <2>6. ClauseIn(L, v)
    BY <1>2, <2>3, <2>5 DEF ClauseIn
  <2>7. Call(p, {"insert"}, [B(p) EXCEPT !.upsert = <<v>>])
    BY <2>1, <2>2, <2>3
  <2>8. QED
    BY <2>6, <2>7, ClausePut
<1>6. QED
  BY <1>3, <1>4, <1>5

(* A builder more at the end of a heap changes none that is there.          *)
LEMMA BuilderMore ==
    ASSUME NEW E, NEW h, NEW T, NEW rank, DmlHeapOver(E, h, T, rank), NEW b, DmlIn(T, b),
           NEW g, g = Append(h, b)
    PROVE  DmlHeapOver(E, g, T, rank)
<1>1. HeapOver(h, T, rank) /\ Sequence(h)
  BY DEF DmlHeapOver, HeapOver
<1>2. PICK n \in Nat : n = Len(h) /\ DOMAIN h = 1 .. n
  BY <1>1, SequenceOf
<1>3. /\ Sequence(g) /\ DOMAIN g = 1 .. n + 1 /\ g[n + 1] = b
      /\ \A i \in 1 .. n : g[i] = h[i]
  BY <1>1, <1>2, OneMore
<1>4. \A e \in T : e.k = "sub" => e.a \in DOMAIN h /\ g[e.a] = h[e.a]
  BY <1>1, <1>2, <1>3 DEF HeapOver
<1>5. Ranked(g, T, rank)
  BY <1>1, <1>4 DEF HeapOver, Ranked, ExpressionIn
<1>6. DOMAIN h \subseteq DOMAIN g
  BY <1>2, <1>3
<1>7. HeapOver(g, T, rank)
  BY <1>1, <1>3, <1>4, <1>5, <1>6 DEF HeapOver
<1>8. \A i \in 1 .. n + 1 : i \in 1 .. n \/ i = n + 1
  OBVIOUS
<1>9. \A i \in DOMAIN g : IsDML(g[i]) => DmlIn(T, g[i])
  BY <1>2, <1>3, <1>8 DEF DmlHeapOver
<1>10. QED
  BY <1>7, <1>9 DEF DmlHeapOver

(* A heap with more queries is a heap of the same DML builders.             *)
LEMMA QueriesMore ==
    ASSUME NEW E, NEW h, NEW T, NEW rank, DmlHeapOver(E, h, T, rank),
           NEW g, NEW T2, NEW rank2, Extends(h, T, rank, g, T2, rank2)
    PROVE  DmlHeapOver(E, g, T2, rank2)
<1>1. /\ HeapOver(g, T2, rank2) /\ T \subseteq T2 /\ \A i \in DOMAIN h : g[i] = h[i]
      /\ \A i \in DOMAIN g : i \notin DOMAIN h => QueryShaped(g[i])
  BY DEF Extends
<1>2. ASSUME NEW i \in DOMAIN g, IsDML(g[i])
      PROVE  DmlIn(T2, g[i])
  <2>1. ~QueryShaped(g[i])
    BY <1>2 DEF QueryShaped, QueryFields, IsDML
  <2>2. i \in DOMAIN h /\ g[i] = h[i]
    BY <1>1, <2>1
  <2>3. DmlIn(T, g[i])
    BY <1>2, <2>2 DEF DmlHeapOver
  <2>4. QED
    BY <1>1, <2>3, DmlInMore
<1>3. QED
  BY <1>1, <1>2 DEF DmlHeapOver

(* A clone reads a clone of the builder's query.                            *)
LEMMA CloneKeeps ==
    ASSUME CloneIsRecursion, NEW E, NEW h, NEW T, NEW rank, DmlHeapOver(E, h, T, rank),
           NEW id \in DOMAIN h, IsDML(h[id])
    PROVE  DmlHeap(E, CloneDML(h, id))
<1>1. PICK b : b = h[id]
  OBVIOUS
<1>2. DmlIn(T, b)
  BY <1>1 DEF DmlHeapOver
<1>3. CASE b.selectBuilder = 0
  <2>1. PICK g : g = Append(h, b)
    OBVIOUS
  <2>2. CloneDML(h, id) = g
    BY <1>1, <1>3, <2>1 DEF CloneDML
  <2>3. DmlHeapOver(E, g, T, rank)
    BY <1>2, <2>1, BuilderMore
  <2>4. QED
    BY <2>2, <2>3 DEF DmlHeap
<1>4. CASE b.selectBuilder # 0
  <2>1. PICK s : s = b.selectBuilder
    OBVIOUS
  <2>2. Sub(s) \in T
    BY <1>2, <1>4, <2>1 DEF DmlIn
  <2>3. PICK c : c = CloneBuilder(h, s)
    OBVIOUS
  <2>4. HasClone(h, T, rank, c, rank[Sub(s)])
    BY <2>2, <2>3, ClonesExtend DEF DmlHeapOver
  <2>5. PICK T2, rank2 : Extends(h, T, rank, c.h, T2, rank2) /\ Sub(c.id) \in T2
    BY <2>4 DEF HasClone
  <2>6. PICK d : d = [b EXCEPT !.selectBuilder = c.id]
    OBVIOUS
  <2>7. DmlIn(T2, d)
    <3>1. T \subseteq T2
      BY <2>5 DEF Extends
    <3>2. DmlIn(T2, b)
      BY <1>2, <3>1, DmlInMore
    <3>3. QED
      BY <2>5, <2>6, <3>2 DEF DmlIn, DMLFields
  <2>8. PICK k : k = c.h
    OBVIOUS
  <2>9. DmlHeapOver(E, k, T2, rank2)
    BY <2>5, <2>8, QueriesMore
  <2>10. PICK g : g = Append(k, d)
    OBVIOUS
  <2>11. DmlHeapOver(E, g, T2, rank2)
    BY <2>7, <2>9, <2>10, BuilderMore
  <2>12. CloneDML(h, id) = g
    BY <1>1, <1>4, <2>1, <2>3, <2>6, <2>8, <2>10 DEF CloneDML, WithQuery
  <2>13. QED
    BY <2>11, <2>12 DEF DmlHeap
<1>5. QED
  BY <1>3, <1>4

(* Every call leaves such a heap.                                           *)
LEMMA BuildKeeps ==
    ASSUME CloneIsRecursion, NEW E, InputsIn(E), DmlHeap(E, heap), NEW p \in Builders, Build(p)
    PROVE  DmlHeap(E, heap') /\ UNCHANGED <<db, run>>
<1>1. PICK T, rank : DmlHeapOver(E, heap, T, rank)
  BY DEF DmlHeap
<1>2. p \in DOMAIN heap /\ IsDML(heap[p]) /\ DmlIn(T, B(p)) /\ InputsIn(T)
  <2>1. p \in DOMAIN heap /\ IsDML(heap[p])
    BY DEF Builders
  <2>2. InputsIn(T)
    BY <1>1, InputsInMore DEF DmlHeapOver
  <2>3. QED
    BY <1>1, <2>1, <2>2 DEF DmlHeapOver, B
<1>3. CASE Clone(p)
  <2>1. heap' = CloneDML(heap, p) /\ UNCHANGED <<db, run>>
    BY <1>3 DEF Clone
  <2>2. DmlHeap(E, CloneDML(heap, p))
    BY <1>1, <1>2, CloneKeeps
  <2>3. QED
    BY <2>1, <2>2
<1>4. CASE Puts(T, p)
  <2>1. PICK b : DmlIn(T, b) /\ heap' = [heap EXCEPT ![p] = b]
    BY <1>4 DEF Puts
  <2>2. PICK g : g = [heap EXCEPT ![p] = b]
    OBVIOUS
  <2>3. DmlHeapOver(E, g, T, rank)
    BY <1>1, <1>2, <2>1, <2>2, BuilderPut
  <2>4. DmlHeap(E, g)
    BY <2>3 DEF DmlHeap
  <2>5. QED
    BY <1>4, <2>1, <2>2, <2>4 DEF Puts
<1>5. Puts(T, p) \/ Clone(p)
  BY <1>2, ColumnsPuts, KeysPuts, ValuesPuts, ValuesOfPuts, SetPuts, DataPuts, ClausePuts,
     SettingsPut, UpsertPuts DEF Build
<1>6. QED
  BY <1>3, <1>4, <1>5

-----------------------------------------------------------------------------
(* The executions. *)

RunFields ==
    {"state", "builder", "d", "request", "todo", "done", "affected", "start", "ideal"}

(* Before the execution the tables are as they were; in it, the statements  *)
(* to come are of the builder's table.                                      *)
RunOver ==
    /\ DOMAIN run = RunFields
    /\ run.state = "none" => db = DB /\ run.start = DB
    /\ run.state = "running" => AllName(Running, run.todo)

(* The invariant. *)
OwnTable(E) == DmlHeap(E, heap) /\ RunOver /\ OnlyTheTargetChanges

(* The target is the builder's.                                             *)
LEMMA TargetOnly ==
    OnlyTheTargetChanges <=> \A t \in DOMAIN db : db[t] # run.start[t] => t = Target(Running)
  BY DEF OnlyTheTargetChanges, Target

(* An execution starts with statements of the builder's table.              *)
LEMMA StartKeeps ==
    ASSUME RenderIsRecursion, NEW E, OwnTable(E), NEW p \in Builders, Exec(p) \/ Value(p)
    PROVE  OwnTable(E)'
<1>1. p \in DOMAIN heap /\ IsDML(heap[p])
  BY DEF Builders
<1>2. PICK T, rank : DmlHeapOver(E, heap, T, rank)
  BY DEF OwnTable, DmlHeap
<1>3. PICK d, t, g, todo :
        /\ Start(p, d, t, todo) /\ g = Stamped(p, t)
        /\ todo = Statements(g, p, d) \/ todo = readReturning(g, p, d)
  BY DEF Exec, Value
<1>4. PICK b : b = [heap[p] EXCEPT !.ctxTenant = t]
  OBVIOUS
<1>5. DmlIn(T, b)
  <2>1. DmlIn(T, heap[p])
    BY <1>1, <1>2 DEF DmlHeapOver
  <2>2. QED
    BY <1>4, <2>1 DEF DmlIn, DMLFields
<1>6. g = [heap EXCEPT ![p] = b]
  BY <1>3, <1>4 DEF Stamped
<1>7. DmlHeapOver(E, g, T, rank) /\ g[p] = b /\ DOMAIN g = DOMAIN heap
  BY <1>1, <1>2, <1>5, <1>6, BuilderPut
<1>8. DmlHeap(E, g) /\ p \in DOMAIN g /\ IsDML(g[p])
  BY <1>1, <1>5, <1>7, DmlIsDML DEF DmlHeap
<1>9. AllName(g[p], todo)
  BY <1>3, <1>8, StatementsName
<1>10. heap' = g /\ db' = db
  BY <1>3 DEF Start
<1>11. /\ DOMAIN run' = RunFields /\ run'.state = "running" /\ run'.builder = p
       /\ run'.todo = todo /\ run'.start = db
  <2>1. DOMAIN NoRun = RunFields
    BY DEF NoRun, RunFields
  <2>2. run' = [NoRun EXCEPT !.state = "running", !.builder = p, !.d = d, !.request = t,
                             !.todo = todo, !.start = db, !.ideal = db]
    BY <1>3 DEF Start
  <2>3. QED
    BY <2>1, <2>2 DEF RunFields
<1>12. RunOver'
  BY <1>9, <1>10, <1>11 DEF RunOver, Running
<1>13. OnlyTheTargetChanges'
  BY <1>10, <1>11 DEF OnlyTheTargetChanges
<1>14. QED
  BY <1>8, <1>10, <1>12, <1>13 DEF OwnTable

(* What is left of statements, each of a table.                             *)
LEMMA RestName ==
    ASSUME NEW b, NEW stmts, AllName(b, stmts)
    PROVE  Names(b, Head(stmts)) /\ (Len(stmts) # 1 => AllName(b, Tail(stmts)))
<1>1. /\ Sequence(stmts) /\ Len(stmts) > 0 /\ \A i \in DOMAIN stmts : Names(b, stmts[i])
  BY DEF AllName
<1>2. PICK T : T = {stmts[i] : i \in DOMAIN stmts}
  OBVIOUS
<1>3. PICK n \in Nat : n = Len(stmts) /\ n > 0 /\ DOMAIN stmts = 1 .. n /\ stmts \in Seq(T)
  BY <1>1, <1>2, SequenceOf
<1>4. \A st \in T : Names(b, st)
  BY <1>1, <1>2
<1>5. Head(stmts) \in T
  BY <1>3, HeadTailProperties
<1>6. PICK rest : rest = Tail(stmts)
  OBVIOUS
<1>7. rest \in Seq(T) /\ Len(rest) = n - 1
  BY <1>3, <1>6, HeadTailProperties
<1>8. Sequence(rest)
  BY <1>7, ToSequence
<1>9. \A i \in DOMAIN rest : Names(b, rest[i])
  <2>1. \A i \in DOMAIN rest : rest[i] \in T
    BY <1>7, ElementOfSeq, LenProperties
  <2>2. QED
    BY <1>4, <2>1
<1>10. Len(stmts) # 1 => AllName(b, rest)
  BY <1>3, <1>7, <1>8, <1>9 DEF AllName
<1>11. QED
  BY <1>4, <1>5, <1>6, <1>10

(* A statement that is done changes that table only.                        *)
LEMMA DoneKeeps ==
    ASSUME NEW E, OwnTable(E), run.state = "running", Done
    PROVE  OwnTable(E)'
<1>1. PICK st, q, real, ideal :
        /\ st = Head(run.todo) /\ st.err = "" /\ real = Apply(db, st.n, q) /\ real.ok /\ db' = real.db
        /\ run' = [run EXCEPT !.todo = Tail(@), !.done = @ + 1, !.affected = @ + real.affected,
                              !.ideal = IF ideal.ok THEN ideal.db ELSE @,
                              !.state = IF Len(run.todo) = 1 THEN "done" ELSE @]
        /\ heap' = heap
  BY DEF Done
<1>2. PICK b : b = Running
  OBVIOUS
<1>3. AllName(b, run.todo) /\ DOMAIN run = RunFields
  BY <1>2 DEF OwnTable, RunOver
<1>4. Names(b, st) /\ (Len(run.todo) # 1 => AllName(b, Tail(run.todo)))
  BY <1>1, <1>3, RestName
<1>5. /\ DOMAIN run' = RunFields /\ run'.builder = run.builder /\ run'.start = run.start
      /\ run'.todo = Tail(run.todo)
      /\ run'.state = IF Len(run.todo) = 1 THEN "done" ELSE run.state
  BY <1>1, <1>3 DEF RunFields
<1>6. Running' = b
  BY <1>1, <1>2, <1>5 DEF Running
<1>7. RunOver'
  <2>1. run'.state # "none"
    BY <1>5
  <2>2. run'.state = "running" => Len(run.todo) # 1
    BY <1>5
  <2>3. run'.state = "running" => AllName(Running', run'.todo)
    BY <1>4, <1>5, <1>6, <2>2
  <2>4. QED
    BY <1>5, <2>1, <2>3 DEF RunOver
<1>8. PICK rows : db' = [db EXCEPT ![Target(b)] = rows]
  <2>1. OnlyAt(db, TargetOf(st.n), real)
    BY <1>1, ApplyOnlyAt
  <2>2. TargetOf(st.n) = Target(b)
    BY <1>1, <1>4 DEF Names
  <2>3. QED
    BY <1>1, <2>1, <2>2 DEF OnlyAt
<1>9. \A t \in DOMAIN db' : db'[t] # run'.start[t] => t = Target(b)
  <2>1. DOMAIN db' = DOMAIN db /\ \A t \in DOMAIN db : t # Target(b) => db'[t] = db[t]
    BY <1>8
  <2>2. \A t \in DOMAIN db : db[t] # run.start[t] => t = Target(b)
    BY <1>2, TargetOnly DEF OwnTable
  <2>3. QED
    BY <1>5, <2>1, <2>2
<1>10. OnlyTheTargetChanges'
  BY <1>6, <1>9 DEF OnlyTheTargetChanges, Target
<1>11. DmlHeap(E, heap')
  BY <1>1 DEF OwnTable
<1>12. QED
  BY SMTT(30), <1>7, <1>10, <1>11 DEF OwnTable

(* A statement that fails ends the execution where it is.                   *)
LEMMA FailedKeeps ==
    ASSUME NEW E, OwnTable(E), Failed
    PROVE  OwnTable(E)'
<1>1. PICK none : none = <<>>
  OBVIOUS
<1>2. heap' = heap /\ db' = db /\ run' = [run EXCEPT !.state = "failed", !.todo = none]
  BY <1>1 DEF Failed
<1>3. /\ DOMAIN run' = RunFields /\ run'.builder = run.builder /\ run'.start = run.start
      /\ run'.state = "failed"
  BY <1>2 DEF OwnTable, RunOver, RunFields
<1>4. RunOver'
  BY <1>3 DEF RunOver
<1>5. OnlyTheTargetChanges'
  BY <1>2, <1>3 DEF OwnTable, OnlyTheTargetChanges, Running
<1>6. QED
  BY <1>2, <1>4, <1>5 DEF OwnTable

(* What the application gives is made of the expressions of E: what its     *)
(* calls take, and the builders it starts with.                             *)
InputsOver(E) == InputsIn(E) /\ \A i \in DOMAIN Initial : DmlHeap(E, Initial[i])

(* An UPDATE, DELETE, INSERT, upsert or batch update changes no table but   *)
(* its builder's, and of a sharded table only the shard of its own ShardBy, *)
(* whatever statement it is, in whatever dialect, and whatever shards the   *)
(* queries it reads are of; a failure half way changes no other either      *)
(* (dml_render.go, render.go, dml_exec.go).                                 *)
THEOREM TargetAlone ==
    ASSUME RenderIsRecursion, CloneIsRecursion, NEW Exprs, InputsOver(Exprs)
    PROVE  Spec => []OnlyTheTargetChanges
<1>1. Init => OwnTable(Exprs)
  <2>1. ASSUME Init
        PROVE  OwnTable(Exprs)
    <3>1. DmlHeap(Exprs, heap)
      BY <2>1 DEF Init, InputsOver
    <3>2. db = DB /\ run = NoRun
      BY <2>1 DEF Init
    <3>3. DOMAIN run = RunFields /\ run.state = "none" /\ run.start = DB
      BY <3>2 DEF NoRun, RunFields
    <3>4. RunOver /\ OnlyTheTargetChanges
      BY <3>2, <3>3 DEF RunOver, OnlyTheTargetChanges
    <3>5. QED
      BY <3>1, <3>4 DEF OwnTable
  <2>2. QED
    BY <2>1
<1>2. OwnTable(Exprs) /\ [Next]_vars => OwnTable(Exprs)'
  <2>1. SUFFICES ASSUME OwnTable(Exprs), [Next]_vars
                 PROVE  OwnTable(Exprs)'
    OBVIOUS
  <2>2. CASE UNCHANGED vars
    BY <2>1, <2>2 DEF vars, OwnTable, RunOver, OnlyTheTargetChanges, Running
  <2>3. ASSUME run.state = "none", NEW p \in Builders, Build(p)
        PROVE  OwnTable(Exprs)'
    <3>1. DmlHeap(Exprs, heap') /\ db' = db /\ run' = run
      BY <2>1, <2>3, BuildKeeps DEF InputsOver, OwnTable
    <3>2. RunOver' /\ OnlyTheTargetChanges'
      <4>1. DOMAIN run = RunFields /\ db = DB /\ run.start = DB
        BY <2>1, <2>3 DEF OwnTable, RunOver
      <4>2. RunOver'
        BY <2>3, <3>1, <4>1 DEF RunOver
      <4>3. OnlyTheTargetChanges'
        BY <3>1, <4>1 DEF OnlyTheTargetChanges
      <4>4. QED
        BY <4>2, <4>3
    <3>3. QED
      BY <3>1, <3>2 DEF OwnTable
  <2>4. ASSUME NEW p \in Builders, Exec(p) \/ Value(p)
        PROVE  OwnTable(Exprs)'
    BY <2>1, <2>4, StartKeeps
  <2>5. CASE run.state = "running" /\ Done
    BY <2>1, <2>5, DoneKeeps
  <2>6. CASE run.state = "running" /\ Failed
    BY <2>1, <2>6, FailedKeeps
  <2>7. QED
    BY <2>1, <2>2, <2>3, <2>4, <2>5, <2>6 DEF Next
<1>3. OwnTable(Exprs) => OnlyTheTargetChanges
  BY DEF OwnTable
<1>4. QED
  BY <1>1, <1>2, <1>3, PTL DEF Spec

-----------------------------------------------------------------------------
(* What is rendered one after the other. *)

(* One element of a list, by what the list is of. *)
OneOf(x, rc, e) ==
    CASE x.kind = "value" -> RenderValue(x.h, rc, e)
      [] x.kind = "arg" -> AddArg(rc, e)
      [] x.kind = "tenant" -> tenantPredicate(rc, e)
      [] x.kind = "join" -> JoinOnCond(x.h, e, renderTableName(x.h, rc, e.table))
      [] x.kind = "row" -> AsNode("row", 0, RenderAll(x.h, rc, ValuesInOrder(x.cols, e)))
      [] x.kind = "key" -> KeyCond(ResolveTableName(rc, x.base), x.base, e)
      [] x.kind = "part" -> DmlPart(x.h, x.b, x.sets, rc, e)
      [] x.kind = "batch" -> BatchPart(x.h, x.b, x.row, rc, e)
PushOne(x, acc, e) == Push(acc, OneOf(x, acc.rc, e))
MarkOne(x, acc, e) == Mark(acc, OneOf(x, acc.rc, e))

(* An element of the list has been rendered in the scope of x, before rc.   *)
OneIn(x, n, e, rc) ==
    \E c : Keeps(x.rc, c) /\ n = OneOf(x, c, e).n /\ Keeps(OneOf(x, c, e).rc, rc)

(* So have the first i of them, after what was there before.                *)
Traced(x, i, acc) ==
    /\ Keeps(x.rc, acc.rc) /\ Sequence(acc.ns) /\ Len(acc.ns) = Len(x.ns) + i
    /\ \A k \in 1 .. Len(x.ns) : acc.ns[k] = x.ns[k]
    /\ \A k \in 1 .. i : OneIn(x, acc.ns[Len(x.ns) + k], x.es[k], acc.rc)
OneFold == INSTANCE FoldLemmas WITH Step <- PushOne, Inv <- Traced
MarkFold == INSTANCE FoldLemmas WITH Step <- MarkOne, Inv <- Traced

(* What is rendered stays rendered. *)
LEMMA OneInLater ==
    ASSUME NEW x, NEW n, NEW e, NEW rc, OneIn(x, n, e, rc), NEW r, Keeps(rc, r)
    PROVE  OneIn(x, n, e, r)
<1>1. PICK c : Keeps(x.rc, c) /\ n = OneOf(x, c, e).n /\ Keeps(OneOf(x, c, e).rc, rc)
  BY DEF OneIn
<1>2. Keeps(OneOf(x, c, e).rc, r)
  BY SMTT(30), <1>1, KeepsOn
<1>3. QED
  BY <1>1, <1>2 DEF OneIn

(* One element more. *)
LEMMA TracedMore ==
    ASSUME NEW x, Sequence(x.ns), NEW i \in Nat, NEW acc, Traced(x, i, acc),
           NEW r, r = OneOf(x, acc.rc, x.es[i + 1]), Keeps(acc.rc, r.rc),
           NEW next, next.rc = r.rc, next.ns = Append(acc.ns, r.n)
    PROVE  Traced(x, i + 1, next)
<1>1. PICK m \in Nat : m = Len(x.ns)
  BY SequenceOf
<1>2. Keeps(x.rc, acc.rc) /\ Sequence(acc.ns) /\ Len(acc.ns) = m + i
  BY <1>1 DEF Traced
<1>3. Keeps(x.rc, next.rc) /\ IsContext(r.rc)
  BY <1>2, KeepsOn, KeptContext
<1>4. /\ Sequence(next.ns) /\ Len(next.ns) = m + i + 1 /\ next.ns[m + i + 1] = r.n
      /\ \A k \in 1 .. m + i : next.ns[k] = acc.ns[k]
  BY <1>2, OneMore
<1>5. Len(next.ns) = m + (i + 1)
  BY <1>4
<1>6. \A k \in 1 .. m : next.ns[k] = x.ns[k]
  <2>1. \A k \in 1 .. m : k \in 1 .. m + i
    OBVIOUS
  <2>2. \A k \in 1 .. m : acc.ns[k] = x.ns[k]
    BY <1>1 DEF Traced
  <2>3. QED
    BY <1>4, <2>1, <2>2
<1>7. ASSUME NEW k \in 1 .. i + 1
      PROVE  OneIn(x, next.ns[m + k], x.es[k], next.rc)
  <2>1. CASE k \in 1 .. i
    <3>1. m + k \in 1 .. m + i
      BY <2>1
    <3>2. next.ns[m + k] = acc.ns[m + k]
      BY <1>4, <3>1
    <3>3. OneIn(x, acc.ns[m + k], x.es[k], acc.rc)
      BY <1>1, <2>1 DEF Traced
    <3>4. QED
      BY <3>2, <3>3, OneInLater
  <2>2. CASE k = i + 1
    <3>1. Keeps(r.rc, next.rc)
      BY <1>3, KeepsSelf
    <3>2. OneIn(x, r.n, x.es[i + 1], next.rc)
      BY <1>2, <3>1 DEF OneIn
    <3>3. next.ns[m + k] = r.n
      BY <1>4, <2>2
    <3>4. QED
      BY <2>2, <3>2, <3>3
  <2>3. k \in 1 .. i \/ k = i + 1
    OBVIOUS
  <2>4. QED
    BY <2>1, <2>2, <2>3
<1>8. QED
  BY <1>1, <1>3, <1>4, <1>5, <1>6, <1>7 DEF Traced

(* Each element of the list keeps the scope. *)
EachKeeps(x, n) ==
    /\ n \in Nat /\ DOMAIN x.es = 1 .. n
    /\ \A i \in 1 .. n : \A c : Keeps(x.rc, c) => Keeps(c, OneOf(x, c, x.es[i]).rc)
StartsAs(x, acc) == IsContext(x.rc) /\ Sequence(x.ns) /\ acc.rc = x.rc /\ acc.ns = x.ns

(* Before the first element nothing is put in. *)
LEMMA TraceStarts ==
    ASSUME NEW x, NEW acc, StartsAs(x, acc)
    PROVE  Traced(x, 0, acc)
<1>1. Len(x.ns) \in Nat /\ Keeps(x.rc, x.rc)
  BY SequenceOf, KeepsSelf DEF StartsAs
<1>2. QED
  BY <1>1 DEF Traced, StartsAs

(* The whole list is rendered, *)
LEMMA AllTraced ==
    ASSUME NEW x, NEW n, EachKeeps(x, n), NEW acc, StartsAs(x, acc), NEW es, es = x.es
    PROVE  Traced(x, n, OneFold!Folded(x, acc, es))
<1>1. Traced(x, 0, acc)
  BY TraceStarts
<1>2. n \in Nat /\ DOMAIN es = 1 .. n /\ Sequence(x.ns)
  BY DEF EachKeeps, StartsAs
<1>3. ASSUME NEW i \in 1 .. n, NEW a, Traced(x, i - 1, a)
      PROVE  Traced(x, i, PushOne(x, a, es[i]))
  <2>1. PICK m \in Nat : m = i - 1 /\ i = m + 1
    OBVIOUS
  <2>2. PICK r : r = OneOf(x, a.rc, x.es[m + 1])
    OBVIOUS
  <2>3. Keeps(x.rc, a.rc)
    BY <1>3 DEF Traced
  <2>4. Keeps(a.rc, r.rc)
    BY <2>1, <2>2, <2>3 DEF EachKeeps
  <2>5. PICK next : next = PushOne(x, a, es[i])
    OBVIOUS
  <2>6. next.rc = r.rc /\ next.ns = Append(a.ns, r.n)
    BY <2>1, <2>2, <2>5 DEF PushOne, Push
  <2>7. Traced(x, m, a)
    BY <1>3, <2>1
  <2>8. Traced(x, m + 1, next)
    BY <1>2, <2>2, <2>4, <2>6, <2>7, TracedMore
  <2>9. QED
    BY <2>1, <2>5, <2>8
<1>4. QED
  BY <1>1, <1>2, <1>3, LeastNumber, OneFold!FoldInduction DEF OneFold!LeastNumber

(* with the arguments after each part counted.                              *)
LEMMA AllMarked ==
    ASSUME NEW x, NEW n, EachKeeps(x, n), NEW acc, StartsAs(x, acc), NEW es, es = x.es
    PROVE  Traced(x, n, MarkFold!Folded(x, acc, es))
<1>1. Traced(x, 0, acc)
  BY TraceStarts
<1>2. n \in Nat /\ DOMAIN es = 1 .. n /\ Sequence(x.ns)
  BY DEF EachKeeps, StartsAs
<1>3. ASSUME NEW i \in 1 .. n, NEW a, Traced(x, i - 1, a)
      PROVE  Traced(x, i, MarkOne(x, a, es[i]))
  <2>1. PICK m \in Nat : m = i - 1 /\ i = m + 1
    OBVIOUS
  <2>2. PICK r : r = OneOf(x, a.rc, x.es[m + 1])
    OBVIOUS
  <2>3. Keeps(x.rc, a.rc)
    BY <1>3 DEF Traced
  <2>4. Keeps(a.rc, r.rc)
    BY <2>1, <2>2, <2>3 DEF EachKeeps
  <2>5. PICK next : next = MarkOne(x, a, es[i])
    OBVIOUS
  <2>6. next.rc = r.rc /\ next.ns = Append(a.ns, r.n)
    BY <2>1, <2>2, <2>5 DEF MarkOne, Mark
  <2>7. Traced(x, m, a)
    BY <1>3, <2>1
  <2>8. Traced(x, m + 1, next)
    BY <1>2, <2>2, <2>4, <2>6, <2>7, TracedMore
  <2>9. QED
    BY <2>1, <2>5, <2>8
<1>4. QED
  BY <1>1, <1>2, <1>3, LeastNumber, MarkFold!FoldInduction DEF MarkFold!LeastNumber

(* When there is no error at the end there was none in any element.         *)
Errless(x, n, e) == \E c : Keeps(x.rc, c) /\ n = OneOf(x, c, e).n /\ OneOf(x, c, e).rc.err = ""
(* An element of a list without an error was put in without one. *)
LEMMA TracedErrless ==
    ASSUME NEW x, NEW n, NEW acc, Traced(x, n, acc), acc.rc.err = "", NEW k \in 1 .. n
    PROVE  Errless(x, acc.ns[Len(x.ns) + k], x.es[k])
<1>1. OneIn(x, acc.ns[Len(x.ns) + k], x.es[k], acc.rc)
  BY DEF Traced
<1>2. QED
  BY <1>1, KeptContext DEF OneIn, Errless

-----------------------------------------------------------------------------
(* Values, and a tenant's predicate, as they are rendered. *)

(* Of two lists, the second after m elements, the values of the one are the *)
(* placeholders of the other.                                               *)
PlaceholdersOf(es, ns, m) == \A k \in 1 .. Len(es) : es[k].k = "val" => Ph(ns[m + k], es[k].a)
Nothing(s) == s = <<>>

(* The empty list. *)
LEMMA NothingIs ==
    ASSUME NEW s, Nothing(s)
    PROVE  Sequence(s) /\ Len(s) = 0 /\ DOMAIN s = {}
  BY DEF Nothing, Sequence

(* A placeholder takes its value. *)
LEMMA ValuePh ==
    ASSUME NEW h, NEW rc, NEW e, e.k = "val"
    PROVE  Ph(RenderValue(h, rc, e).n, e.a)
  BY DEF RenderValue, AddArg, Out, Leaf, Node, Ph

(* A list of values and expressions.                                        *)
LEMMA RenderedValues ==
    ASSUME NEW h, NEW L, KeepsIn(h, L), NEW rc, IsContext(rc), NEW es \in Seq(L),
           NEW acc, acc = RenderAll(h, rc, es)
    PROVE  /\ Keeps(rc, acc.rc) /\ Sequence(acc.ns) /\ Len(acc.ns) = Len(es)
           /\ PlaceholdersOf(es, acc.ns, 0)
<1>1. PICK none : Nothing(none)
  BY DEF Nothing
<1>2. PICK x : x = [kind |-> "value", h |-> h, rc |-> rc, ns |-> none, es |-> es]
  OBVIOUS
<1>3. PICK base : base = [rc |-> rc, ns |-> none]
  OBVIOUS
<1>4. PICK n \in Nat : n = Len(es)
  BY LenProperties
<1>5. \A c, e : OneOf(x, c, e) = RenderValue(h, c, e)
  BY <1>2 DEF OneOf
<1>6. x.rc = rc /\ x.ns = none /\ x.es = es
  BY <1>2
<1>7. EachKeeps(x, n)
  <2>1. DOMAIN es = 1 .. n
    BY <1>4, LenProperties
  <2>2. ASSUME NEW i \in 1 .. n, NEW c, Keeps(rc, c)
        PROVE  Keeps(c, OneOf(x, c, es[i]).rc)
    <3>1. es[i] \in L
      BY <2>1, ElementOfSeq, <1>4
    <3>2. QED
      BY <1>5, <2>2, <3>1, KeptContext, RenderValueKeeps
  <2>3. QED
    BY <1>6, <2>1, <2>2 DEF EachKeeps
<1>8. StartsAs(x, base)
  BY <1>1, <1>3, <1>6, NothingIs DEF StartsAs
<1>9. acc = OneFold!Folded(x, base, es)
  <2>1. base = Begin(rc)
    BY <1>1, <1>3 DEF Begin, Nothing
  <2>2. acc = RenderNext(h, base, es)
    BY <2>1 DEF RenderAll
  <2>3. QED
    BY <1>2, <2>2 DEF RenderNext, OneFold!Folded, PushOne, OneOf, FoldLeft, MapThenFoldSet, Max, OneFold!Last
<1>10. Traced(x, n, acc)
  BY <1>6, <1>7, <1>8, <1>9, AllTraced
<1>11. Len(x.ns) = 0
  BY <1>1, <1>6, NothingIs
<1>12. ASSUME NEW k \in 1 .. n, es[k].k = "val"
       PROVE  Ph(acc.ns[0 + k], es[k].a)
  <2>1. OneIn(x, acc.ns[0 + k], es[k], acc.rc)
    BY <1>6, <1>10, <1>11, <1>12 DEF Traced
  <2>2. PICK c : acc.ns[0 + k] = OneOf(x, c, es[k]).n
    BY <2>1 DEF OneIn
  <2>3. QED
    BY <1>5, <1>12, <2>2, ValuePh
<1>13. QED
  BY <1>4, <1>6, <1>10, <1>11, <1>12 DEF Traced, PlaceholdersOf

(* Arguments after what is there. *)
ArgumentsOf(vs, n, ns, m) == \A k \in 1 .. n : Ph(ns[m + k], vs[k])
(* AddArgs puts a placeholder of each argument after what is there. *)
LEMMA RenderedArgs ==
    ASSUME NEW start, IsContext(start.rc), Sequence(start.ns), NEW n \in Nat, NEW vs, DOMAIN vs = 1 .. n,
           NEW acc, acc = AddArgs(start, vs)
    PROVE  /\ Keeps(start.rc, acc.rc) /\ Sequence(acc.ns) /\ Len(acc.ns) = Len(start.ns) + n
           /\ \A k \in 1 .. Len(start.ns) : acc.ns[k] = start.ns[k]
           /\ ArgumentsOf(vs, n, acc.ns, Len(start.ns))
<1>1. PICK x : x = [kind |-> "arg", rc |-> start.rc, ns |-> start.ns, es |-> vs]
  OBVIOUS
<1>2. \A c, e : OneOf(x, c, e) = AddArg(c, e)
  BY <1>1 DEF OneOf
<1>3. x.rc = start.rc /\ x.ns = start.ns /\ x.es = vs
  BY <1>1
<1>4. EachKeeps(x, n)
  BY <1>2, <1>3, KeptContext, AddArgKeeps DEF EachKeeps
<1>5. StartsAs(x, start)
  BY <1>3 DEF StartsAs
<1>6. acc = OneFold!Folded(x, start, vs)
  BY <1>1 DEF AddArgs, OneFold!Folded, PushOne, OneOf, FoldLeft, MapThenFoldSet, Max, OneFold!Last
<1>7. Traced(x, n, acc)
  BY <1>3, <1>4, <1>5, <1>6, AllTraced
<1>8. ASSUME NEW k \in 1 .. n
      PROVE  Ph(acc.ns[Len(start.ns) + k], vs[k])
  <2>1. OneIn(x, acc.ns[Len(start.ns) + k], vs[k], acc.rc)
    BY <1>3, <1>7 DEF Traced
  <2>2. PICK c : acc.ns[Len(start.ns) + k] = OneOf(x, c, vs[k]).n
    BY <2>1 DEF OneIn
  <2>3. acc.ns[Len(start.ns) + k] = AddArg(c, vs[k]).n
    BY <1>2, <2>2
  <2>4. QED
    BY <2>3 DEF AddArg, Out, Leaf, Node, Ph
<1>9. QED
  BY <1>3, <1>7, <1>8 DEF Traced, ArgumentsOf

(* What a statement calls a table. *)
AsIn(rc, base) == IF Bases[base].alias # "" THEN <<"as", Bases[base].alias>> ELSE NameIn(rc, base)
IsColumn(n, prefix, col) == n.t = "col" /\ n.a.prefix = prefix /\ n.a.col = col

(* A reference to one of its columns.                                       *)
LEMMA ReferenceIs ==
    ASSUME NEW p, NEW base, NEW col, NEW f, f = Reference(p, base, col)
    PROVE  f.rc = p.rc /\ IsColumn(f.n, p.name, col)
  BY DEF Reference, Out, Leaf, Node, IsColumn

(* So a column of it is of that name, *)
LEMMA ColumnNamed ==
    ASSUME NEW rc, IsContext(rc), NEW base, NEW col, NEW f, f = FieldRender(rc, base, col), f.rc.err = ""
    PROVE  IsColumn(f.n, AsIn(rc, base), col)
<1>1. PICK p : p = prefixParts(rc, base)
  OBVIOUS
<1>2. f = Reference(p, base, col)
  BY <1>1 DEF FieldRender
<1>3. f.rc = p.rc /\ IsColumn(f.n, p.name, col)
  BY <1>2, ReferenceIs
<1>4. p.name = AsIn(rc, base)
  <2>1. CASE Bases[base].alias # ""
    BY <1>1, <2>1 DEF prefixParts, AsIn
  <2>2. CASE Bases[base].alias = ""
    BY <1>1, <1>3, <2>2, ResolveKeeps DEF prefixParts, AsIn
  <2>3. QED
    BY <2>1, <2>2
<1>5. QED
  BY <1>3, <1>4

NoError(rc) == rc.err = ""
IsError(e) == e # ""

(* A fragment with the context after it. *)
LEMMA OutIs ==
    ASSUME NEW rc, NEW n, NEW r, r = Out(rc, n)
    PROVE  r.rc = rc /\ r.n = n
  BY DEF Out

(* One fragment after none. *)
LEMMA FirstPushed ==
    ASSUME NEW rc, NEW f, NEW acc, acc = Push(Begin(rc), f)
    PROVE  acc.rc = f.rc /\ Sequence(acc.ns) /\ Len(acc.ns) = 1 /\ acc.ns[1] = f.n
<1>1. PICK none : Nothing(none)
  BY DEF Nothing
<1>2. acc.rc = f.rc /\ acc.ns = Append(none, f.n)
  BY <1>1 DEF Push, Begin, Nothing
<1>3. QED
  BY <1>1, <1>2, NothingIs, OneMore

(* A table whose tenants are looked at. *)
Restricted(rc, base) == Bases[base].tenant /\ ~rc.tenantDisabled

OfWrongType(ids) == \E i \in DOMAIN ids : ~CheckTenantValue(ids[i])

(* The tenant predicate of a table is that its tenant is one in force.      *)
LEMMA TenantRendered ==
    ASSUME NEW rc, IsContext(rc), NEW base, Restricted(rc, base),
           NEW t, t = TableRef("base", base), NEW r, r = tenantPredicate(rc, t), NoError(r.rc)
    PROVE  TenantIs(r.n, AsIn(rc, base), TenantIDs(rc))
<1>1. tenantMarked(t) /\ t.id = base
  BY DEF tenantMarked, IsBase, TableRef, Restricted
<1>2. PICK ids : ids = TenantIDs(rc)
  OBVIOUS
<1>3. ~Nothing(ids) /\ ~OfWrongType(ids)
  <2>1. CASE Nothing(ids)
    <3>1. \E e : IsError(e) /\ r = Out(Fail(rc, e), Empty)
      BY <1>1, <1>2, <2>1 DEF tenantPredicate, Restricted, Nothing, IsError
    <3>2. PICK e : IsError(e) /\ r.rc = Fail(rc, e)
      BY <3>1, OutIs
    <3>3. QED
      BY <3>2, FailKeeps DEF NoError, IsError
  <2>2. CASE ~Nothing(ids) /\ OfWrongType(ids)
    <3>1. \E e : IsError(e) /\ r = Out(Fail(rc, e), Empty)
      BY <1>1, <1>2, <2>2 DEF tenantPredicate, Restricted, Nothing, OfWrongType, IsError
    <3>2. PICK e : IsError(e) /\ r.rc = Fail(rc, e)
      BY <3>1, OutIs
    <3>3. QED
      BY <3>2, FailKeeps DEF NoError, IsError
  <2>3. QED
    BY <2>1, <2>2
<1>4. PICK f : f = FieldRender(rc, base, "tid")
  OBVIOUS
<1>5. PICK acc : acc = Push(Begin(rc), f)
  OBVIOUS
<1>6. PICK all : all = AddArgs(acc, ids)
  OBVIOUS
<1>7. r = AsNode("auto", "tenant", all)
  BY <1>1, <1>2, <1>3, <1>4, <1>5, <1>6 DEF tenantPredicate, Restricted, Nothing, OfWrongType
<1>8. r.rc = all.rc /\ r.n.t = "auto" /\ r.n.a = "tenant" /\ r.n.kids = all.ns
  BY <1>7 DEF AsNode, Out, Node
<1>9. acc.rc = f.rc /\ Sequence(acc.ns) /\ Len(acc.ns) = 1 /\ acc.ns[1] = f.n
  BY <1>5, FirstPushed
<1>10. Keeps(rc, f.rc)
  BY <1>4, FieldRenderKeeps
<1>11. PICK n \in Nat : DOMAIN ids = 1 .. n
  BY <1>2, <1>3 DEF TenantIDs, IsContext, IsList, Nothing
<1>12. /\ Keeps(acc.rc, all.rc) /\ Sequence(all.ns) /\ Len(all.ns) = 1 + n
       /\ all.ns[1] = f.n /\ ArgumentsOf(ids, n, all.ns, 1)
  <2>1. IsContext(acc.rc)
    BY <1>9, <1>10, KeptContext
  <2>2. 1 \in 1 .. 1
    OBVIOUS
  <2>3. QED
    BY <1>6, <1>9, <1>11, <2>1, <2>2, RenderedArgs
<1>13. NoError(f.rc)
  BY <1>8, <1>9, <1>12, KeptContext DEF NoError
<1>14. IsColumn(f.n, AsIn(rc, base), "tid")
  BY <1>4, <1>13, ColumnNamed DEF NoError
<1>15. ASSUME NEW i \in 2 .. Len(r.n.kids)
       PROVE  \E j \in DOMAIN ids : Ph(r.n.kids[i], ids[j])
  <2>1. PICK k \in 1 .. n : i = 1 + k
    <3>1. i - 1 \in 1 .. n /\ i = 1 + (i - 1)
      BY <1>8, <1>12, <1>15
    <3>2. QED
      BY <3>1
  <2>2. Ph(all.ns[1 + k], ids[k])
    BY <1>12 DEF ArgumentsOf
  <2>3. QED
    BY <1>8, <1>11, <2>1, <2>2
<1>16. Sequence(r.n.kids) /\ Len(r.n.kids) > 0 /\ IsColumn(r.n.kids[1], AsIn(rc, base), "tid")
  BY <1>8, <1>12, <1>14
<1>17. QED
  BY <1>2, <1>8, <1>15, <1>16 DEF TenantIs, IsColumn

(* In any case it is no bare text. *)
LEMMA TenantNotRaw ==
    ASSUME NEW rc, NEW t
    PROVE  tenantPredicate(rc, t).n.t # "raw"
  BY DEF tenantPredicate, Out, Empty, Leaf, AsNode, Node

(* SET: each assignment is a node of the column and the value. *)
SetRendered(s, cv) == s.a = cv.col /\ (cv.v.k = "val" => Ph(s.kids[1], cv.v.a))
SetsRendered(n, sets) ==
    /\ n.t = "sets" /\ Sequence(n.kids) /\ Len(n.kids) = Len(sets)
    /\ \A i \in 1 .. Len(sets) : SetRendered(n.kids[i], sets[i])

(* One of them. *)
LEMMA OneSet ==
    ASSUME NEW col, NEW k, NEW s, s = Node("set", col, <<k>>)
    PROVE  s.a = col /\ s.kids[1] = k
  BY DEF Node

(* renderSets puts the columns and values of the assignments in, in their order. *)
LEMMA RenderedSets ==
    ASSUME NEW h, NEW L, KeepsIn(h, L), NEW rc, IsContext(rc), NEW sets \in Seq(Written(L)),
           NEW r, r = renderSets(h, rc, sets)
    PROVE  Keeps(rc, r.rc) /\ SetsRendered(r.n, sets)
<1>1. PICK es : es = [i \in DOMAIN sets |-> sets[i].v]
  OBVIOUS
<1>2. PICK acc : acc = RenderAll(h, rc, es)
  OBVIOUS
<1>3. es \in Seq(L)
  BY <1>1, WrittenValues
<1>4. PICK m \in Nat : m = Len(sets) /\ DOMAIN sets = 1 .. m
  BY LenProperties
<1>5. Len(es) = m /\ \A i \in 1 .. m : es[i] = sets[i].v
  <2>1. DOMAIN es = 1 .. m
    BY <1>1, <1>4
  <2>2. DOMAIN es = 1 .. Len(es) /\ Len(es) \in Nat
    BY <1>3, LenProperties
  <2>3. QED
    BY <1>1, <1>4, <2>1, <2>2
<1>6. Keeps(rc, acc.rc) /\ PlaceholdersOf(es, acc.ns, 0) /\ Sequence(acc.ns) /\ Len(acc.ns) = m
  BY <1>2, <1>3, <1>5, RenderedValues
<1>7. PICK kids : kids = [i \in DOMAIN sets |-> Node("set", sets[i].col, <<acc.ns[i]>>)]
  OBVIOUS
<1>8. r.rc = acc.rc /\ r.n.t = "sets" /\ r.n.kids = kids
  BY <1>1, <1>2, <1>7 DEF renderSets, SetNodes, Out, Node
<1>9. Sequence(kids) /\ Len(kids) = m
  BY <1>4, <1>7 DEF Sequence
<1>10. ASSUME NEW i \in 1 .. m
       PROVE  SetRendered(kids[i], sets[i])
  <2>1. kids[i] = Node("set", sets[i].col, <<acc.ns[i]>>)
    BY <1>4, <1>7
  <2>2. kids[i].a = sets[i].col /\ kids[i].kids[1] = acc.ns[i]
    BY <2>1, OneSet
  <2>3. es[i].k = "val" => Ph(acc.ns[0 + i], es[i].a)
    BY <1>5, <1>6 DEF PlaceholdersOf
  <2>4. 0 + i = i
    OBVIOUS
  <2>5. QED
    BY <1>5, <2>2, <2>3, <2>4 DEF SetRendered
<1>11. QED
  BY <1>4, <1>6, <1>8, <1>9, <1>10 DEF SetsRendered

-----------------------------------------------------------------------------
(* The conditions of a statement. *)

NotRaw(ns) == Sequence(ns) /\ \A i \in DOMAIN ns : ns[i].t # "raw"

(* A scope that is kept has the same names and tenants. *)
LEMMA ScopeSame ==
    ASSUME NEW rc, NEW r, Keeps(rc, r), NEW base
    PROVE  /\ AsIn(r, base) = AsIn(rc, base) /\ TenantIDs(r) = TenantIDs(rc)
           /\ (Restricted(rc, base) => Restricted(r, base)) /\ r.d = rc.d
<1>1. NameIn(r, base) = NameIn(rc, base)
  BY OneName
<1>2. SameScope(rc, r)
  BY DEF Keeps
<1>3. AsIn(r, base) = AsIn(rc, base)
  BY <1>1 DEF AsIn
<1>4. TenantIDs(r) = TenantIDs(rc)
  BY <1>2 DEF SameScope, TenantIDs
<1>5. Restricted(rc, base) => Restricted(r, base)
  BY <1>2 DEF SameScope, Restricted
<1>6. QED
  BY <1>2, <1>3, <1>4, <1>5 DEF SameScope

(* What is in parentheses is no bare text, *)
LEMMA ParenthesesNotRaw ==
    ASSUME NEW ns, Sequence(ns)
    PROVE  NotRaw(parenthesizeSQL(ns))
<1>1. PICK ps : ps = parenthesizeSQL(ns)
  OBVIOUS
<1>2. PICK n \in Nat : DOMAIN ns = 1 .. n
  BY SequenceOf
<1>3. ps = [i \in 1 .. n |-> IF IsEmpty(ns[i]) THEN Empty ELSE Node("paren", 0, <<ns[i]>>)]
  BY <1>1, <1>2 DEF parenthesizeSQL
<1>4. Sequence(ps) /\ DOMAIN ps = 1 .. n
  BY <1>3 DEF Sequence
<1>5. ASSUME NEW i \in 1 .. n
      PROVE  ps[i].t # "raw"
  <2>1. ps[i] = Empty \/ ps[i] = Node("paren", 0, <<ns[i]>>)
    BY <1>3
  <2>2. QED
    BY <2>1 DEF Empty, Leaf, Node
<1>6. QED
  BY <1>1, <1>4, <1>5 DEF NotRaw

(* nor are the parts of it that are there.                                  *)
LEMMA PresentNotRaw ==
    ASSUME NEW ns, NotRaw(ns)
    PROVE  NotRaw(Present(ns))
  BY PresentFrom DEF NotRaw

(* Conditions in parentheses.                                               *)
LEMMA RenderedConditions ==
    ASSUME NEW h, NEW L, KeepsIn(h, L), NEW rc, IsContext(rc), NEW es \in Seq(L),
           NEW acc, acc = Parenthesized(RenderAll(h, rc, es))
    PROVE  Keeps(rc, acc.rc) /\ NotRaw(acc.ns)
<1>1. PICK a : a = RenderAll(h, rc, es)
  OBVIOUS
<1>2. Keeps(rc, a.rc) /\ Sequence(a.ns)
  BY <1>1, RenderedValues
<1>3. acc.rc = a.rc /\ acc.ns = parenthesizeSQL(a.ns)
  BY <1>1 DEF Parenthesized
<1>4. QED
  BY <1>2, <1>3, ParenthesesNotRaw

(* One element and some more.                                               *)
LEMMA FirstStays ==
    ASSUME NEW T, NEW s \in Seq(T), Len(s) = 1, NEW r \in Seq(T)
    PROVE  s \o r \in Seq(T) /\ Len(s \o r) = Len(s) + Len(r) /\ (s \o r)[1] = s[1]
<1>1. s \o r \in Seq(T) /\ Len(s \o r) = Len(s) + Len(r)
  BY ConcatProperties
<1>2. Len(r) \in Nat
  BY LenProperties
<1>3. 1 \in 1 .. Len(s) + Len(r) /\ 1 <= Len(s)
  BY <1>2
<1>4. (s \o r)[1] = s[1]
  BY SMTT(30), <1>3, ConcatProperties
<1>5. QED
  BY <1>1, <1>4

(* The table of a statement among those of its joins is the first.          *)
WithTables(t, inner, tables) == tables = <<t>> \o [i \in DOMAIN inner |-> inner[i].table]
(* So it is, whatever the joins are. *)
LEMMA TablesFirst ==
    ASSUME NEW t, NEW inner, IsList(inner), NEW tables, WithTables(t, inner, tables)
    PROVE  \E n \in Nat : n > 0 /\ DOMAIN tables = 1 .. n /\ tables[1] = t
<1>1. PICK m \in Nat : DOMAIN inner = 1 .. m
  BY DEF IsList
<1>2. PICK rest : rest = [i \in DOMAIN inner |-> inner[i].table]
  OBVIOUS
<1>3. PICK ts : ts = {inner[i].table : i \in 1 .. m} \cup {t}
  OBVIOUS
<1>4. rest \in Seq(ts)
  <2>1. rest \in [1 .. m -> ts]
    BY <1>1, <1>2, <1>3
  <2>2. QED
    BY <2>1, SeqDef
<1>5. PICK one : one = <<t>>
  OBVIOUS
<1>6. one \in Seq(ts) /\ Len(one) = 1 /\ one[1] = t
  BY <1>3, <1>5
<1>7. tables = one \o rest
  BY <1>2, <1>5 DEF WithTables
<1>8. tables \in Seq(ts) /\ Len(tables) = Len(one) + Len(rest) /\ tables[1] = one[1]
  BY <1>4, <1>6, <1>7, FirstStays
<1>9. Len(tables) \in Nat /\ Len(tables) > 0 /\ tables[1] = t
  BY <1>4, <1>6, <1>8, LenProperties
<1>10. DOMAIN tables = 1 .. Len(tables)
  BY <1>8, LenProperties
<1>11. QED
  BY <1>9, <1>10

(* The predicates of some tables, after what is there: that of the first is *)
(* among them.                                                              *)
LEMMA RenderedTenants ==
    ASSUME NEW start, IsContext(start.rc), NotRaw(start.ns), NEW base, Restricted(start.rc, base),
           NEW n \in Nat, n > 0, NEW tables, DOMAIN tables = 1 .. n, tables[1] = TableRef("base", base),
           NEW acc, acc = FoldLeft(AddTenant, start, tables), NoError(acc.rc)
    PROVE  /\ Keeps(start.rc, acc.rc) /\ NotRaw(acc.ns)
           /\ \E i \in DOMAIN acc.ns :
                TenantIs(acc.ns[i], AsIn(start.rc, base), TenantIDs(start.rc))
<1>1. PICK x : x = [kind |-> "tenant", rc |-> start.rc, ns |-> start.ns, es |-> tables]
  OBVIOUS
<1>2. \A c, e : OneOf(x, c, e) = tenantPredicate(c, e)
  BY <1>1 DEF OneOf
<1>3. x.rc = start.rc /\ x.ns = start.ns /\ x.es = tables
  BY <1>1
<1>4. EachKeeps(x, n)
  BY <1>2, <1>3, KeptContext, TenantPredicateKeeps DEF EachKeeps
<1>5. StartsAs(x, start)
  BY <1>3 DEF StartsAs, NotRaw
<1>6. acc = OneFold!Folded(x, start, tables)
  BY <1>1 DEF AddTenant, OneFold!Folded, PushOne, OneOf, FoldLeft, MapThenFoldSet, Max, OneFold!Last
<1>7. Traced(x, n, acc)
  BY <1>3, <1>4, <1>5, <1>6, AllTraced
<1>8. PICK m \in Nat : m = Len(start.ns) /\ DOMAIN start.ns = 1 .. m
  BY SequenceOf DEF NotRaw
<1>9. Keeps(start.rc, acc.rc) /\ Sequence(acc.ns) /\ DOMAIN acc.ns = 1 .. m + n
  BY <1>3, <1>7, <1>8, SequenceOf DEF Traced
<1>10. \A k \in 1 .. m : acc.ns[k] = start.ns[k]
  BY <1>3, <1>7, <1>8 DEF Traced
<1>11. \A k \in 1 .. n : OneIn(x, acc.ns[m + k], tables[k], acc.rc)
  BY <1>3, <1>7, <1>8 DEF Traced
<1>12. ASSUME NEW i \in 1 .. m + n
       PROVE  acc.ns[i].t # "raw"
  <2>1. CASE i \in 1 .. m
    BY <1>8, <1>10, <2>1 DEF NotRaw
  <2>2. CASE i \notin 1 .. m
    <3>1. i - m \in 1 .. n /\ i = m + (i - m)
      BY <2>2
    <3>2. PICK k \in 1 .. n : i = m + k
      BY <3>1
    <3>3. PICK c : acc.ns[i] = OneOf(x, c, tables[k]).n
      BY <1>11, <3>2 DEF OneIn
    <3>4. acc.ns[i] = tenantPredicate(c, tables[k]).n
      BY <1>2, <3>3
    <3>5. QED
      BY <3>4, TenantNotRaw
  <2>3. QED
    BY <2>1, <2>2
<1>13. TenantIs(acc.ns[m + 1], AsIn(start.rc, base), TenantIDs(start.rc))
  <2>1. OneIn(x, acc.ns[m + 1], tables[1], acc.rc)
    BY <1>11
  <2>2. PICK c : /\ Keeps(start.rc, c) /\ acc.ns[m + 1] = OneOf(x, c, tables[1]).n
                 /\ Keeps(OneOf(x, c, tables[1]).rc, acc.rc)
    BY <1>3, <2>1 DEF OneIn
  <2>3. PICK r : r = tenantPredicate(c, TableRef("base", base))
    OBVIOUS
  <2>4. acc.ns[m + 1] = r.n /\ Keeps(r.rc, acc.rc)
    BY <1>2, <2>2, <2>3
  <2>5. NoError(r.rc)
    BY <2>4, KeptContext DEF NoError
  <2>6. /\ AsIn(c, base) = AsIn(start.rc, base) /\ TenantIDs(c) = TenantIDs(start.rc)
        /\ Restricted(c, base) /\ IsContext(c)
    BY <2>2, ScopeSame, KeptContext
  <2>7. TenantIs(r.n, AsIn(c, base), TenantIDs(c))
    BY <2>3, <2>5, <2>6, TenantRendered
  <2>8. QED
    BY <2>4, <2>6, <2>7
<1>14. m + 1 \in DOMAIN acc.ns
  BY <1>9
<1>15. QED
  BY <1>9, <1>12, <1>13, <1>14 DEF NotRaw

(* The parts of a WHERE or an ON that are there. *)
LEMMA ConditionsAre ==
    ASSUME NEW t, NEW acc, NotRaw(acc.ns), NEW r, r = Conditions(t, acc)
    PROVE  r.rc = acc.rc /\ r.n.t = t /\ NotRaw(r.n.kids) /\ r.n.kids = Present(acc.ns)
<1>1. PICK ns : ns = Present(acc.ns)
  OBVIOUS
<1>2. r = Out(acc.rc, Node(t, 0, ns))
  BY <1>1 DEF Conditions
<1>3. PICK n : n = Node(t, 0, ns)
  OBVIOUS
<1>4. r.rc = acc.rc /\ r.n = n
  BY <1>2, <1>3, OutIs
<1>5. n.t = t /\ n.kids = ns
  BY <1>3 DEF Node
<1>6. QED
  BY <1>1, <1>4, <1>5, PresentNotRaw

(* The WHERE of an UPDATE or a DELETE has the tenant's predicate of its     *)
(* table.                                                                   *)
LEMMA RenderedWhere ==
    ASSUME NEW h, NEW L, KeepsIn(h, L), NEW rc, IsContext(rc), NEW b, IsList(b.joins),
           b.conds \in Seq(L), Restricted(rc, b.table), NEW r, r = dmlWhere(h, rc, b), NoError(r.rc)
    PROVE  Keeps(rc, r.rc) /\ Guards(r.n, AsIn(rc, b.table), TenantIDs(rc))
<1>1. PICK is : is = {i \in DOMAIN b.joins : joinSoftDeleteInWhere(b.joins[i].kind)}
  OBVIOUS
<1>2. PICK inner : inner = Chosen(b.joins, is)
  OBVIOUS
<1>3. PICK main : main = TableRef("base", b.table)
  OBVIOUS
<1>4. PICK tables : WithTables(main, inner, tables)
  BY DEF WithTables
<1>5. PICK n \in Nat : n > 0 /\ DOMAIN tables = 1 .. n /\ tables[1] = main
  <2>1. is \in SUBSET DOMAIN b.joins
    BY <1>1
  <2>2. IsList(inner)
    BY <1>2, <2>1, ChosenListed
  <2>3. QED
    BY <1>4, <2>2, TablesFirst
<1>6. PICK c : c = checkTenantJoins(rc, main, b.joins)
  OBVIOUS
<1>7. Keeps(rc, c)
  BY <1>6, ChecksKeep
<1>8. PICK start : start = Parenthesized(RenderAll(h, c, b.conds))
  OBVIOUS
<1>9. Keeps(c, start.rc) /\ NotRaw(start.ns)
  BY <1>7, <1>8, KeptContext, RenderedConditions
<1>10. PICK acc : acc = FoldLeft(AddTenant, start, tables)
  BY SMTT(30)
<1>11. r = Conditions("where", acc)
  BY <1>1, <1>2, <1>3, <1>4, <1>6, <1>8, <1>10 DEF dmlWhere, Filter, WithTables
<1>12. PICK where : r = Conditions(where, acc) /\ where = "where"
  BY <1>11
<1>13. Keeps(rc, start.rc)
  BY <1>7, <1>9, KeepsOn
<1>14. r.rc = acc.rc
  BY <1>12 DEF Conditions, Out
<1>15. /\ AsIn(start.rc, b.table) = AsIn(rc, b.table) /\ TenantIDs(start.rc) = TenantIDs(rc)
       /\ Restricted(start.rc, b.table) /\ IsContext(start.rc)
  BY <1>13, ScopeSame, KeptContext
<1>16. /\ Keeps(start.rc, acc.rc) /\ NotRaw(acc.ns)
       /\ \E i \in DOMAIN acc.ns : TenantIs(acc.ns[i], AsIn(rc, b.table), TenantIDs(rc))
  BY <1>3, <1>5, <1>9, <1>10, <1>14, <1>15, RenderedTenants
<1>17. r.n.t = "where" /\ NotRaw(r.n.kids) /\ r.n.kids = Present(acc.ns)
  BY <1>12, <1>16, ConditionsAre
<1>18. \E k \in DOMAIN r.n.kids : TenantIs(r.n.kids[k], AsIn(rc, b.table), TenantIDs(rc))
  <2>1. PICK i \in DOMAIN acc.ns : TenantIs(acc.ns[i], AsIn(rc, b.table), TenantIDs(rc))
    BY <1>16
  <2>2. ~IsEmpty(acc.ns[i])
    BY <2>1 DEF TenantIs, IsEmpty
  <2>3. Sequence(acc.ns)
    BY <1>16 DEF NotRaw
  <2>4. PICK k \in DOMAIN Present(acc.ns) : Present(acc.ns)[k] = acc.ns[i]
    BY <2>2, <2>3, PresentFrom
  <2>5. QED
    BY <1>17, <2>1, <2>4
<1>19. Keeps(rc, r.rc)
  BY <1>13, <1>14, <1>16, KeepsOn
<1>20. QED
  BY <1>17, <1>18, <1>19 DEF Guards, NotRaw

-----------------------------------------------------------------------------
(* Tables and joins. *)

(* A subquery without an error is a query. *)
LEMMA RenderedQuery ==
    ASSUME NEW h, NEW L, RenderRecurses(h, L), NEW rc, IsContext(rc), NEW id, Sub(id) \in L,
           NEW r, r = Render(h, rc, Sub(id)), NoError(r.rc)
    PROVE  r.n.kids[1].t = "select"
<1>1. r = RenderExpression(h, rc, Sub(id))
  BY DEF RenderRecurses
<1>2. r = Subquery(h, rc, id)
  BY <1>1 DEF RenderExpression, Sub, Ex
<1>3. PICK s : s = renderSelect(h, rc, h[id], id)
  OBVIOUS
<1>4. PICK acc : acc = Push(Begin(rc), s)
  OBVIOUS
<1>5. r.rc = acc.rc /\ r.n.kids = acc.ns
  BY <1>2, <1>3, <1>4 DEF Subquery, AsNode, Out, Node
<1>6. acc.rc = s.rc /\ acc.ns[1] = s.n
  BY <1>4, FirstPushed
<1>7. PICK b : b = h[id]
  OBVIOUS
<1>8. ~IsError(b.buildErr)
  <2>1. CASE IsError(b.buildErr)
    <3>1. s = Out(Fail(rc, b.buildErr), Empty)
      BY <1>3, <1>7, <2>1 DEF renderSelect, IsError
    <3>2. s.rc = Fail(rc, b.buildErr)
      BY <3>1, OutIs
    <3>3. QED
      BY <1>5, <1>6, <2>1, <3>2, FailKeeps DEF NoError, IsError
  <2>2. QED
    BY <2>1
<1>9. PICK a : s = Selected(b, rc, a)
  BY <1>3, <1>7, <1>8 DEF renderSelect, IsError
<1>10. s.n.t = "select"
  BY <1>9 DEF Selected, Out, Node
<1>11. QED
  BY <1>5, <1>6, <1>10

(* A table that is read goes by its name or its alias. *)
ScanAs(r, base) == IF Bases[base].alias = "" THEN r.name ELSE <<"as", Bases[base].alias>>
(* Its name is as in the scan. *)
LEMMA ScanIs ==
    ASSUME NEW r, NEW base, NEW f, f = Scan(r, base)
    PROVE  f.rc = r.rc /\ f.n.t = "scan" /\ f.n.a.as = ScanAs(r, base)
<1>1. PICK as : as = ScanAs(r, base)
  OBVIOUS
<1>2. PICK a : a = [name |-> r.name, base |-> base, by |-> r.rc.path, as |-> as]
  OBVIOUS
<1>3. f = Out(r.rc, Leaf("scan", a))
  BY <1>1, <1>2 DEF Scan, ScanAs
<1>4. a.as = as
  BY <1>2
<1>5. PICK n : n = Leaf("scan", a)
  OBVIOUS
<1>6. n.t = "scan" /\ n.a = a
  BY <1>5 DEF Leaf, Node
<1>7. f.rc = r.rc /\ f.n = n
  BY <1>3, <1>5, OutIs
<1>8. QED
  BY <1>1, <1>4, <1>6, <1>7

(* So the tables of the joins are tables. *)
LEMMA RenderedTable ==
    ASSUME NEW h, NEW L, RenderRecurses(h, L), NEW rc, IsContext(rc), NEW t, TableIn(L, t),
           NEW r, r = renderTableName(h, rc, t), NoError(r.rc)
    PROVE  TableNode(r.n)
<1>1. CASE t.k = "base"
  <2>1. PICK p : p = ResolveTableName(rc, t.id)
    OBVIOUS
  <2>2. r = Scan(p, t.id)
    BY <1>1, <2>1 DEF renderTableName
  <2>3. QED
    BY <2>2, ScanIs DEF TableNode
<1>2. CASE t.k = "cte"
  <2>1. r = Out(rc, Leaf("cteRef", t.id))
    BY <1>2 DEF renderTableName
  <2>2. QED
    BY <2>1 DEF Out, Leaf, Node, TableNode
<1>3. CASE t.k = "sub"
  <2>1. PICK s : s = Render(h, rc, Sub(t.id))
    OBVIOUS
  <2>2. r = Queried("derived", h[t.id].alias, s)
    BY <1>3, <2>1 DEF renderTableName
  <2>3. r.rc = s.rc /\ r.n.t = "derived" /\ r.n.kids = s.n.kids
    BY <2>2 DEF Queried, Out, Node
  <2>4. Sub(t.id) \in L
    BY <1>3 DEF TableIn
  <2>5. s.n.kids[1].t = "select"
    BY <2>1, <2>3, <2>4, RenderedQuery
  <2>6. QED
    BY <2>3, <2>5 DEF TableNode
<1>4. QED
  BY <1>1, <1>2, <1>3 DEF TableIn

(* A join as it is rendered: its table, and conditions that are no bare text. *)
JoinFine(e) == TableNode(e.table) /\ NotRaw(e.on.kids)
(* renderTableName and renderJoinCond make one of those, or an error. *)
LEMMA RenderedJoin ==
    ASSUME NEW h, NEW L, KeepsIn(h, L), RenderRecurses(h, L), NEW rc, IsContext(rc),
           NEW j, JoinIn(L, j), NEW t, t = renderTableName(h, rc, j.table),
           NEW r, r = JoinOnCond(h, j, t), NoError(r.rc)
    PROVE  JoinFine(r.n)
<1>1. PICK on : on = renderJoinCond(h, t.rc, j)
  OBVIOUS
<1>2. r = Joined(j, t, on)
  BY <1>1 DEF JoinOnCond
<1>3. r.rc = on.rc /\ r.n.table = t.n /\ r.n.on = on.n
  BY <1>2 DEF Joined, Out
<1>4. Keeps(rc, t.rc) /\ Keeps(t.rc, r.rc)
  BY KeptContext, TableNameKeeps, JoinOnCondKeeps DEF JoinIn
<1>5. NoError(t.rc)
  BY <1>4, KeptContext DEF NoError
<1>6. TableNode(t.n)
  BY <1>5, RenderedTable DEF JoinIn
<1>7. PICK acc : acc = Parenthesized(RenderAll(h, t.rc, j.on))
  OBVIOUS
<1>8. Keeps(t.rc, acc.rc) /\ NotRaw(acc.ns)
  BY <1>4, <1>7, KeptContext, RenderedConditions DEF JoinIn
<1>9. PICK all : all = TenantOfOuter(acc, j)
  OBVIOUS
<1>10. NotRaw(all.ns)
  <2>1. CASE joinSoftDeleteInWhere(j.kind)
    BY <1>8, <1>9, <2>1 DEF TenantOfOuter
  <2>2. CASE ~joinSoftDeleteInWhere(j.kind)
    <3>1. PICK p : p = tenantPredicate(acc.rc, j.table)
      OBVIOUS
    <3>2. all.ns = Append(acc.ns, p.n)
      BY <1>9, <2>2, <3>1 DEF TenantOfOuter, AddTenant, Push
    <3>3. p.n.t # "raw"
      BY <3>1, TenantNotRaw
    <3>4. Sequence(acc.ns)
      BY <1>8 DEF NotRaw
    <3>5. /\ Sequence(all.ns) /\ DOMAIN all.ns = 1 .. Len(acc.ns) + 1 /\ Len(acc.ns) \in Nat
          /\ all.ns[Len(acc.ns) + 1] = p.n /\ \A i \in 1 .. Len(acc.ns) : all.ns[i] = acc.ns[i]
      BY <3>2, <3>4, OneMore, SequenceOf
    <3>6. \A i \in 1 .. Len(acc.ns) : acc.ns[i].t # "raw"
      BY <1>8, <3>4, SequenceOf DEF NotRaw
    <3>7. QED
      BY <3>3, <3>5, <3>6 DEF NotRaw
  <2>3. QED
    BY <2>1, <2>2
<1>11. on = Conditions("on", all)
  BY <1>1, <1>7, <1>9 DEF renderJoinCond
<1>12. NotRaw(on.n.kids)
  BY <1>10, <1>11, ConditionsAre
<1>13. QED
  BY <1>3, <1>6, <1>12 DEF JoinFine

(* All the joins of a statement. *)
LEMMA RenderedJoins ==
    ASSUME NEW h, NEW L, KeepsIn(h, L), RenderRecurses(h, L), NEW rc, IsContext(rc), NEW b,
           IsList(b.joins), \A i \in DOMAIN b.joins : JoinIn(L, b.joins[i]),
           NEW acc, acc = joinRenders(h, rc, b), NoError(acc.rc)
    PROVE  Sequence(acc.ns) /\ \A i \in DOMAIN acc.ns : JoinFine(acc.ns[i])
<1>1. PICK none : Nothing(none)
  BY DEF Nothing
<1>2. PICK x : x = [kind |-> "join", h |-> h, rc |-> rc, ns |-> none, es |-> b.joins]
  OBVIOUS
<1>3. PICK base : base = [rc |-> rc, ns |-> none]
  OBVIOUS
<1>4. PICK n \in Nat : DOMAIN b.joins = 1 .. n
  BY DEF IsList
<1>5. \A c, j : OneOf(x, c, j) = JoinOnCond(h, j, renderTableName(h, c, j.table))
  BY <1>2 DEF OneOf
<1>6. x.rc = rc /\ x.ns = none /\ x.es = b.joins
  BY <1>2
<1>7. EachKeeps(x, n)
  <2>1. ASSUME NEW i \in 1 .. n, NEW c, Keeps(rc, c)
        PROVE  Keeps(c, OneOf(x, c, b.joins[i]).rc)
    <3>1. PICK j : j = b.joins[i]
      OBVIOUS
    <3>2. JoinIn(L, j)
      BY <1>4, <3>1
    <3>3. PICK t : t = renderTableName(h, c, j.table)
      OBVIOUS
    <3>4. Keeps(c, t.rc)
      BY <2>1, <3>2, <3>3, KeptContext, TableNameKeeps DEF JoinIn
    <3>5. Keeps(t.rc, JoinOnCond(h, j, t).rc)
      BY <3>2, <3>4, KeptContext, JoinOnCondKeeps
    <3>6. Keeps(c, JoinOnCond(h, j, t).rc)
      BY <3>4, <3>5, KeepsOn
    <3>7. QED
      BY <1>5, <3>1, <3>3, <3>6
  <2>2. QED
    BY <1>4, <1>6, <2>1 DEF EachKeeps
<1>8. StartsAs(x, base)
  BY SMTT(30), <1>1, <1>3, <1>6, NothingIs DEF StartsAs
<1>9. acc = OneFold!Folded(x, base, b.joins)
  <2>1. base = Begin(rc)
    BY <1>1, <1>3 DEF Begin, Nothing
  <2>2. QED
    BY <1>2, <2>1 DEF joinRenders, OneFold!Folded, PushOne, OneOf, FoldLeft, MapThenFoldSet, Max, OneFold!Last
<1>10. Traced(x, n, acc)
  BY <1>6, <1>7, <1>8, <1>9, AllTraced
<1>11. Len(x.ns) = 0
  BY <1>1, <1>6, NothingIs
<1>12. Sequence(acc.ns) /\ DOMAIN acc.ns = 1 .. n
  BY <1>10, <1>11, SequenceOf DEF Traced
<1>13. ASSUME NEW i \in 1 .. n
       PROVE  JoinFine(acc.ns[i])
  <2>1. Errless(x, acc.ns[Len(x.ns) + i], x.es[i])
    BY <1>10, TracedErrless DEF NoError
  <2>2. 0 + i = i
    OBVIOUS
  <2>3. Errless(x, acc.ns[i], b.joins[i])
    BY <1>6, <1>11, <2>1, <2>2
  <2>4. PICK j : j = b.joins[i]
    OBVIOUS
  <2>5. PICK c : Keeps(rc, c) /\ acc.ns[i] = OneOf(x, c, j).n /\ NoError(OneOf(x, c, j).rc)
    BY <1>6, <2>3, <2>4 DEF Errless, NoError
  <2>6. PICK t : t = renderTableName(h, c, j.table)
    OBVIOUS
  <2>7. PICK r : r = JoinOnCond(h, j, t)
    OBVIOUS
  <2>8. acc.ns[i] = r.n /\ NoError(r.rc)
    BY <1>5, <2>5, <2>6, <2>7
  <2>9. JoinIn(L, j) /\ IsContext(c)
    BY <1>4, <2>4, <2>5, KeptContext
  <2>10. QED
    BY <2>6, <2>7, <2>8, <2>9, RenderedJoin
<1>14. QED
  BY <1>12, <1>13

(* The table a statement changes. *)
TargetNode(n, as) == n.t = "scan" /\ n.a.as = as
(* renderTableName makes the scan of its own name. *)
LEMMA RenderedTarget ==
    ASSUME NEW h, NEW rc, IsContext(rc), NEW base, NEW t, t = TableRef("base", base),
           NEW r, r = renderTableName(h, rc, t), NoError(r.rc)
    PROVE  TargetNode(r.n, AsIn(rc, base))
<1>1. PICK p : p = ResolveTableName(rc, base)
  OBVIOUS
<1>2. r = Scan(p, base)
  BY <1>1 DEF renderTableName, TableRef
<1>3. r.rc = p.rc /\ r.n.t = "scan" /\ r.n.a.as = ScanAs(p, base)
  BY <1>2, ScanIs
<1>4. p.name = NameIn(rc, base)
  BY <1>1, <1>3, ResolveKeeps DEF NoError
<1>5. ScanAs(p, base) = AsIn(rc, base)
  BY <1>4 DEF ScanAs, AsIn
<1>6. QED
  BY <1>3, <1>5 DEF TargetNode

(* The keys of a record. *)
LEMMA RenderedKeys ==
    ASSUME NEW rc, IsContext(rc), NEW b, NEW row, IsList(row), NEW acc, acc = keyConds(rc, b, row)
    PROVE  NotRaw(acc.ns)
<1>1. PICK none : Nothing(none)
  BY DEF Nothing
<1>2. PICK is : is = {i \in DOMAIN row : IsKey(b, row[i])}
  OBVIOUS
<1>3. PICK keys : keys = WhereOf(b, row)
  OBVIOUS
<1>4. PICK n \in Nat : DOMAIN keys = 1 .. n
  <2>1. is \in SUBSET DOMAIN row
    BY <1>2
  <2>2. keys = Chosen(row, is)
    BY <1>2, <1>3 DEF WhereOf, Filter
  <2>3. QED
    BY <2>1, <2>2, ChosenListed DEF IsList
<1>5. PICK x : x = [kind |-> "key", base |-> b.table, rc |-> rc, ns |-> none, es |-> keys]
  OBVIOUS
<1>6. PICK base : base = [rc |-> rc, ns |-> none]
  OBVIOUS
<1>7. \A c, e : OneOf(x, c, e) = KeyCond(ResolveTableName(c, b.table), b.table, e)
  BY <1>5 DEF OneOf
<1>8. x.rc = rc /\ x.ns = none /\ x.es = keys
  BY <1>5
<1>9. EachKeeps(x, n)
  BY ZenonT(60), <1>4, <1>7, <1>8, KeptContext, KeyCondKeeps DEF EachKeeps
<1>10. StartsAs(x, base)
  BY <1>1, <1>6, <1>8, NothingIs DEF StartsAs
<1>11. acc = OneFold!Folded(x, base, keys)
  <2>1. base = Begin(rc)
    BY <1>1, <1>6 DEF Begin, Nothing
  <2>2. QED
    BY <1>3, <1>5, <2>1 DEF keyConds, OneFold!Folded, PushOne, OneOf, FoldLeft, MapThenFoldSet, Max, OneFold!Last
<1>12. Traced(x, n, acc)
  BY <1>8, <1>9, <1>10, <1>11, AllTraced
<1>13. Len(x.ns) = 0
  BY <1>1, <1>8, NothingIs
<1>14. Sequence(acc.ns) /\ DOMAIN acc.ns = 1 .. n
  BY <1>12, <1>13, SequenceOf DEF Traced
<1>15. ASSUME NEW i \in 1 .. n
       PROVE  acc.ns[i].t # "raw"
  <2>1. OneIn(x, acc.ns[0 + i], x.es[i], acc.rc)
    BY <1>12, <1>13 DEF Traced
  <2>2. 0 + i = i
    OBVIOUS
  <2>3. PICK c : acc.ns[i] = OneOf(x, c, x.es[i]).n
    BY <2>1, <2>2 DEF OneIn
  <2>4. acc.ns[i] = KeyCond(ResolveTableName(c, b.table), b.table, x.es[i]).n
    BY <1>7, <2>3
  <2>5. QED
    BY <2>4 DEF KeyCond, AsNode, Out, Node
<1>16. QED
  BY <1>14, <1>15 DEF NotRaw

(* A row of VALUES, and all of them: each is a row of the insert.           *)
RowRendered(n, es) == Sequence(n.kids) /\ Len(n.kids) = Len(es) /\ PlaceholdersOf(es, n.kids, 0)
RowIsOf(n, cols, row) == ~IsEmpty(n) /\ RowRendered(n, ValuesInOrder(cols, row))

(* One row. *)
LEMMA RenderedRow ==
    ASSUME NEW h, NEW L, KeepsIn(h, L), NEW rc, IsContext(rc), NEW cols, NEW row,
           ValuesInOrder(cols, row) \in Seq(L),
           NEW r, r = AsNode("row", 0, RenderAll(h, rc, ValuesInOrder(cols, row)))
    PROVE  Keeps(rc, r.rc) /\ RowIsOf(r.n, cols, row)
<1>1. PICK es : es = ValuesInOrder(cols, row)
  OBVIOUS
<1>2. PICK acc : acc = RenderAll(h, rc, es)
  OBVIOUS
<1>3. /\ Keeps(rc, acc.rc) /\ Sequence(acc.ns) /\ Len(acc.ns) = Len(es)
      /\ PlaceholdersOf(es, acc.ns, 0)
  BY <1>1, <1>2, RenderedValues
<1>4. r.rc = acc.rc /\ r.n.t = "row" /\ r.n.kids = acc.ns
  BY <1>1, <1>2 DEF AsNode, Out, Node
<1>5. QED
  BY <1>1, <1>3, <1>4 DEF RowIsOf, RowRendered, IsEmpty

(* The rows of an insert. *)
LEMMA RenderedRows ==
    ASSUME NEW h, NEW L, KeepsIn(h, L), NEW rc, IsContext(rc), NEW b,
           b.insertRows \in Seq(Seq(Written(L))), Len(groupInsertRows(b.insertRows)) <= 1,
           NEW acc, acc = renderRows(h, rc, b)
    PROVE  /\ Sequence(acc.ns) /\ DOMAIN acc.ns = DOMAIN b.insertRows
           /\ \A i \in DOMAIN acc.ns : RowIsOf(acc.ns[i], InsertColumns(b), b.insertRows[i])
<1>1. PICK none : Nothing(none)
  BY DEF Nothing
<1>2. PICK cols : cols = InsertColumns(b)
  OBVIOUS
<1>3. PICK rows : rows = b.insertRows
  OBVIOUS
<1>4. PICK x : x = [kind |-> "row", h |-> h, cols |-> cols, rc |-> rc, ns |-> none, es |-> rows]
  OBVIOUS
<1>5. PICK base : base = [rc |-> rc, ns |-> none]
  OBVIOUS
<1>6. PICK n \in Nat : DOMAIN rows = 1 .. n
  BY <1>3, LenProperties
<1>7. \A c, row : OneOf(x, c, row) = AsNode("row", 0, RenderAll(h, c, ValuesInOrder(cols, row)))
  BY <1>4 DEF OneOf
<1>8. x.rc = rc /\ x.ns = none /\ x.es = rows
  BY <1>4
<1>9. ASSUME NEW i \in 1 .. n, NEW c, Keeps(rc, c)
      PROVE  Keeps(c, OneOf(x, c, rows[i]).rc) /\ RowIsOf(OneOf(x, c, rows[i]).n, cols, rows[i])
  <2>1. PICK row : row = rows[i]
    OBVIOUS
  <2>2. row \in Seq(Written(L))
    BY <1>3, <1>6, <2>1, ElementOfSeq, LenProperties
  <2>3. IsList(cols) /\ OfColumns(row, cols)
    BY <1>2, <1>3, <1>6, <2>1, RowsOfColumns
  <2>4. ValuesInOrder(cols, row) \in Seq(L)
    BY <2>2, <2>3, ValuesInOrderIn
  <2>5. PICK r : r = AsNode("row", 0, RenderAll(h, c, ValuesInOrder(cols, row)))
    OBVIOUS
  <2>6. Keeps(c, r.rc) /\ RowIsOf(r.n, cols, row)
    BY <1>9, <2>4, <2>5, KeptContext, RenderedRow
  <2>7. QED
    BY <1>7, <2>1, <2>5, <2>6
<1>10. EachKeeps(x, n)
  BY <1>6, <1>8, <1>9 DEF EachKeeps
<1>11. StartsAs(x, base)
  BY <1>1, <1>5, <1>8, NothingIs DEF StartsAs
<1>12. acc = OneFold!Folded(x, base, rows)
  <2>1. base = Begin(rc)
    BY <1>1, <1>5 DEF Begin, Nothing
  <2>2. QED
    BY <1>2, <1>3, <1>4, <2>1 DEF renderRows, OneFold!Folded, PushOne, OneOf, FoldLeft, MapThenFoldSet, Max, OneFold!Last
<1>13. Traced(x, n, acc)
  BY <1>8, <1>10, <1>11, <1>12, AllTraced
<1>14. Len(x.ns) = 0
  BY <1>1, <1>8, NothingIs
<1>15. Sequence(acc.ns) /\ DOMAIN acc.ns = 1 .. n
  BY <1>13, <1>14, SequenceOf DEF Traced
<1>16. ASSUME NEW i \in 1 .. n
       PROVE  RowIsOf(acc.ns[i], cols, rows[i])
  <2>1. OneIn(x, acc.ns[0 + i], rows[i], acc.rc)
    BY <1>8, <1>13, <1>14 DEF Traced
  <2>2. 0 + i = i
    OBVIOUS
  <2>3. PICK c : Keeps(rc, c) /\ acc.ns[i] = OneOf(x, c, rows[i]).n
    BY <1>8, <2>1, <2>2 DEF OneIn
  <2>4. QED
    BY <1>9, <2>3
<1>17. QED
  BY <1>2, <1>3, <1>6, <1>15, <1>16

(* The VALUES of an insert of some rows. *)
ValuesRendered(n, b) ==
    /\ n.t = "values" /\ IsList(n.kids)
    /\ \A k \in DOMAIN n.kids : \E i \in DOMAIN b.insertRows :
          RowIsOf(n.kids[k], InsertColumns(b), b.insertRows[i])

(* A clause that has a part is there. *)
LEMMA ClauseIs ==
    ASSUME NEW t, NEW ns, Sequence(ns), NEW i \in DOMAIN ns, ~IsEmpty(ns[i]), NEW n, n = Clause(t, ns)
    PROVE  n.t = t /\ n.kids = Present(ns)
<1>1. PICK ps : ps = Present(ns)
  OBVIOUS
<1>2. DOMAIN ps # {}
  BY <1>1, PresentFrom
<1>3. ~Nothing(ps)
  BY <1>2, NothingIs
<1>4. n = Node(t, 0, ps)
  BY <1>1, <1>3 DEF Clause, Nothing
<1>5. QED
  BY <1>1, <1>4 DEF Node

(* The VALUES of one group have each row once, of its columns and values. *)
LEMMA RenderedInsertRows ==
    ASSUME NEW h, NEW L, KeepsIn(h, L), NEW rc, IsContext(rc), NEW b,
           b.insertRows \in Seq(Seq(Written(L))), Len(groupInsertRows(b.insertRows)) <= 1,
           DOMAIN b.insertRows # {}, NEW r, r = AsClause("values", renderRows(h, rc, b))
    PROVE  ValuesRendered(r.n, b)
<1>1. PICK acc : acc = renderRows(h, rc, b)
  OBVIOUS
<1>2. /\ Sequence(acc.ns) /\ DOMAIN acc.ns = DOMAIN b.insertRows
      /\ \A i \in DOMAIN acc.ns : RowIsOf(acc.ns[i], InsertColumns(b), b.insertRows[i])
  BY <1>1, RenderedRows
<1>3. PICK values : values = "values" /\ r = AsClause(values, acc)
  BY <1>1
<1>4. r.n = Clause(values, acc.ns)
  BY <1>3 DEF AsClause, Out
<1>5. PICK i \in DOMAIN acc.ns : ~IsEmpty(acc.ns[i])
  BY <1>2 DEF RowIsOf
<1>6. r.n.t = values /\ r.n.kids = Present(acc.ns)
  BY <1>2, <1>4, <1>5, ClauseIs
<1>7. IsList(r.n.kids)
  BY <1>2, <1>6, PresentFrom, SequenceOf
<1>8. ASSUME NEW k \in DOMAIN r.n.kids
      PROVE  \E j \in DOMAIN b.insertRows : RowIsOf(r.n.kids[k], InsertColumns(b), b.insertRows[j])
  <2>1. PICK j \in DOMAIN acc.ns : r.n.kids[k] = acc.ns[j]
    BY <1>2, <1>6, PresentFrom
  <2>2. QED
    BY <1>2, <2>1
<1>9. QED
  BY <1>3, <1>6, <1>7, <1>8 DEF ValuesRendered

-----------------------------------------------------------------------------
(* The parts of a statement, put together. *)

(* A part that was rendered without an error, in the scope of rc. *)
PartFrom(h, b, sets, rc, part, n) ==
    \E c : /\ Keeps(rc, c) /\ n = DmlPart(h, b, sets, c, part).n
           /\ NoError(DmlPart(h, b, sets, c, part).rc)

(* All the parts of a statement without an error are. *)
LEMMA PartsFrom ==
    ASSUME NEW h, NEW L, KeepsIn(h, L), NEW rc, IsContext(rc), NEW b, DmlIn(L, b),
           NEW sets \in Seq(Written(L)), NEW n \in Nat, NEW parts, DOMAIN parts = 1 .. n,
           \A i \in 1 .. n : PartOf(b, parts[i]),
           NEW acc, acc = DmlParts(h, b, sets, rc, parts), NoError(acc.rc)
    PROVE  \A k \in 1 .. n : PartFrom(h, b, sets, rc, parts[k], acc.ns[k])
<1>1. PICK none : Nothing(none)
  BY DEF Nothing
<1>2. PICK x : x = [kind |-> "part", h |-> h, b |-> b, sets |-> sets, rc |-> rc, ns |-> none, es |-> parts]
  OBVIOUS
<1>3. PICK base : base = [ns |-> none, rc |-> rc, marks |-> none]
  OBVIOUS
<1>4. \A c, part : OneOf(x, c, part) = DmlPart(h, b, sets, c, part)
  BY <1>2 DEF OneOf
<1>5. x.rc = rc /\ x.ns = none /\ x.es = parts
  BY <1>2
<1>6. EachKeeps(x, n)
  <2>1. ASSUME NEW i \in 1 .. n, NEW c, Keeps(rc, c)
        PROVE  Keeps(c, OneOf(x, c, parts[i]).rc)
    <3>1. PICK part : part = parts[i]
      OBVIOUS
    <3>2. PartOf(b, part) /\ IsContext(c)
      BY <2>1, <3>1, KeptContext
    <3>3. PartDone(c, b, part, DmlPart(h, b, sets, c, part))
      BY <3>2, DmlPartDone
    <3>4. QED
      BY <1>4, <3>1, <3>3 DEF PartDone
  <2>2. QED
    BY <1>5, <2>1 DEF EachKeeps
<1>7. StartsAs(x, base)
  BY <1>1, <1>3, <1>5, NothingIs DEF StartsAs
<1>8. acc = MarkFold!Folded(x, base, parts)
  <2>1. base = [ns |-> <<>>, rc |-> rc, marks |-> <<>>]
    BY <1>1, <1>3 DEF Nothing
  <2>2. QED
    BY <1>2, <2>1 DEF DmlParts, MarkFold!Folded, MarkOne, OneOf, FoldLeft, MapThenFoldSet, Max, MarkFold!Last
<1>9. Traced(x, n, acc)
  BY <1>5, <1>6, <1>7, <1>8, AllMarked
<1>10. Len(x.ns) = 0
  BY <1>1, <1>5, NothingIs
<1>11. ASSUME NEW k \in 1 .. n
       PROVE  PartFrom(h, b, sets, rc, parts[k], acc.ns[k])
  <2>1. Errless(x, acc.ns[Len(x.ns) + k], x.es[k])
    BY <1>9, TracedErrless DEF NoError
  <2>2. 0 + k = k
    OBVIOUS
  <2>3. Errless(x, acc.ns[k], parts[k])
    BY <1>5, <1>10, <2>1, <2>2
  <2>4. PICK c : Keeps(rc, c) /\ acc.ns[k] = OneOf(x, c, parts[k]).n /\ NoError(OneOf(x, c, parts[k]).rc)
    BY <1>5, <2>3 DEF Errless, NoError
  <2>5. QED
    BY <1>4, <2>4 DEF PartFrom
<1>12. QED
  BY <1>11

(* The parts of the statement for a record. *)
BatchFrom(h, b, row, rc, part, n) ==
    \E c : /\ Keeps(rc, c) /\ n = BatchPart(h, b, row, c, part).n
           /\ NoError(BatchPart(h, b, row, c, part).rc)

(* So are those. *)
LEMMA BatchPartsFrom ==
    ASSUME NEW h, NEW L, KeepsIn(h, L), NEW rc, IsContext(rc), NEW b, DmlIn(L, b),
           NEW row \in Seq(Written(L)), NEW acc, acc = BatchPartsOf(h, b, row, rc), NoError(acc.rc)
    PROVE  /\ BatchFrom(h, b, row, rc, "sets", acc.ns[1]) /\ BatchFrom(h, b, row, rc, "keys", acc.ns[3])
           /\ BatchFrom(h, b, row, rc, "where", acc.ns[4])
<1>1. PICK none : Nothing(none)
  BY DEF Nothing
<1>2. PICK parts : parts = <<"sets", "name", "keys", "where">>
  OBVIOUS
<1>3. PICK n \in Nat : n = 4
  OBVIOUS
<1>4. DOMAIN parts = 1 .. n /\ \A i \in 1 .. n : parts[i] \in BatchPartNames
  BY <1>2, <1>3 DEF BatchPartNames
<1>5. PICK x : x = [kind |-> "batch", h |-> h, b |-> b, row |-> row, rc |-> rc, ns |-> none, es |-> parts]
  OBVIOUS
<1>6. PICK base : base = [rc |-> rc, ns |-> none]
  OBVIOUS
<1>7. \A c, part : OneOf(x, c, part) = BatchPart(h, b, row, c, part)
  BY <1>5 DEF OneOf
<1>8. x.rc = rc /\ x.ns = none /\ x.es = parts
  BY <1>5
<1>9. EachKeeps(x, n)
  <2>1. ASSUME NEW i \in 1 .. n, NEW c, Keeps(rc, c)
        PROVE  Keeps(c, OneOf(x, c, parts[i]).rc)
    <3>1. PICK part : part = parts[i]
      OBVIOUS
    <3>2. part \in BatchPartNames /\ IsContext(c)
      BY <1>4, <2>1, <3>1, KeptContext
    <3>3. PartDone(c, b, part, BatchPart(h, b, row, c, part))
      BY <3>2, BatchPartDone
    <3>4. QED
      BY <1>7, <3>1, <3>3 DEF PartDone
  <2>2. QED
    BY <1>4, <1>8, <2>1 DEF EachKeeps
<1>10. StartsAs(x, base)
  BY <1>1, <1>6, <1>8, NothingIs DEF StartsAs
<1>11. acc = OneFold!Folded(x, base, parts)
  <2>1. base = Begin(rc)
    BY <1>1, <1>6 DEF Begin, Nothing
  <2>2. QED
    BY <1>2, <1>5, <2>1 DEF BatchPartsOf, OneFold!Folded, PushOne, OneOf, FoldLeft, MapThenFoldSet, Max, OneFold!Last
<1>12. Traced(x, n, acc)
  BY <1>8, <1>9, <1>10, <1>11, AllTraced
<1>13. Len(x.ns) = 0
  BY <1>1, <1>8, NothingIs
<1>14. ASSUME NEW k \in 1 .. n
       PROVE  BatchFrom(h, b, row, rc, parts[k], acc.ns[k])
  <2>1. Errless(x, acc.ns[Len(x.ns) + k], x.es[k])
    BY <1>12, TracedErrless DEF NoError
  <2>2. 0 + k = k
    OBVIOUS
  <2>3. Errless(x, acc.ns[k], parts[k])
    BY <1>8, <1>13, <2>1, <2>2
  <2>4. PICK c : Keeps(rc, c) /\ acc.ns[k] = OneOf(x, c, parts[k]).n /\ NoError(OneOf(x, c, parts[k]).rc)
    BY <1>8, <2>3 DEF Errless, NoError
  <2>5. QED
    BY <1>7, <2>4 DEF BatchFrom
<1>15. 1 \in 1 .. n /\ 3 \in 1 .. n /\ 4 \in 1 .. n
  BY <1>3
<1>16. parts[1] = "sets" /\ parts[3] = "keys" /\ parts[4] = "where"
  BY <1>2
<1>17. QED
  BY <1>14, <1>15, <1>16

-----------------------------------------------------------------------------
(* What each of them is. *)

(* The target goes by the table's name in the statement. *)
LEMMA TargetPart ==
    ASSUME NEW h, NEW b, NEW sets, NEW rc, NEW n, PartFrom(h, b, sets, rc, "target", n)
    PROVE  TargetNode(n, AsIn(rc, b.table))
<1>1. PICK c : Keeps(rc, c) /\ n = DmlPart(h, b, sets, c, "target").n
               /\ NoError(DmlPart(h, b, sets, c, "target").rc)
  BY DEF PartFrom
<1>2. PICK t, r : t = TableRef("base", b.table) /\ r = renderTableName(h, c, t)
  OBVIOUS
<1>3. DmlPart(h, b, sets, c, "target") = r
  BY <1>2 DEF DmlPart
<1>4. TargetNode(r.n, AsIn(c, b.table))
  BY <1>1, <1>2, <1>3, KeptContext, RenderedTarget
<1>5. QED
  BY <1>1, <1>3, <1>4, ScopeSame

(* SET has the assignments, *)
LEMMA SetsPart ==
    ASSUME NEW h, NEW L, KeepsIn(h, L), NEW b, NEW sets \in Seq(Written(L)), ~Nothing(sets), NEW rc, NEW n,
           PartFrom(h, b, sets, rc, "sets", n)
    PROVE  SetsRendered(n, sets)
<1>1. PICK c : Keeps(rc, c) /\ n = DmlPart(h, b, sets, c, "sets").n
  BY DEF PartFrom
<1>2. PICK r : r = renderSets(h, c, sets)
  OBVIOUS
<1>3. DmlPart(h, b, sets, c, "sets") = r
  BY <1>2 DEF DmlPart, Nothing
<1>4. QED
  BY <1>1, <1>2, <1>3, KeptContext, RenderedSets

(* or is not there. *)
LEMMA NoSetsPart ==
    ASSUME NEW h, NEW b, NEW sets, Nothing(sets), NEW rc, NEW n, PartFrom(h, b, sets, rc, "sets", n)
    PROVE  n = Empty
<1>1. PICK c : n = DmlPart(h, b, sets, c, "sets").n
  BY DEF PartFrom
<1>2. DmlPart(h, b, sets, c, "sets") = Out(c, Empty)
  BY DEF DmlPart, Nothing
<1>3. QED
  BY <1>1, <1>2, OutIs

(* The joins. *)
AllJoinsFine(ns) == Sequence(ns) /\ \A i \in DOMAIN ns : JoinFine(ns[i])
(* They are rendered like any join, if there is no error. *)
LEMMA JoinsPart ==
    ASSUME NEW h, NEW L, KeepsIn(h, L), RenderRecurses(h, L), NEW b, DmlIn(L, b), NEW sets, NEW rc, NEW n,
           PartFrom(h, b, sets, rc, "joins", n)
    PROVE  AllJoinsFine(n)
<1>1. PICK c : Keeps(rc, c) /\ n = DmlPart(h, b, sets, c, "joins").n
               /\ NoError(DmlPart(h, b, sets, c, "joins").rc)
  BY DEF PartFrom
<1>2. PICK acc : acc = joinRenders(h, c, b)
  OBVIOUS
<1>3. DmlPart(h, b, sets, c, "joins") = AsList(acc)
  BY <1>2 DEF DmlPart
<1>4. n = acc.ns /\ NoError(acc.rc)
  BY <1>1, <1>3, OutIs DEF AsList
<1>5. IsList(b.joins) /\ \A i \in DOMAIN b.joins : JoinIn(L, b.joins[i])
  BY SequenceOf DEF DmlIn
<1>6. IsContext(c)
  BY <1>1, KeptContext
<1>7. QED
  BY <1>2, <1>4, <1>5, <1>6, RenderedJoins DEF AllJoinsFine

(* WHERE guards the table's tenants. *)
LEMMA WherePart ==
    ASSUME NEW h, NEW L, KeepsIn(h, L), NEW b, DmlIn(L, b), NEW sets, NEW rc, Restricted(rc, b.table), NEW n,
           PartFrom(h, b, sets, rc, "where", n)
    PROVE  Guards(n, AsIn(rc, b.table), TenantIDs(rc))
<1>1. PICK c : Keeps(rc, c) /\ n = DmlPart(h, b, sets, c, "where").n
               /\ NoError(DmlPart(h, b, sets, c, "where").rc)
  BY DEF PartFrom
<1>2. PICK r : r = dmlWhere(h, c, b)
  OBVIOUS
<1>3. DmlPart(h, b, sets, c, "where") = r
  BY <1>2 DEF DmlPart
<1>4. IsList(b.joins) /\ b.conds \in Seq(L)
  BY SequenceOf DEF DmlIn
<1>5. /\ AsIn(c, b.table) = AsIn(rc, b.table) /\ TenantIDs(c) = TenantIDs(rc)
      /\ Restricted(c, b.table) /\ IsContext(c)
  BY <1>1, ScopeSame, KeptContext
<1>6. Guards(r.n, AsIn(c, b.table), TenantIDs(c))
  BY <1>1, <1>2, <1>3, <1>4, <1>5, RenderedWhere
<1>7. QED
  BY <1>1, <1>3, <1>5, <1>6

(* VALUES are the rows. *)
LEMMA ValuesPart ==
    ASSUME NEW h, NEW L, KeepsIn(h, L), NEW b, DmlIn(L, b), NEW sets, NEW rc, NEW n,
           Len(groupInsertRows(b.insertRows)) <= 1, DOMAIN b.insertRows # {},
           PartFrom(h, b, sets, rc, "values", n)
    PROVE  ValuesRendered(n, b)
<1>1. PICK c : Keeps(rc, c) /\ n = DmlPart(h, b, sets, c, "values").n
  BY DEF PartFrom
<1>2. PICK r : r = AsClause("values", renderRows(h, c, b))
  OBVIOUS
<1>3. DmlPart(h, b, sets, c, "values") = r
  BY <1>2 DEF DmlPart
<1>4. IsContext(c) /\ b.insertRows \in Seq(Seq(Written(L)))
  BY <1>1, KeptContext DEF DmlIn
<1>5. QED
  BY <1>1, <1>2, <1>3, <1>4, RenderedInsertRows

-----------------------------------------------------------------------------
(* Statements by their parts. *)

(* Each part is what it has to be for the rows to be those of the tenants. *)
KidFine(k, prefix, ids, d) ==
    /\ k.t = "where" => Guards(k, prefix, ids)
    /\ k.t = "joins" => JoinNodes(k.kids)
    /\ k.t = "from" => Sequence(k.kids) /\ \A i \in DOMAIN k.kids : TableNode(k.kids[i])
    /\ k.t = "sets" => SetsKeep(k.kids, d, ids)
NoMoreTables(kids) == \A i \in DOMAIN kids : kids[i].t # "joins" /\ kids[i].t # "from"
KidsFine(kids, prefix, ids, d) ==
    /\ Sequence(kids) /\ Len(kids) > 0 /\ \A i \in DOMAIN kids : KidFine(kids[i], prefix, ids, d)
    /\ \E i \in DOMAIN kids : kids[i].t = "where"
    /\ prefix = kids[1].a.as \/ NoMoreTables(kids)

(* A part of a statement is one of its children, or is not there. *)
LEMMA PartIs ==
    ASSUME NEW n, Sequence(n.kids), NEW t, NEW p, p = Part(n, t)
    PROVE  \/ p = Empty /\ \A i \in DOMAIN n.kids : n.kids[i].t # t
           \/ \E i \in DOMAIN n.kids : p = n.kids[i] /\ n.kids[i].t = t
<1>1. PICK is : is = {i \in DOMAIN n.kids : n.kids[i].t = t}
  OBVIOUS
<1>2. CASE is = {}
  BY <1>1, <1>2 DEF Part
<1>3. CASE is # {}
  <2>1. is \in SUBSET Nat
    <3>1. DOMAIN n.kids = 1 .. Len(n.kids)
      BY SequenceOf
    <3>2. QED
      BY <1>1, <3>1
  <2>2. Min(is) \in is
    BY <1>3, <2>1, MinOf
  <2>3. p = n.kids[Min(is)]
    BY <1>1, <1>3 DEF Part
  <2>4. QED
    BY <1>1, <2>2, <2>3
<1>4. QED
  BY <1>2, <1>3

(* What is not there has no children. *)
LEMMA NoKids ==
    ASSUME NEW e, e = Empty
    PROVE  e.t = "empty" /\ Nothing(e.kids) /\ Sequence(e.kids) /\ DOMAIN e.kids = {}
<1>1. Nothing(e.kids) /\ e.t = "empty"
  BY DEF Empty, Leaf, Node, Nothing
<1>2. QED
  BY <1>1, NothingIs

(* An UPDATE or a DELETE of such parts changes rows of the tenants only. *)
LEMMA FineChanges ==
    ASSUME NEW n, NEW prefix, NEW ids, NEW d, n.t \in {"update", "delete"}, KidsFine(n.kids, prefix, ids, d)
    PROVE  Changing(n, prefix, ids, d)
<1>1. Sequence(n.kids) /\ \A i \in DOMAIN n.kids : KidFine(n.kids[i], prefix, ids, d)
  BY DEF KidsFine
<1>2. PICK where, joins, from, sets :
        /\ where = Part(n, "where") /\ joins = Part(n, "joins")
        /\ from = Part(n, "from") /\ sets = Part(n, "sets")
  OBVIOUS
<1>3. Guards(where, prefix, ids)
  <2>1. PICK i \in DOMAIN n.kids : n.kids[i].t = "where"
    BY DEF KidsFine
  <2>2. PICK j \in DOMAIN n.kids : where = n.kids[j] /\ n.kids[j].t = "where"
    BY <1>1, <1>2, <2>1, PartIs
  <2>3. QED
    BY <1>1, <2>2 DEF KidFine
<1>4. JoinNodes(joins.kids)
  <2>1. CASE joins = Empty
    BY <2>1, NoKids DEF JoinNodes
  <2>2. CASE \E i \in DOMAIN n.kids : joins = n.kids[i] /\ n.kids[i].t = "joins"
    BY <1>1, <2>2 DEF KidFine
  <2>3. QED
    BY <1>1, <1>2, <2>1, <2>2, PartIs
<1>5. Sequence(from.kids) /\ \A i \in DOMAIN from.kids : TableNode(from.kids[i])
  <2>1. CASE from = Empty
    BY <2>1, NoKids
  <2>2. CASE \E i \in DOMAIN n.kids : from = n.kids[i] /\ n.kids[i].t = "from"
    BY <1>1, <2>2 DEF KidFine
  <2>3. QED
    BY <1>1, <1>2, <2>1, <2>2, PartIs
<1>6. SetsKeep(sets.kids, d, ids)
  <2>1. CASE sets = Empty
    BY <2>1, NoKids DEF SetsKeep
  <2>2. CASE \E i \in DOMAIN n.kids : sets = n.kids[i] /\ n.kids[i].t = "sets"
    BY <1>1, <2>2 DEF KidFine
  <2>3. QED
    BY <1>1, <1>2, <2>1, <2>2, PartIs
<1>7. \/ prefix = n.kids[1].a.as
      \/ Nothing(joins.kids) /\ Nothing(from.kids)
  <2>1. CASE prefix = n.kids[1].a.as
    BY <2>1
  <2>2. CASE NoMoreTables(n.kids)
    <3>1. joins = Empty
      BY <1>1, <1>2, <2>2, PartIs DEF NoMoreTables
    <3>2. from = Empty
      BY <1>1, <1>2, <2>2, PartIs DEF NoMoreTables
    <3>3. QED
      BY <3>1, <3>2, NoKids
  <2>3. QED
    BY <2>1, <2>2 DEF KidsFine
<1>8. Confined(n, prefix, ids)
  BY <1>2, <1>3, <1>4, <1>5, <1>7 DEF Confined, JoinNodes, Nothing
<1>9. QED
  BY <1>2, <1>6, <1>8 DEF Changing

(* What says nothing of rows. *)
Neutral(k) == k.t # "where" /\ k.t # "joins" /\ k.t # "from" /\ k.t # "sets"

(* RETURNING after them changes nothing. *)
LEMMA AppendedFine ==
    ASSUME NEW kids, NEW prefix, NEW ids, NEW d, KidsFine(kids, prefix, ids, d), NEW m, Neutral(m)
    PROVE  KidsFine(Append(kids, m), prefix, ids, d)
<1>1. PICK n \in Nat : n = Len(kids) /\ n > 0 /\ DOMAIN kids = 1 .. n
  BY SequenceOf DEF KidsFine
<1>2. PICK more : more = Append(kids, m)
  OBVIOUS
<1>3. /\ Sequence(more) /\ Len(more) = n + 1 /\ more[n + 1] = m
      /\ \A i \in 1 .. n : more[i] = kids[i]
  BY <1>1, <1>2, OneMore DEF KidsFine
<1>4. DOMAIN more = 1 .. n + 1
  BY <1>3, SequenceOf
<1>5. \A i \in 1 .. n + 1 : i \in 1 .. n \/ i = n + 1
  OBVIOUS
<1>6. \A i \in 1 .. n : KidFine(kids[i], prefix, ids, d)
  BY <1>1 DEF KidsFine
<1>7. \A i \in DOMAIN more : KidFine(more[i], prefix, ids, d)
  <2>1. KidFine(m, prefix, ids, d)
    BY DEF KidFine, Neutral
  <2>2. QED
    BY <1>3, <1>4, <1>5, <1>6, <2>1
<1>8. \E i \in DOMAIN more : more[i].t = "where"
  <2>1. PICK i \in 1 .. n : kids[i].t = "where"
    BY <1>1 DEF KidsFine
  <2>2. i \in DOMAIN more /\ more[i] = kids[i]
    BY <1>3, <1>4
  <2>3. QED
    BY <2>1, <2>2
<1>9. prefix = more[1].a.as \/ NoMoreTables(more)
  <2>1. more[1] = kids[1]
    BY <1>1, <1>3
  <2>2. CASE prefix = kids[1].a.as
    BY <2>1, <2>2
  <2>3. CASE NoMoreTables(kids)
    BY <1>1, <1>3, <1>4, <1>5, <2>3 DEF NoMoreTables, Neutral
  <2>4. QED
    BY <2>2, <2>3 DEF KidsFine
<1>10. Len(more) > 0
  BY <1>3
<1>11. QED
  BY <1>2, <1>3, <1>7, <1>8, <1>9, <1>10 DEF KidsFine

(* The children of a clause are its parts that are there. *)
LEMMA ClauseKids ==
    ASSUME NEW t, NEW ns, NEW n, n = Clause(t, ns)
    PROVE  n = Empty \/ (n.t = t /\ n.kids = Present(ns))
  BY DEF Clause, Node

(* Joins with their tables and conditions, *)
LEMMA JoinedFine ==
    ASSUME NEW joins, AllJoinsFine(joins), NEW n, n = renderJoined(joins), NEW prefix, NEW ids, NEW d
    PROVE  KidFine(n, prefix, ids, d) /\ n.t # "where"
<1>1. PICK ns : ns = [i \in DOMAIN joins |-> Node("join", joins[i].kind, <<joins[i].table, joins[i].on>>)]
  OBVIOUS
<1>2. PICK m \in Nat : DOMAIN joins = 1 .. m
  BY SequenceOf DEF AllJoinsFine
<1>3. Sequence(ns) /\ DOMAIN ns = 1 .. m
  BY <1>1, <1>2 DEF Sequence
<1>4. ASSUME NEW i \in 1 .. m
      PROVE  JoinNode(ns[i])
  <2>1. PICK k1, k2, kids : k1 = joins[i].table /\ k2 = joins[i].on /\ kids = <<k1, k2>>
    OBVIOUS
  <2>2. ns[i].kids = kids /\ kids[1] = k1
    BY <1>1, <1>2, <2>1 DEF Node
  <2>3. TableNode(k1)
    BY <1>2, <2>1 DEF AllJoinsFine, JoinFine
  <2>4. QED
    BY <2>2, <2>3 DEF JoinNode
<1>5. n = Empty \/ (n.t = "joins" /\ n.kids = Present(ns))
  <2>1. n = Clause("joins", ns)
    BY <1>1 DEF renderJoined
  <2>2. QED
    BY <2>1, ClauseKids
<1>6. JoinNodes(Present(ns))
  BY <1>3, <1>4, PresentFrom DEF JoinNodes
<1>7. CASE n = Empty
  BY <1>7, NoKids DEF KidFine
<1>8. CASE n.t = "joins" /\ n.kids = Present(ns)
  BY <1>6, <1>8 DEF KidFine
<1>9. QED
  BY <1>5, <1>7, <1>8

(* the tables of joins, *)
LEMMA TablesFine ==
    ASSUME NEW joins, AllJoinsFine(joins), NEW n, n = JoinTables(joins), NEW prefix, NEW ids, NEW d
    PROVE  KidFine(n, prefix, ids, d)
<1>1. PICK ns : ns = [i \in DOMAIN joins |-> joins[i].table]
  OBVIOUS
<1>2. PICK m \in Nat : DOMAIN joins = 1 .. m
  BY SequenceOf DEF AllJoinsFine
<1>3. Sequence(ns) /\ DOMAIN ns = 1 .. m
  BY <1>1, <1>2 DEF Sequence
<1>4. \A i \in 1 .. m : TableNode(ns[i])
  BY <1>1, <1>2 DEF AllJoinsFine, JoinFine
<1>5. n = Empty \/ (n.t = "from" /\ n.kids = Present(ns))
  <2>1. n = Clause("from", ns)
    BY <1>1 DEF JoinTables
  <2>2. QED
    BY <2>1, ClauseKids
<1>6. Sequence(Present(ns)) /\ \A i \in DOMAIN Present(ns) : TableNode(Present(ns)[i])
  BY <1>3, <1>4, PresentFrom
<1>7. CASE n = Empty
  BY <1>7, NoKids DEF KidFine
<1>8. CASE n.t = "from" /\ n.kids = Present(ns)
  BY <1>6, <1>8 DEF KidFine
<1>9. QED
  BY <1>5, <1>7, <1>8

(* One list after another. *)
IsBoth(all, s, r) == all = s \o r

(* Parts after others are still there. *)
LEMMA AfterOthers ==
    ASSUME NEW s, Sequence(s), NEW r, Sequence(r), NEW all, IsBoth(all, s, r)
    PROVE  /\ Sequence(all)
           /\ \A k \in DOMAIN all : (\E i \in DOMAIN s : all[k] = s[i]) \/ (\E i \in DOMAIN r : all[k] = r[i])
           /\ \A i \in DOMAIN r : \E k \in DOMAIN all : all[k] = r[i]
<1>1. PICK T : T = {s[i] : i \in DOMAIN s} \cup {r[i] : i \in DOMAIN r}
  OBVIOUS
<1>2. PICK m \in Nat, n \in Nat : m = Len(s) /\ n = Len(r) /\ DOMAIN s = 1 .. m /\ DOMAIN r = 1 .. n
  BY SequenceOf
<1>3. s \in Seq(T)
  <2>1. s \in [1 .. m -> T]
    BY <1>1, <1>2 DEF Sequence
  <2>2. QED
    BY <2>1, SeqDef
<1>4. r \in Seq(T)
  <2>1. r \in [1 .. n -> T]
    BY <1>1, <1>2 DEF Sequence
  <2>2. QED
    BY <2>1, SeqDef
<1>6. /\ all \in Seq(T) /\ Len(all) = m + n
      /\ \A k \in 1 .. m + n : all[k] = IF k <= m THEN s[k] ELSE r[k - m]
  BY <1>2, <1>3, <1>4, ConcatProperties DEF IsBoth
<1>7. Sequence(all) /\ DOMAIN all = 1 .. m + n
  BY <1>6, ToSequence, LenProperties
<1>8. ASSUME NEW k \in 1 .. m + n
      PROVE  (\E i \in 1 .. m : all[k] = s[i]) \/ (\E i \in 1 .. n : all[k] = r[i])
  <2>1. CASE k <= m
    BY <1>6, <2>1
  <2>2. CASE ~(k <= m)
    <3>1. k - m \in 1 .. n /\ all[k] = r[k - m]
      BY <1>6, <2>2
    <3>2. QED
      BY <3>1
  <2>3. QED
    BY <2>1, <2>2
<1>9. ASSUME NEW i \in 1 .. n
      PROVE  \E k \in 1 .. m + n : all[k] = r[i]
  <2>1. PICK k : k = m + i
    OBVIOUS
  <2>2. k \in 1 .. m + n /\ ~(k <= m) /\ k - m = i
    BY <2>1
  <2>3. all[k] = r[i]
    BY <1>6, <2>2
  <2>4. QED
    BY <2>2, <2>3
<1>10. \A k \in DOMAIN all : (\E i \in DOMAIN s : all[k] = s[i]) \/ (\E i \in DOMAIN r : all[k] = r[i])
  BY <1>2, <1>7, <1>8
<1>11. \A i \in DOMAIN r : \E k \in DOMAIN all : all[k] = r[i]
  BY <1>2, <1>7, <1>9
<1>12. QED
  BY <1>7, <1>10, <1>11

(* and their conditions with those of the WHERE. *)
LEMMA OnsGuard ==
    ASSUME NEW joins, AllJoinsFine(joins), NEW where, NEW prefix, NEW ids, Guards(where, prefix, ids),
           NEW n, n = JoinOns(joins, where)
    PROVE  Guards(n, prefix, ids)
<1>1. PICK ss : ss = [i \in DOMAIN joins |-> joins[i].on.kids]
  OBVIOUS
<1>2. PICK m \in Nat : DOMAIN joins = 1 .. m
  BY SequenceOf DEF AllJoinsFine
<1>3. Sequence(ss) /\ DOMAIN ss = 1 .. m
  BY <1>1, <1>2 DEF Sequence
<1>4. \A i \in 1 .. m : NotRaw(ss[i])
  BY <1>1, <1>2 DEF AllJoinsFine, JoinFine
<1>5. PICK flat : flat = FlattenSeq(ss)
  OBVIOUS
<1>6. /\ Sequence(flat)
      /\ \A k \in DOMAIN flat : \E i \in DOMAIN ss : \E j \in DOMAIN ss[i] : flat[k] = ss[i][j]
  BY <1>3, <1>4, <1>5, FlattenFrom DEF NotRaw
<1>7. NotRaw(flat)
  BY <1>3, <1>4, <1>6 DEF NotRaw
<1>8. PICK kids : kids = where.kids
  OBVIOUS
<1>9. NotRaw(kids) /\ \E i \in DOMAIN kids : TenantIs(kids[i], prefix, ids)
  BY <1>8 DEF Guards, NotRaw
<1>10. PICK all : IsBoth(all, flat, kids)
  BY DEF IsBoth
<1>11. /\ Sequence(all)
       /\ \A k \in DOMAIN all : (\E i \in DOMAIN flat : all[k] = flat[i]) \/ (\E i \in DOMAIN kids : all[k] = kids[i])
       /\ \A i \in DOMAIN kids : \E k \in DOMAIN all : all[k] = kids[i]
  BY <1>7, <1>9, <1>10, AfterOthers DEF NotRaw
<1>12. NotRaw(all)
  BY <1>7, <1>9, <1>11 DEF NotRaw
<1>13. PICK k \in DOMAIN all : TenantIs(all[k], prefix, ids)
  BY <1>9, <1>11
<1>14. ~IsEmpty(all[k])
  BY <1>13 DEF TenantIs, IsEmpty
<1>15. n = Clause("where", all)
  BY <1>1, <1>5, <1>8, <1>10 DEF JoinOns, IsBoth
<1>16. n.t = "where" /\ n.kids = Present(all)
  BY <1>12, <1>14, <1>15, ClauseIs DEF NotRaw
<1>17. NotRaw(Present(all))
  BY <1>12, PresentNotRaw
<1>18. \E i \in DOMAIN Present(all) : TenantIs(Present(all)[i], prefix, ids)
  BY <1>12, <1>13, <1>14, PresentFrom DEF NotRaw
<1>19. QED
  BY <1>16, <1>17, <1>18 DEF Guards, NotRaw

-----------------------------------------------------------------------------
(* Two, three and four parts. *)
LEMMA TwoFine ==
    ASSUME NEW prefix, NEW ids, NEW d, NEW k1, NEW k2, KidFine(k1, prefix, ids, d), KidFine(k2, prefix, ids, d),
           k1.a.as = prefix, k2.t = "where", NEW s, s = <<k1, k2>>
    PROVE  KidsFine(s, prefix, ids, d)
<1>1. DOMAIN s = 1 .. 2 /\ Len(s) = 2 /\ s[1] = k1 /\ s[2] = k2
  OBVIOUS
<1>2. Sequence(s)
  <2>1. s = [i \in 1 .. 2 |-> s[i]]
    OBVIOUS
  <2>2. QED
    BY <1>1, <2>1 DEF Sequence
<1>3. \A i \in DOMAIN s : i = 1 \/ i = 2
  BY <1>1
<1>4. 2 \in DOMAIN s
  BY <1>1
<1>5. QED
  BY <1>1, <1>2, <1>3, <1>4 DEF KidsFine

(* Three of them. *)
LEMMA ThreeFine ==
    ASSUME NEW prefix, NEW ids, NEW d, NEW k1, NEW k2, NEW k3, KidFine(k1, prefix, ids, d),
           KidFine(k2, prefix, ids, d), KidFine(k3, prefix, ids, d),
           k1.a.as = prefix, k3.t = "where", NEW s, s = <<k1, k2, k3>>
    PROVE  KidsFine(s, prefix, ids, d)
<1>1. DOMAIN s = 1 .. 3 /\ Len(s) = 3 /\ s[1] = k1 /\ s[2] = k2 /\ s[3] = k3
  OBVIOUS
<1>2. Sequence(s)
  <2>1. s = [i \in 1 .. 3 |-> s[i]]
    OBVIOUS
  <2>2. QED
    BY <1>1, <2>1 DEF Sequence
<1>3. \A i \in DOMAIN s : i = 1 \/ i = 2 \/ i = 3
  BY <1>1
<1>4. 3 \in DOMAIN s
  BY <1>1
<1>5. QED
  BY <1>1, <1>2, <1>3, <1>4 DEF KidsFine

(* Four of them. *)
LEMMA FourFine ==
    ASSUME NEW prefix, NEW ids, NEW d, NEW k1, NEW k2, NEW k3, NEW k4, KidFine(k1, prefix, ids, d),
           KidFine(k2, prefix, ids, d), KidFine(k3, prefix, ids, d), KidFine(k4, prefix, ids, d),
           k1.a.as = prefix, k4.t = "where", NEW s, s = <<k1, k2, k3, k4>>
    PROVE  KidsFine(s, prefix, ids, d)
<1>1. DOMAIN s = 1 .. 4 /\ Len(s) = 4 /\ s[1] = k1 /\ s[2] = k2 /\ s[3] = k3 /\ s[4] = k4
  OBVIOUS
<1>2. Sequence(s)
  <2>1. s = [i \in 1 .. 4 |-> s[i]]
    OBVIOUS
  <2>2. QED
    BY <1>1, <2>1 DEF Sequence
<1>3. \A i \in DOMAIN s : i = 1 \/ i = 2 \/ i = 3 \/ i = 4
  BY <1>1
<1>4. 4 \in DOMAIN s
  BY <1>1
<1>5. QED
  BY <1>1, <1>2, <1>3, <1>4 DEF KidsFine

(* A statement whose parts are fine. *)
FineNode(n, t, prefix, ids, d) == \E kids : HasKids(n, t, 0, kids) /\ KidsFine(kids, prefix, ids, d)

(* An UPDATE in each of its forms. *)
LEMMA UpdateFine ==
    ASSUME NEW prefix, NEW ids, NEW d, NEW target, TargetNode(target, prefix),
           NEW sets, KidFine(sets, prefix, ids, d), NEW where, Guards(where, prefix, ids),
           NEW joins, AllJoinsFine(joins), NEW spec,
           NEW st, st = RenderUpdate(spec, target, sets, where, joins)
    PROVE  FineNode(st.n, "update", prefix, ids, d)
<1>1. KidFine(target, prefix, ids, d) /\ target.a.as = prefix
  BY DEF TargetNode, KidFine
<1>2. KidFine(where, prefix, ids, d) /\ where.t = "where"
  BY DEF Guards, KidFine
<1>3. CASE Nothing(joins)
  <2>1. st.n = Node("update", 0, <<target, sets, where>>)
    BY <1>3 DEF RenderUpdate, Nothing
  <2>2. PICK kids : kids = <<target, sets, where>>
    OBVIOUS
  <2>3. HasKids(st.n, "update", 0, kids)
    BY <2>1, <2>2, ThreeKids
  <2>4. KidsFine(kids, prefix, ids, d)
    BY <1>1, <1>2, <2>2, ThreeFine
  <2>5. QED
    BY <2>3, <2>4 DEF FineNode
<1>4. CASE ~Nothing(joins) /\ spec.joinsBeforeSet
  <2>1. PICK j : j = renderJoined(joins)
    OBVIOUS
  <2>2. st.n = Node("update", 0, <<target, j, sets, where>>)
    BY <1>4, <2>1 DEF RenderUpdate, Nothing
  <2>3. PICK kids : kids = <<target, j, sets, where>>
    OBVIOUS
  <2>4. HasKids(st.n, "update", 0, kids)
    BY <2>2, <2>3, FourKids
  <2>5. KidFine(j, prefix, ids, d)
    BY <2>1, JoinedFine
  <2>6. KidsFine(kids, prefix, ids, d)
    BY <1>1, <1>2, <2>3, <2>5, FourFine
  <2>7. QED
    BY <2>4, <2>6 DEF FineNode
<1>5. CASE ~Nothing(joins) /\ ~spec.joinsBeforeSet
  <2>1. PICK t, o : t = JoinTables(joins) /\ o = JoinOns(joins, where)
    OBVIOUS
  <2>2. st.n = Node("update", 0, <<target, sets, t, o>>)
    BY <1>5, <2>1 DEF RenderUpdate, Nothing
  <2>3. PICK kids : kids = <<target, sets, t, o>>
    OBVIOUS
  <2>4. HasKids(st.n, "update", 0, kids)
    BY <2>2, <2>3, FourKids
  <2>5. KidFine(t, prefix, ids, d)
    BY <2>1, TablesFine
  <2>6. Guards(o, prefix, ids)
    BY <2>1, OnsGuard
  <2>7. KidFine(o, prefix, ids, d) /\ o.t = "where"
    BY <2>6 DEF Guards, KidFine
  <2>8. KidsFine(kids, prefix, ids, d)
    BY <1>1, <2>3, <2>5, <2>7, FourFine
  <2>9. QED
    BY <2>4, <2>8 DEF FineNode
<1>6. QED
  BY <1>3, <1>4, <1>5

(* A DELETE that can be put together. *)
LEMMA DeleteFine ==
    ASSUME NEW prefix, NEW ids, NEW d, NEW target, TargetNode(target, prefix),
           NEW where, Guards(where, prefix, ids), NEW joins, AllJoinsFine(joins), NEW spec,
           NEW st, st = RenderDelete(spec, target, joins, where)
    PROVE  IsError(st.err) \/ FineNode(st.n, "delete", prefix, ids, d)
<1>1. KidFine(target, prefix, ids, d) /\ target.a.as = prefix
  BY DEF TargetNode, KidFine
<1>2. KidFine(where, prefix, ids, d) /\ where.t = "where"
  BY DEF Guards, KidFine
<1>3. CASE Nothing(joins)
  <2>1. st.n = Node("delete", 0, <<target, where>>)
    BY <1>3 DEF RenderDelete, Nothing
  <2>2. PICK kids : kids = <<target, where>>
    OBVIOUS
  <2>3. HasKids(st.n, "delete", 0, kids)
    BY <2>1, <2>2, TwoKids
  <2>4. KidsFine(kids, prefix, ids, d)
    BY <1>1, <1>2, <2>2, TwoFine
  <2>5. QED
    BY <2>3, <2>4 DEF FineNode
<1>4. CASE ~Nothing(joins) /\ spec.deleteJoins = "joined"
  <2>1. PICK j : j = renderJoined(joins)
    OBVIOUS
  <2>2. st.n = Node("delete", 0, <<target, j, where>>)
    BY <1>4, <2>1 DEF RenderDelete, Nothing
  <2>3. PICK kids : kids = <<target, j, where>>
    OBVIOUS
  <2>4. HasKids(st.n, "delete", 0, kids)
    BY <2>2, <2>3, ThreeKids
  <2>5. KidFine(j, prefix, ids, d)
    BY <2>1, JoinedFine
  <2>6. KidsFine(kids, prefix, ids, d)
    BY <1>1, <1>2, <2>3, <2>5, ThreeFine
  <2>7. QED
    BY <2>4, <2>6 DEF FineNode
<1>5. CASE ~Nothing(joins) /\ spec.deleteJoins = "using"
  <2>1. PICK t, o : t = JoinTables(joins) /\ o = JoinOns(joins, where)
    OBVIOUS
  <2>2. st.n = Node("delete", 0, <<target, t, o>>)
    <3>1. PICK e : e = IF joinsHaveOuter(joins) THEN "outer join" ELSE ""
      OBVIOUS
    <3>2. spec.deleteJoins # "joined"
      BY <1>5
    <3>3. st = [err |-> e, n |-> Node("delete", 0, <<target, t, o>>)]
      BY <1>5, <2>1, <3>1, <3>2 DEF RenderDelete, Nothing
    <3>4. QED
      BY <3>3
  <2>3. PICK kids : kids = <<target, t, o>>
    OBVIOUS
  <2>4. HasKids(st.n, "delete", 0, kids)
    BY <2>2, <2>3, ThreeKids
  <2>5. KidFine(t, prefix, ids, d)
    BY <2>1, TablesFine
  <2>6. Guards(o, prefix, ids)
    BY <2>1, OnsGuard
  <2>7. KidFine(o, prefix, ids, d) /\ o.t = "where"
    BY <2>6 DEF Guards, KidFine
  <2>8. KidsFine(kids, prefix, ids, d)
    BY <1>1, <2>3, <2>5, <2>7, ThreeFine
  <2>9. QED
    BY <2>4, <2>8 DEF FineNode
<1>6. CASE ~Nothing(joins) /\ spec.deleteJoins # "joined" /\ spec.deleteJoins # "using"
  <2>1. PICK e : e = "delete join"
    OBVIOUS
  <2>2. st = [err |-> e, n |-> Empty]
    BY <1>6, <2>1 DEF RenderDelete, Nothing
  <2>3. st.err = e
    BY <2>2
  <2>4. IsError(e)
    BY <2>1 DEF IsError
  <2>5. QED
    BY <2>3, <2>4
<1>7. QED
  BY <1>3, <1>4, <1>5, <1>6

-----------------------------------------------------------------------------
(* Whole statements. *)

(* A clause is of its kind or is not there. *)
LEMMA ReturningNeutral ==
    ASSUME NEW h, NEW rc, NEW b
    PROVE  Neutral(renderReturning(h, rc, b).n)
<1>1. PICK none, no, t : none = Out(rc, Empty) /\ no = "returning" /\ t = "returning"
  OBVIOUS
<1>2. none.n = Empty
  BY <1>1, OutIs
<1>3. Neutral(Empty)
  BY NoKids DEF Neutral
<1>4. \A e, f : Rendering(e, f).n = f.n
  BY DEF Rendering
<1>5. CASE Nothing(b.returning)
  <2>1. PICK e : e = ""
    OBVIOUS
  <2>2. renderReturning(h, rc, b) = Rendering(e, none)
    BY <1>1, <1>5, <2>1 DEF renderReturning, Nothing
  <2>3. QED
    BY <1>2, <1>3, <1>4, <2>2
<1>6. CASE ~Nothing(b.returning) /\ ~DialectOf(rc).returning
  <2>1. renderReturning(h, rc, b) = Rendering(no, none)
    BY <1>1, <1>6 DEF renderReturning, Nothing
  <2>2. QED
    BY <1>2, <1>3, <1>4, <2>1
<1>7. CASE ~Nothing(b.returning) /\ DialectOf(rc).returning
  <2>1. PICK acc, e : acc = RenderAll(h, rc, b.returning) /\ e = ""
    OBVIOUS
  <2>2. PICK n : n = Clause(t, acc.ns)
    OBVIOUS
  <2>3. renderReturning(h, rc, b) = Rendering(e, Out(acc.rc, n))
    BY <1>1, <1>7, <2>1, <2>2 DEF renderReturning, AsClause, Nothing
  <2>4. renderReturning(h, rc, b).n = n
    BY <1>4, <2>3, OutIs
  <2>5. n = Empty \/ n.t = t
    BY <2>2, ClauseKids
  <2>6. Neutral(n)
    BY <1>1, <1>3, <2>5 DEF Neutral
  <2>7. QED
    BY <2>4, <2>6
<1>8. QED
  BY <1>5, <1>6, <1>7

(* A statement without an error is what was put together, with its RETURNING. *)
Ended(n, st) == \E m : Neutral(m) /\ OneKidMore(st.n, n, m)
(* What it was put together from had no error either. *)
LEMMA CompleteEnds ==
    ASSUME NEW h, NEW L, KeepsIn(h, L), NEW rc, IsContext(rc), NEW b, b.returning \in Seq(L),
           NEW stmt, NEW st, st = Complete(h, b, stmt, rc), ~IsError(st.err)
    PROVE  ~IsError(stmt.err) /\ NoError(rc) /\ Ended(stmt.n, st)
<1>1. PICK ret : ret = renderReturning(h, rc, b)
  OBVIOUS
<1>2. Keeps(rc, ret.rc)
  BY <1>1, ReturningKeeps
<1>3. ~IsError(stmt.err)
  BY RefusedErr DEF Complete, IsError
<1>4. PICK n : n = [stmt.n EXCEPT !.kids = Append(@, ret.n)]
  OBVIOUS
<1>5. IsStatement(st, ret.err, ret.rc, n)
  BY <1>1, <1>3, <1>4 DEF Complete, AddReturning, IsStatement, IsError
<1>6. ret.rc.err = "" /\ st.n = n
  BY ZenonT(60), <1>5, StatementIs DEF IsError
<1>7. NoError(rc)
  BY <1>2, <1>6, KeptContext DEF NoError
<1>8. PICK m : m = ret.n
  OBVIOUS
<1>9. Neutral(m)
  BY <1>1, <1>8, ReturningNeutral
<1>10. OneKidMore(st.n, stmt.n, m)
  BY <1>4, <1>6, <1>8 DEF OneKidMore
<1>11. QED
  BY <1>3, <1>7, <1>9, <1>10 DEF Ended

(* An UPDATE or a DELETE with it is as fine as without. *)
LEMMA EndedFine ==
    ASSUME NEW n, NEW t, t \in {"update", "delete"}, NEW prefix, NEW ids, NEW d, FineNode(n, t, prefix, ids, d),
           NEW st, Ended(n, st)
    PROVE  Changing(st.n, prefix, ids, d)
<1>1. PICK kids : HasKids(n, t, 0, kids) /\ KidsFine(kids, prefix, ids, d)
  BY DEF FineNode
<1>2. PICK m : Neutral(m) /\ OneKidMore(st.n, n, m)
  BY DEF Ended
<1>3. PICK more : more = Append(kids, m)
  OBVIOUS
<1>4. n.t = t /\ n.kids = kids /\ n = [t |-> n.t, a |-> n.a, kids |-> n.kids]
  BY <1>1 DEF HasKids, Node
<1>5. PICK next : next = st.n
  OBVIOUS
<1>6. next.t = t /\ next.kids = more
  BY <1>2, <1>3, <1>4, <1>5 DEF OneKidMore
<1>7. KidsFine(more, prefix, ids, d)
  BY <1>1, <1>2, <1>3, AppendedFine
<1>8. QED
  BY <1>5, <1>6, <1>7, FineChanges

(* Assignments after which rows keep their tenant. *)
KeepTenants(sets, d, ids) == \A n : SetsRendered(n, sets) => SetsKeep(n.kids, d, ids)

(* An UPDATE, or a soft DELETE, with such assignments. *)
LEMMA UpdateConfined ==
    ASSUME NEW h, NEW L, KeepsIn(h, L), RenderRecurses(h, L), NEW b, DmlIn(L, b),
           NEW rc, IsContext(rc), Restricted(rc, b.table), NEW sets \in Seq(Written(L)), ~Nothing(sets),
           NEW d, KeepTenants(sets, d, TenantIDs(rc)),
           NEW st, st = renderUpdateStatement(h, rc, b, sets), ~IsError(st.err)
    PROVE  Changing(st.n, AsIn(rc, b.table), TenantIDs(rc), d)
<1>1. PICK parts : parts = <<"target", "sets", "joins", "where">>
  OBVIOUS
<1>2. PICK n \in Nat : n = 4
  OBVIOUS
<1>3. DOMAIN parts = 1 .. n /\ 1 \in 1 .. n /\ 2 \in 1 .. n /\ 3 \in 1 .. n /\ 4 \in 1 .. n
  BY <1>1, <1>2
<1>4. parts[1] = "target" /\ parts[2] = "sets" /\ parts[3] = "joins" /\ parts[4] = "where"
  BY <1>1
<1>5. \A i \in 1 .. n : PartOf(b, parts[i])
  <2>1. \A i \in 1 .. n : parts[i] \in {"target", "sets", "joins", "where"}
    BY <1>1, <1>2
  <2>2. QED
    BY <2>1 DEF PartOf, DmlPartNames
<1>6. PICK acc : acc = DmlParts(h, b, sets, rc, parts)
  OBVIOUS
<1>7. Keeps(rc, acc.rc)
  BY <1>3, <1>5, <1>6, DmlPartsDone
<1>8. PICK spec, target, set, joins, where :
        /\ spec = DialectOf(rc) /\ target = acc.ns[1] /\ set = acc.ns[2]
        /\ joins = acc.ns[3] /\ where = acc.ns[4]
  OBVIOUS
<1>9. PICK stmt : stmt = RenderUpdate(spec, target, set, where, joins)
  OBVIOUS
<1>10. PICK r : r = JoinArgsFirst(spec, b, acc)
  OBVIOUS
<1>11. IsContext(acc.rc) /\ Keeps(acc.rc, r)
  BY <1>7, <1>10, KeptContext, JoinArgsKeep
<1>12. st = Complete(h, b, stmt, r)
  BY <1>1, <1>6, <1>8, <1>9, <1>10 DEF renderUpdateStatement, Updated
<1>13. IsContext(r) /\ b.returning \in Seq(L)
  BY <1>11, KeptContext DEF DmlIn
<1>14. NoError(r) /\ Ended(stmt.n, st)
  BY <1>12, <1>13, CompleteEnds
<1>15. NoError(acc.rc)
  BY <1>11, <1>14, KeptContext DEF NoError
<1>16. \A k \in 1 .. n : PartFrom(h, b, sets, rc, parts[k], acc.ns[k])
  BY <1>3, <1>5, <1>6, <1>15, PartsFrom
<1>17. PICK prefix, ids : prefix = AsIn(rc, b.table) /\ ids = TenantIDs(rc)
  OBVIOUS
<1>18. TargetNode(target, prefix)
  BY <1>3, <1>4, <1>8, <1>16, <1>17, TargetPart
<1>19. SetsRendered(set, sets)
  BY <1>3, <1>4, <1>8, <1>16, SetsPart
<1>20. KidFine(set, prefix, ids, d)
  BY <1>17, <1>19 DEF KeepTenants, KidFine, SetsRendered
<1>21. AllJoinsFine(joins)
  BY <1>3, <1>4, <1>8, <1>16, JoinsPart
<1>22. Guards(where, prefix, ids)
  BY <1>3, <1>4, <1>8, <1>16, <1>17, WherePart
<1>23. FineNode(stmt.n, "update", prefix, ids, d)
  BY <1>9, <1>18, <1>20, <1>21, <1>22, UpdateFine
<1>24. QED
  BY <1>14, <1>17, <1>23, EndedFine

(* A DELETE. *)
LEMMA DeleteConfined ==
    ASSUME NEW h, NEW L, KeepsIn(h, L), RenderRecurses(h, L), NEW b, DmlIn(L, b),
           NEW rc, IsContext(rc), Restricted(rc, b.table), NEW d,
           NEW st, st = renderDelete(h, rc, b), ~IsError(st.err)
    PROVE  Changing(st.n, AsIn(rc, b.table), TenantIDs(rc), d)
<1>1. PICK parts : parts = <<"target", "joins", "where">>
  OBVIOUS
<1>2. PICK n \in Nat : n = 3
  OBVIOUS
<1>3. DOMAIN parts = 1 .. n /\ 1 \in 1 .. n /\ 2 \in 1 .. n /\ 3 \in 1 .. n
  BY <1>1, <1>2
<1>4. parts[1] = "target" /\ parts[2] = "joins" /\ parts[3] = "where"
  BY <1>1
<1>5. \A i \in 1 .. n : PartOf(b, parts[i])
  <2>1. \A i \in 1 .. n : parts[i] \in {"target", "joins", "where"}
    BY <1>1, <1>2
  <2>2. QED
    BY <2>1 DEF PartOf, DmlPartNames
<1>6. PICK none : none = <<>>
  OBVIOUS
<1>7. none \in Seq(Written(L))
  BY <1>6
<1>8. PICK acc : acc = DmlParts(h, b, none, rc, parts)
  OBVIOUS
<1>9. Keeps(rc, acc.rc)
  BY <1>3, <1>5, <1>7, <1>8, DmlPartsDone
<1>10. PICK spec, target, joins, where :
         spec = DialectOf(rc) /\ target = acc.ns[1] /\ joins = acc.ns[2] /\ where = acc.ns[3]
  OBVIOUS
<1>11. PICK stmt : stmt = RenderDelete(spec, target, joins, where)
  OBVIOUS
<1>12. st = Complete(h, b, stmt, acc.rc)
  BY <1>1, <1>6, <1>8, <1>10, <1>11 DEF renderDelete, Deleted
<1>13. IsContext(acc.rc) /\ b.returning \in Seq(L)
  BY <1>9, KeptContext DEF DmlIn
<1>14. ~IsError(stmt.err) /\ NoError(acc.rc) /\ Ended(stmt.n, st)
  BY <1>12, <1>13, CompleteEnds
<1>15. \A k \in 1 .. n : PartFrom(h, b, none, rc, parts[k], acc.ns[k])
  BY <1>3, <1>5, <1>7, <1>8, <1>14, PartsFrom
<1>16. PICK prefix, ids : prefix = AsIn(rc, b.table) /\ ids = TenantIDs(rc)
  OBVIOUS
<1>17. TargetNode(target, prefix)
  BY <1>3, <1>4, <1>10, <1>15, <1>16, TargetPart
<1>18. AllJoinsFine(joins)
  BY <1>3, <1>4, <1>10, <1>15, JoinsPart
<1>19. Guards(where, prefix, ids)
  BY <1>3, <1>4, <1>10, <1>15, <1>16, WherePart
<1>20. FineNode(stmt.n, "delete", prefix, ids, d)
  BY <1>11, <1>14, <1>17, <1>18, <1>19, DeleteFine
<1>21. QED
  BY <1>14, <1>16, <1>20, EndedFine

-----------------------------------------------------------------------------
(* The tenants of a builder. *)

(* Those given for it, or that of the request, if there is one. *)
Ids(b) == IF b.hasTenantIDs THEN b.tenantIDs
          ELSE IF b.ctxTenant # NoTenant THEN <<b.ctxTenant>> ELSE <<>>

(* A statement of a tenant table, rendered for them. *)
TenantsOf(rc, b, d) ==
    /\ IsContext(rc) /\ rc.d = d /\ Restricted(rc, b.table) /\ ~b.untenant /\ TenantIDs(rc) = Ids(b)

(* It begins with them. *)
LEMMA BegunTenants ==
    ASSUME NEW L, NEW h, NEW id, DmlIn(L, h[id]), ~h[id].untenant, Bases[h[id].table].tenant,
           NEW d, NEW rc, rc = Begun(h, id, d)
    PROVE  TenantsOf(rc, h[id], d)
<1>1. PICK b : b = h[id]
  OBVIOUS
<1>2. PICK r0 : r0 = NewRenderContext(d)
  OBVIOUS
<1>3. DOMAIN r0 = ContextFields /\ r0.d = d /\ r0.tenantHas = FALSE /\ r0.tenantDisabled = FALSE
  BY <1>2 DEF NewRenderContext, ContextFields
<1>4. PICK r1 : r1 = SwapQueryShard(r0, b.shard)
  OBVIOUS
<1>5. DOMAIN r1 = ContextFields /\ r1.d = d /\ r1.tenantHas = FALSE /\ r1.tenantDisabled = FALSE
  BY <1>3, <1>4 DEF SwapQueryShard, ContextFields
<1>6. PICK r2 : r2 = [r1 EXCEPT !.mainTable = b.table]
  OBVIOUS
<1>7. DOMAIN r2 = ContextFields /\ r2.d = d /\ r2.tenantHas = FALSE /\ r2.tenantDisabled = FALSE
  BY <1>5, <1>6 DEF ContextFields
<1>8. r2 = installShard(r0, b)
  BY <1>4, <1>6 DEF installShard
<1>9. PICK none : Nothing(none)
  BY DEF Nothing
<1>10. PICK s, one : s = seedTenant(r2, b.ctxTenant) /\ one = <<b.ctxTenant>>
  OBVIOUS
<1>11. /\ DOMAIN s = ContextFields /\ s.d = d /\ s.tenantDisabled = FALSE
       /\ IF b.ctxTenant # NoTenant THEN s.tenantHas = TRUE /\ s.tenantIDs = one ELSE s.tenantHas = FALSE
  <2>1. CASE b.ctxTenant # NoTenant
    <3>1. s = [r2 EXCEPT !.tenantHas = TRUE, !.tenantIDs = one]
      BY <1>10, <2>1 DEF seedTenant, SetTenant
    <3>2. QED
      BY <1>7, <2>1, <3>1 DEF ContextFields
  <2>2. CASE b.ctxTenant = NoTenant
    BY <1>7, <1>10, <2>2 DEF seedTenant
  <2>3. QED
    BY <2>1, <2>2
<1>12. PICK r3 : r3 = installTenant(r2, b)
  OBVIOUS
<1>13. /\ DOMAIN r3 = ContextFields /\ r3.d = d /\ r3.tenantDisabled = FALSE
       /\ IF b.hasTenantIDs THEN r3.tenantHas = TRUE /\ r3.tenantIDs = b.tenantIDs ELSE r3 = s
  <2>1. CASE b.hasTenantIDs
    <3>1. r3 = [s EXCEPT !.tenantHas = TRUE, !.tenantDisabled = FALSE, !.tenantIDs = b.tenantIDs]
      BY <1>1, <1>10, <1>12, <2>1 DEF installTenant, PushTenant
    <3>2. QED
      BY <1>11, <2>1, <3>1 DEF ContextFields
  <2>2. CASE ~b.hasTenantIDs
    BY <1>1, <1>10, <1>11, <1>12, <2>2 DEF installTenant
  <2>3. QED
    BY <2>1, <2>2
<1>14. PICK r4 : r4 = [r3 EXCEPT !.path = <<id>>]
  OBVIOUS
<1>15. /\ r4.d = d /\ r4.tenantDisabled = FALSE
       /\ r4.tenantHas = r3.tenantHas /\ r4.tenantIDs = r3.tenantIDs
  BY <1>13, <1>14 DEF ContextFields
<1>16. rc = r4
  BY <1>1, <1>2, <1>8, <1>12, <1>14 DEF Begun
<1>17. TenantIDs(rc) = Ids(b)
  <2>1. Ids(b) = IF b.hasTenantIDs THEN b.tenantIDs ELSE IF b.ctxTenant # NoTenant THEN one ELSE none
    BY <1>9, <1>10 DEF Ids, Nothing
  <2>2. TenantIDs(rc) = IF rc.tenantDisabled \/ ~rc.tenantHas THEN none ELSE rc.tenantIDs
    BY <1>9 DEF TenantIDs, Nothing
  <2>3. CASE b.hasTenantIDs
    BY <1>13, <1>15, <1>16, <2>1, <2>2, <2>3
  <2>4. CASE ~b.hasTenantIDs /\ b.ctxTenant # NoTenant
    BY <1>11, <1>13, <1>15, <1>16, <2>1, <2>2, <2>4
  <2>5. CASE ~b.hasTenantIDs /\ ~(b.ctxTenant # NoTenant)
    BY <1>11, <1>13, <1>15, <1>16, <2>1, <2>2, <2>5
  <2>6. QED
    BY <2>3, <2>4, <2>5
<1>18. IsContext(rc)
  BY BegunContext
<1>19. QED
  BY <1>1, <1>15, <1>16, <1>17, <1>18 DEF TenantsOf, Restricted

(* They are a list. *)
LEMMA IdsList ==
    ASSUME NEW L, NEW b, DmlIn(L, b)
    PROVE  Sequence(Ids(b))
<1>1. PICK one, none : one = <<b.ctxTenant>> /\ none = <<>>
  OBVIOUS
<1>2. Sequence(none)
  BY <1>1, NothingIs DEF Nothing
<1>3. Sequence(one)
  <2>1. one = [i \in 1 .. 1 |-> one[i]]
    BY <1>1
  <2>2. QED
    BY <2>1 DEF Sequence
<1>4. Ids(b) = b.tenantIDs \/ Ids(b) = one \/ Ids(b) = none
  BY <1>1 DEF Ids
<1>5. CASE b.hasTenantIDs
  BY <1>5 DEF Ids, DmlIn
<1>6. CASE ~b.hasTenantIDs
  <2>1. Ids(b) = IF b.ctxTenant # NoTenant THEN one ELSE none
    BY <1>1, <1>6 DEF Ids
  <2>2. QED
    BY <1>2, <1>3, <2>1
<1>7. QED
  BY <1>5, <1>6

-----------------------------------------------------------------------------
(* The checks of written values. *)

(* One tenant is in force, and the value written is it. *)
TheOne(ids, v) == Len(ids) = 1 /\ v.k = "val" /\ v.a = ids[1]

(* A value that passes is the tenant's. *)
LEMMA ValuePasses ==
    ASSUME NEW ids, NEW v, ~IsError(TenantValueError(ids, v))
    PROVE  v.k = "val" /\ v.a = ids[1]
<1>1. PICK no, bad : no = "" /\ bad = "tenant value"
  OBVIOUS
<1>2. bad # no
  BY <1>1
<1>3. TenantValueError(ids, v) # bad
  BY <1>1, <1>2 DEF IsError
<1>4. ~(v.k = "null" \/ IsExpression(v))
  BY <1>1, <1>3 DEF TenantValueError
<1>5. v.k = "val"
  BY <1>4 DEF IsExpression
<1>6. ~(~CheckTenantValue(v.a) \/ v.a # ids[1])
  BY <1>1, <1>3, <1>4 DEF TenantValueError
<1>7. QED
  BY <1>5, <1>6

(* A single tenant. *)
LEMMA SingleTenant ==
    ASSUME NEW rc, ~IsError(requireSingleTenant(rc))
    PROVE  Len(TenantIDs(rc)) = 1
<1>1. PICK no, none, many : no = "" /\ none = "tenant required" /\ many = "tenant many"
  OBVIOUS
<1>2. none # no /\ many # no
  BY <1>1
<1>3. requireSingleTenant(rc) = IF TenantIDs(rc) = <<>> THEN none
                                ELSE IF Len(TenantIDs(rc)) # 1 THEN many ELSE no
  BY <1>1 DEF requireSingleTenant
<1>4. requireSingleTenant(rc) = no
  BY <1>1 DEF IsError
<1>5. PICK a, e : a = (TenantIDs(rc) = <<>>) /\ e = (Len(TenantIDs(rc)) # 1)
  OBVIOUS
<1>6. requireSingleTenant(rc) = IF a THEN none ELSE IF e THEN many ELSE no
  BY <1>3, <1>5, Zenon
<1>7. ~e
  BY <1>2, <1>4, <1>6
<1>8. QED
  BY <1>5, <1>7

(* What comes first in both. *)
LEMMA FirstOfBoth ==
    ASSUME NEW T, NEW s \in Seq(T), NEW r \in Seq(T), Len(s) = 1, NEW all, IsBoth(all, s, r)
    PROVE  1 \in DOMAIN all /\ all[1] = s[1]
<1>1. PICK m \in Nat, n \in Nat : m = Len(s) /\ n = Len(r)
  BY LenProperties
<1>2. /\ all \in Seq(T) /\ Len(all) = m + n
      /\ \A k \in 1 .. m + n : all[k] = IF k <= m THEN s[k] ELSE r[k - m]
  BY <1>1, ConcatProperties DEF IsBoth
<1>3. DOMAIN all = 1 .. m + n
  BY <1>2, LenProperties
<1>4. 1 \in 1 .. m + n /\ 1 <= m
  BY <1>1
<1>5. QED
  BY <1>2, <1>3, <1>4

(* The table written to comes first. *)
LEMMA TablesStart ==
    ASSUME NEW b, Sequence(b.joins), NEW ts, ts = statementTables(b)
    PROVE  1 \in DOMAIN ts /\ ts[1] = TableRef("base", b.table)
<1>1. PICK m \in Nat : DOMAIN b.joins = 1 .. m
  BY SequenceOf
<1>2. PICK t, r : t = TableRef("base", b.table) /\ r = [i \in DOMAIN b.joins |-> b.joins[i].table]
  OBVIOUS
<1>3. PICK T : T = {t} \cup {r[i] : i \in DOMAIN r}
  OBVIOUS
<1>4. r \in Seq(T) /\ Len(r) = m
  <2>1. r \in [1 .. m -> T]
    BY <1>1, <1>2, <1>3
  <2>2. QED
    BY <2>1, SeqDef
<1>5. PICK s : s = <<t>>
  OBVIOUS
<1>6. s \in Seq(T) /\ Len(s) = 1 /\ s[1] = t
  BY <1>3, <1>5
<1>7. IsBoth(ts, s, r)
  BY <1>2, <1>5 DEF statementTables, IsBoth
<1>8. QED
  BY <1>2, <1>4, <1>6, <1>7, FirstOfBoth

(* The column of a tenant, under the spelling of the statement. *)
LEMMA TenantColumn ==
    ASSUME NEW rc, NEW c, 2 \in Position(rc.d, c)
    PROVE  sameColumn(rc, "tid", c)
<1>1. PICK tid : tid = "tid"
  OBVIOUS
<1>2. Cols[2] = tid
  BY <1>1 DEF Cols, TableColumns
<1>3. tid = IF LookupDialect(rc.d).fold THEN Lower(c) ELSE c
  BY <1>2 DEF Position
<1>4. Lower(tid) = tid
  BY <1>1 DEF Lower
<1>5. QED
  BY <1>1, <1>3, <1>4 DEF sameColumn, DialectOf

(* A write of a tenant column that passes is of the one in force. *)
LEMMA WritePasses ==
    ASSUME NEW rc, NEW b, Sequence(b.joins), ~b.untenant, Bases[b.table].tenant, NEW cv,
           2 \in Position(rc.d, cv.col), ~IsError(rejectTenantWrite(rc, b, cv))
    PROVE  TheOne(TenantIDs(rc), cv.v)
<1>1. PICK ts : ts = statementTables(b)
  OBVIOUS
<1>2. 1 \in DOMAIN ts /\ ts[1] = TableRef("base", b.table)
  BY <1>1, TablesStart
<1>3. tenantMarked(ts[1])
  BY <1>2 DEF tenantMarked, IsBase, TableRef
<1>4. 1 \in matchingTenantFields(rc, b, cv.col)
  BY <1>1, <1>2, <1>3, TenantColumn DEF matchingTenantFields
<1>5. PICK single, bad : single = requireSingleTenant(rc) /\ bad = "tenant type"
  OBVIOUS
<1>6. PICK of, wrong, e : /\ of = matchingTenantFields(rc, b, cv.col)
                          /\ wrong = ~CheckTenantValue(TenantIDs(rc)[1])
                          /\ e = TenantValueError(TenantIDs(rc), cv.v)
  OBVIOUS
<1>7. of # {}
  BY <1>4, <1>6
<1>8. PICK w : w = rejectTenantWrite(rc, b, cv)
  OBVIOUS
<1>9. w = IF IsError(single) THEN single ELSE IF wrong THEN bad ELSE e
  BY <1>5, <1>6, <1>7, <1>8 DEF rejectTenantWrite, IsError
<1>10. IsError(bad) /\ ~IsError(w)
  BY <1>5, <1>8 DEF IsError
<1>11. ~IsError(single) /\ ~IsError(e)
  BY <1>9, <1>10
<1>12. QED
  BY <1>5, <1>6, <1>11, SingleTenant, ValuePasses DEF TheOne

(* A list of errors, none of which is one. *)
LEMMA NoneOfThem ==
    ASSUME NEW es, NEW n \in Nat, DOMAIN es = 1 .. n, ~IsError(FirstError(es)), NEW i \in 1 .. n
    PROVE  ~IsError(es[i])
<1>1. NoErrorOf(es)
  BY DEF NoErrorOf, IsError
<1>2. QED
  BY <1>1, NoFirstError DEF IsError

(* Assignments that pass leave rows their tenant. *)
LEMMA SetsPass ==
    ASSUME NEW L, NEW b, DmlIn(L, b), NEW rc, NEW d, TenantsOf(rc, b, d), NEW sets \in Seq(Written(L)),
           ~IsError(rejectTenantSets(rc, b, sets))
    PROVE  KeepTenants(sets, d, Ids(b))
<1>1. PICK m \in Nat : m = Len(sets) /\ DOMAIN sets = 1 .. m
  BY LenProperties
<1>2. PICK es : es = [i \in DOMAIN sets |-> rejectTenantWrite(rc, b, sets[i])]
  OBVIOUS
<1>3. ~IsError(FirstError(es))
  <2>1. PICK bad, e : bad = "tenant repeated" /\ e = FirstError(es)
    OBVIOUS
  <2>2. IsError(bad)
    BY <2>1 DEF IsError
  <2>3. PICK rep : rep = repeatedTenantColumn(rc, b, sets)
    OBVIOUS
  <2>4. rejectTenantSets(rc, b, sets) = IF rep THEN bad ELSE e
    BY <1>2, <2>1, <2>3 DEF rejectTenantSets
  <2>5. QED
    BY <2>1, <2>2, <2>4
<1>4. DOMAIN es = 1 .. m /\ \A i \in 1 .. m : es[i] = rejectTenantWrite(rc, b, sets[i])
  BY <1>1, <1>2
<1>5. \A i \in 1 .. m : ~IsError(rejectTenantWrite(rc, b, sets[i]))
  BY <1>3, <1>4, NoneOfThem
<1>6. PICK ids : ids = Ids(b)
  OBVIOUS
<1>7. /\ Sequence(b.joins) /\ ~b.untenant /\ Bases[b.table].tenant /\ TenantIDs(rc) = ids /\ rc.d = d
  BY <1>6 DEF TenantsOf, Restricted, DmlIn
<1>8. ASSUME NEW i \in 1 .. m, 2 \in Position(d, sets[i].col)
      PROVE  TheOne(ids, sets[i].v)
  BY <1>5, <1>7, <1>8, WritePasses
<1>9. Sequence(ids)
  BY <1>6, IdsList
<1>10. ASSUME NEW n, SetsRendered(n, sets)
       PROVE  SetsKeep(n.kids, d, ids)
  <2>1. Sequence(n.kids) /\ DOMAIN n.kids = 1 .. m /\ \A i \in 1 .. m : SetRendered(n.kids[i], sets[i])
    BY <1>1, <1>10, SequenceOf DEF SetsRendered
  <2>2. ASSUME NEW i \in 1 .. m, 2 \in Position(d, n.kids[i].a)
        PROVE  \E v : ids = <<v>> /\ Ph(n.kids[i].kids[1], v)
    <3>1. SetRendered(n.kids[i], sets[i])
      BY <2>1
    <3>2. n.kids[i].a = sets[i].col
      BY <3>1 DEF SetRendered
    <3>3. TheOne(ids, sets[i].v)
      BY <1>8, <2>2, <3>2
    <3>4. Ph(n.kids[i].kids[1], ids[1])
      BY <3>1, <3>3 DEF SetRendered, TheOne
    <3>5. PICK v : v = ids[1]
      OBVIOUS
    <3>6. ids = <<v>>
      <4>1. PICK k \in Nat : ids = [j \in 1 .. k |-> ids[j]]
        BY <1>9 DEF Sequence
      <4>2. Len(ids) = 1 /\ DOMAIN ids = 1 .. Len(ids)
        BY <1>9, <3>3, SequenceOf DEF TheOne
      <4>3. ids = [j \in 1 .. 1 |-> ids[j]]
        BY <4>1, <4>2
      <4>4. QED
        BY <3>5, <4>3
    <3>7. QED
      BY <3>4, <3>5, <3>6
  <2>3. QED
    BY <2>1, <2>2 DEF SetsKeep, SetKeeps
<1>11. QED
  BY <1>6, <1>10 DEF KeepTenants

(* The column of soft deletes is not the tenants'. *)
LEMMA DeletedKeeps ==
    ASSUME NEW sets, sets = <<columnValue("del", Val(1))>>, NEW d, NEW ids
    PROVE  KeepTenants(sets, d, ids)
<1>1. PICK del, cv, tid : del = "del" /\ tid = "tid" /\ cv = columnValue(del, Val(1)) /\ del # tid
  OBVIOUS
<1>2. sets = <<cv>>
  BY <1>1
<1>3. Len(sets) = 1 /\ sets[1] = cv /\ cv.col = del
  BY <1>1, <1>2 DEF columnValue
<1>4. 2 \notin Position(d, del)
  <2>1. Cols[2] = tid
    BY <1>1 DEF Cols, TableColumns
  <2>2. Lower(del) = del
    BY <1>1 DEF Lower
  <2>3. QED
    BY <1>1, <2>1, <2>2 DEF Position
<1>5. ASSUME NEW n, SetsRendered(n, sets)
      PROVE  SetsKeep(n.kids, d, ids)
  <2>1. Sequence(n.kids) /\ DOMAIN n.kids = 1 .. 1 /\ SetRendered(n.kids[1], cv)
    BY <1>3, <1>5, SequenceOf DEF SetsRendered
  <2>2. n.kids[1].a = del
    BY <1>3, <2>1 DEF SetRendered
  <2>3. \A i \in DOMAIN n.kids : i = 1
    BY <2>1
  <2>4. QED
    BY <1>4, <2>1, <2>2, <2>3 DEF SetsKeep, SetKeeps
<1>6. QED
  BY <1>5 DEF KeepTenants

-----------------------------------------------------------------------------
(* Statements that leave rows their tenants. *)

SafeFor(b, d, st) ==
    ~IsError(st.err) /\ Bases[b.table].tenant /\ ~b.untenant /\ b.kind # "insertFrom" =>
        IF b.kind = "insert" THEN Inserting(st.n, Ids(b), d)
        ELSE \E prefix : Changing(st.n, prefix, Ids(b), d)

(* What is refused does nothing. *)
LEMMA RefusedSafe ==
    ASSUME NEW b, NEW d, NEW e, IsError(e)
    PROVE  SafeFor(b, d, Refused(e))
  BY RefusedErr DEF SafeFor

(* An UPDATE, or a soft DELETE. *)
LEMMA UpdateSafe ==
    ASSUME NEW h, NEW L, KeepsIn(h, L), RenderRecurses(h, L), NEW b, DmlIn(L, b), b.kind \in {"update", "delete"},
           NEW rc, NEW d, TenantsOf(rc, b, d)
    PROVE  SafeFor(b, d, renderUpdate(h, rc, b))
<1>1. PICK refusal : refusal = UpdateRefusal(rc, b)
  OBVIOUS
<1>2. CASE IsError(refusal)
  <2>1. renderUpdate(h, rc, b) = Refused(refusal)
    BY <1>1, <1>2 DEF renderUpdate, IsError
  <2>2. QED
    BY <1>2, <2>1, RefusedSafe
<1>3. CASE ~IsError(refusal)
  <2>1. PICK sets : sets = UpdateSets(b)
    OBVIOUS
  <2>2. PICK st : st = renderUpdateStatement(h, rc, b, sets)
    OBVIOUS
  <2>3. renderUpdate(h, rc, b) = st
    BY <1>1, <1>3, <2>1, <2>2 DEF renderUpdate, IsError
  <2>4. sets \in Seq(Written(L))
    BY <2>1, UpdateSetsIn
  <2>5. KeepTenants(sets, d, Ids(b)) /\ ~Nothing(sets)
    <3>1. CASE b.kind = "delete"
      <4>1. sets = <<columnValue("del", Val(1))>>
        BY <2>1, <3>1 DEF UpdateSets
      <4>2. ~Nothing(sets)
        BY <4>1 DEF Nothing
      <4>3. QED
        BY <4>1, <4>2, DeletedKeeps
    <3>2. CASE b.kind # "delete"
      <4>1. sets = b.setValues
        BY <2>1, <3>2 DEF UpdateSets
      <4>2. PICK few, e : few = "no sets" /\ e = rejectTenantSets(rc, b, b.setValues)
        OBVIOUS
      <4>3. refusal = IF Nothing(b.setValues) THEN few ELSE e
        BY <1>1, <3>2, <4>2 DEF UpdateRefusal, Nothing
      <4>4. IsError(few)
        BY <4>2 DEF IsError
      <4>5. ~Nothing(b.setValues) /\ ~IsError(e)
        BY <1>3, <4>3, <4>4
      <4>6. QED
        BY <2>4, <4>1, <4>2, <4>5, SetsPass
    <3>3. QED
      BY <3>1, <3>2
  <2>6. CASE IsError(st.err)
    BY <2>3, <2>6 DEF SafeFor
  <2>7. CASE ~IsError(st.err)
    <3>1. IsContext(rc) /\ Restricted(rc, b.table) /\ TenantIDs(rc) = Ids(b)
      BY DEF TenantsOf
    <3>2. Changing(st.n, AsIn(rc, b.table), Ids(b), d)
      BY <2>2, <2>4, <2>5, <2>7, <3>1, UpdateConfined
    <3>3. b.kind # "insert"
      OBVIOUS
    <3>4. QED
      BY <2>3, <3>2, <3>3 DEF SafeFor
  <2>8. QED
    BY <2>6, <2>7
<1>4. QED
  BY <1>2, <1>3

(* A DELETE. *)
LEMMA DeleteSafe ==
    ASSUME NEW h, NEW L, KeepsIn(h, L), RenderRecurses(h, L), NEW b, DmlIn(L, b), b.kind = "delete",
           NEW rc, NEW d, TenantsOf(rc, b, d)
    PROVE  SafeFor(b, d, renderDelete(h, rc, b))
<1>1. PICK st : st = renderDelete(h, rc, b)
  OBVIOUS
<1>2. CASE IsError(st.err)
  BY <1>1, <1>2 DEF SafeFor
<1>3. CASE ~IsError(st.err)
  <2>1. IsContext(rc) /\ Restricted(rc, b.table) /\ TenantIDs(rc) = Ids(b)
    BY DEF TenantsOf
  <2>2. Changing(st.n, AsIn(rc, b.table), Ids(b), d)
    BY <1>1, <1>3, <2>1, DeleteConfined
  <2>3. b.kind # "insert"
    OBVIOUS
  <2>4. QED
    BY <1>1, <2>2, <2>3 DEF SafeFor
<1>4. QED
  BY <1>2, <1>3

-----------------------------------------------------------------------------
(* The statement for a record. *)

(* Its assignments, *)
LEMMA SetsOfIn ==
    ASSUME NEW W, NEW b, NEW row \in Seq(W)
    PROVE  SetsOf(b, row) \in Seq(W)
<1>1. PICK is : is = {i \in DOMAIN row : ~IsKey(b, row[i])}
  OBVIOUS
<1>2. is \in SUBSET DOMAIN row
  BY <1>1
<1>3. SetsOf(b, row) = Chosen(row, is)
  BY <1>1 DEF SetsOf, Filter
<1>4. QED
  BY <1>2, <1>3, ChosenIn

(* the part that has them, *)
LEMMA BatchSets ==
    ASSUME NEW h, NEW L, KeepsIn(h, L), NEW b, NEW row \in Seq(Written(L)), NEW rc, NEW n,
           BatchFrom(h, b, row, rc, "sets", n)
    PROVE  SetsRendered(n, SetsOf(b, row))
<1>1. PICK c : Keeps(rc, c) /\ n = BatchPart(h, b, row, c, "sets").n
  BY DEF BatchFrom
<1>2. PICK sets : sets = SetsOf(b, row)
  OBVIOUS
<1>3. PICK r : r = renderSets(h, c, sets)
  OBVIOUS
<1>4. BatchPart(h, b, row, c, "sets") = r
  BY <1>2, <1>3 DEF BatchPart
<1>5. sets \in Seq(Written(L))
  BY <1>2, SetsOfIn
<1>6. QED
  BY <1>1, <1>2, <1>3, <1>4, <1>5, KeptContext, RenderedSets

(* the keys *)
LEMMA BatchKeys ==
    ASSUME NEW h, NEW b, NEW row, IsList(row), NEW rc, NEW n, BatchFrom(h, b, row, rc, "keys", n)
    PROVE  NotRaw(n)
<1>1. PICK c : Keeps(rc, c) /\ n = BatchPart(h, b, row, c, "keys").n
  BY DEF BatchFrom
<1>2. PICK acc : acc = keyConds(c, b, row)
  OBVIOUS
<1>3. BatchPart(h, b, row, c, "keys") = AsList(acc)
  BY <1>2 DEF BatchPart
<1>4. n = acc.ns
  BY <1>1, <1>3, OutIs DEF AsList
<1>5. QED
  BY <1>1, <1>2, <1>4, KeptContext, RenderedKeys

(* and the rest of its WHERE. *)
LEMMA BatchWhere ==
    ASSUME NEW h, NEW L, KeepsIn(h, L), NEW b, DmlIn(L, b), NEW row, NEW rc, Restricted(rc, b.table), NEW n,
           BatchFrom(h, b, row, rc, "where", n)
    PROVE  Guards(n, AsIn(rc, b.table), TenantIDs(rc))
<1>1. \A c : BatchPart(h, b, row, c, "where") = DmlPart(h, b, row, c, "where")
  BY DEF BatchPart, DmlPart
<1>2. PartFrom(h, b, row, rc, "where", n)
  BY <1>1 DEF BatchFrom, PartFrom
<1>3. QED
  BY <1>2, WherePart

(* Keys come before the conditions. *)
LEMMA KeysGuard ==
    ASSUME NEW keys, NotRaw(keys), NEW where, NEW prefix, NEW ids, Guards(where, prefix, ids),
           NEW all, IsBoth(all, keys, where.kids), NEW n, n = Node("where", 0, all)
    PROVE  Guards(n, prefix, ids)
<1>1. PICK kids : kids = where.kids
  OBVIOUS
<1>2. NotRaw(kids) /\ \E i \in DOMAIN kids : TenantIs(kids[i], prefix, ids)
  BY <1>1 DEF Guards, NotRaw
<1>3. IsBoth(all, keys, kids)
  BY <1>1
<1>4. /\ Sequence(all)
      /\ \A k \in DOMAIN all : (\E i \in DOMAIN keys : all[k] = keys[i]) \/ (\E i \in DOMAIN kids : all[k] = kids[i])
      /\ \A i \in DOMAIN kids : \E k \in DOMAIN all : all[k] = kids[i]
  BY <1>2, <1>3, AfterOthers DEF NotRaw
<1>5. n.t = "where" /\ n.kids = all
  BY DEF Node
<1>6. QED
  BY <1>2, <1>4, <1>5 DEF Guards, NotRaw

(* Its statement leaves rows their tenants. *)
LEMMA BatchSafe ==
    ASSUME NEW h, NEW L, KeepsIn(h, L), NEW id, DmlIn(L, h[id]), h[id].kind = "update", NEW d,
           NEW row \in Seq(Written(L))
    PROVE  SafeFor(h[id], d, BatchStatement(h, id, d, row))
<1>1. PICK b : b = h[id]
  OBVIOUS
<1>2. PICK rc : rc = Begun(h, id, d)
  OBVIOUS
<1>3. PICK st : st = BatchStatement(h, id, d, row)
  OBVIOUS
<1>4. CASE IsError(st.err) \/ ~Bases[b.table].tenant \/ b.untenant
  BY <1>1, <1>3, <1>4 DEF SafeFor
<1>5. CASE ~IsError(st.err) /\ Bases[b.table].tenant /\ ~b.untenant
  <2>1. TenantsOf(rc, b, d)
    BY <1>1, <1>2, <1>5, BegunTenants
  <2>2. PICK acc : acc = BatchPartsOf(h, b, row, rc)
    OBVIOUS
  <2>3. PICK err, n : err = rejectTenantSets(rc, b, SetsOf(b, row)) /\ n = BatchNode(b, acc)
    OBVIOUS
  <2>4. IsStatement(st, err, acc.rc, n)
    <3>1. st = BatchRow(h, b, rc, row)
      BY <1>1, <1>2, <1>3 DEF BatchStatement
    <3>2. st = Batched(err, b, acc)
      BY <2>2, <2>3, <3>1, BatchRowIs
    <3>3. QED
      BY <2>3, <3>2 DEF Batched, IsStatement
  <2>5. ~IsError(err) /\ NoError(acc.rc) /\ st.n = n
    <3>1. st.err = ""
      BY <1>5 DEF IsError
    <3>2. err = "" /\ acc.rc.err = "" /\ st.n = n
      BY <2>4, <3>1, StatementIs
    <3>3. QED
      BY <3>2 DEF IsError, NoError
  <2>6. DmlIn(L, b) /\ IsContext(rc) /\ Restricted(rc, b.table) /\ TenantIDs(rc) = Ids(b)
    BY <1>1, <2>1 DEF TenantsOf
  <2>7. PICK sets, keys, where : sets = acc.ns[1] /\ keys = acc.ns[3] /\ where = acc.ns[4]
    OBVIOUS
  <2>8. /\ BatchFrom(h, b, row, rc, "sets", sets) /\ BatchFrom(h, b, row, rc, "keys", keys)
        /\ BatchFrom(h, b, row, rc, "where", where)
    BY <2>2, <2>5, <2>6, <2>7, BatchPartsFrom
  <2>9. PICK ids, prefix : ids = Ids(b) /\ prefix = AsIn(rc, b.table)
    OBVIOUS
  <2>10. KidFine(sets, prefix, ids, d)
    <3>1. SetsRendered(sets, SetsOf(b, row))
      BY <2>8, BatchSets
    <3>2. SetsOf(b, row) \in Seq(Written(L))
      BY SetsOfIn
    <3>3. KeepTenants(SetsOf(b, row), d, ids)
      BY <2>1, <2>3, <2>5, <2>6, <2>9, <3>2, SetsPass
    <3>4. QED
      BY <3>1, <3>3 DEF KeepTenants, KidFine, SetsRendered
  <2>11. NotRaw(keys)
    <3>1. IsList(row)
      BY LenProperties DEF IsList
    <3>2. QED
      BY <2>8, <3>1, BatchKeys
  <2>12. Guards(where, prefix, ids)
    BY <2>6, <2>8, <2>9, BatchWhere
  <2>13. PICK all : IsBoth(all, keys, where.kids)
    BY DEF IsBoth
  <2>14. PICK name : name = acc.ns[2]
    OBVIOUS
  <2>15. PICK k1, k3 : /\ k1 = Leaf("scan", [name |-> name, base |-> b.table, by |-> acc.rc.path, as |-> name])
                       /\ k3 = Node("where", 0, all)
    OBVIOUS
  <2>16. PICK kids : kids = <<k1, sets, k3>>
    OBVIOUS
  <2>17. n = Node("update", 0, kids)
    BY <2>3, <2>7, <2>13, <2>14, <2>15, <2>16 DEF BatchNode, IsBoth
  <2>18. Guards(k3, prefix, ids)
    BY <2>11, <2>12, <2>13, <2>15, KeysGuard
  <2>19. KidFine(k3, prefix, ids, d) /\ k3.t = "where"
    BY <2>18 DEF Guards, KidFine
  <2>20. KidFine(k1, prefix, ids, d) /\ k1.t = "scan"
    BY <2>15 DEF KidFine, Leaf, Node
  <2>21. KidsFine(kids, prefix, ids, d)
    <3>1. /\ Sequence(kids) /\ Len(kids) > 0 /\ DOMAIN kids = 1 .. 3
          /\ kids[1] = k1 /\ kids[2] = sets /\ kids[3] = k3
      <4>1. kids = [i \in 1 .. 3 |-> kids[i]] /\ Len(kids) = 3
        BY <2>16
      <4>2. QED
        BY <2>16, <4>1 DEF Sequence
    <3>2. \A i \in DOMAIN kids : i = 1 \/ i = 2 \/ i = 3
      BY <3>1
    <3>3. NoMoreTables(kids)
      <4>1. SetsRendered(sets, SetsOf(b, row))
        BY <2>8, BatchSets
      <4>2. sets.t = "sets"
        BY <4>1 DEF SetsRendered
      <4>3. QED
        BY <2>19, <2>20, <3>1, <3>2, <4>2 DEF NoMoreTables
    <3>4. 3 \in DOMAIN kids
      BY <3>1
    <3>5. QED
      BY <2>10, <2>19, <2>20, <3>1, <3>2, <3>3, <3>4 DEF KidsFine
  <2>22. n.t = "update" /\ n.kids = kids
    BY <2>17 DEF Node
  <2>23. Changing(n, prefix, ids, d)
    BY <2>21, <2>22, FineChanges
  <2>24. b.kind # "insert"
    BY <1>1
  <2>25. QED
    BY <1>1, <1>3, <2>5, <2>9, <2>23, <2>24 DEF SafeFor
<1>6. QED
  BY <1>4, <1>5

-----------------------------------------------------------------------------
(* The rows of an INSERT. *)

(* Dropping repetitions drops nothing else. *)
HasAll(x, i, acc) == Sequence(acc) /\ \A k \in 1 .. i : \E j \in DOMAIN acc : acc[j] = x.s[k]
AllFold == INSTANCE FoldLemmas WITH Step <- OnceMore, Inv <- HasAll

(* One column more. *)
LEMMA OneMoreOnce ==
    ASSUME NEW x, NEW i \in Nat, NEW acc, HasAll(x, i, acc), NEW c, c = x.s[i + 1],
           NEW next, next = OnceMore(x, acc, c)
    PROVE  HasAll(x, i + 1, next)
<1>1. \A k \in 1 .. i + 1 : k \in 1 .. i \/ k = i + 1
  OBVIOUS
<1>2. CASE Contains(acc, c)
  <2>1. next = acc
    BY <1>2 DEF OnceMore
  <2>2. \E j \in DOMAIN acc : acc[j] = c
    <3>1. DOMAIN acc = 1 .. Len(acc)
      BY SequenceOf DEF HasAll
    <3>2. QED
      BY <1>2, <3>1 DEF Contains
  <2>3. QED
    BY <1>1, <2>1, <2>2 DEF HasAll
<1>3. CASE ~Contains(acc, c)
  <2>1. next = Append(acc, c)
    BY <1>3 DEF OnceMore
  <2>2. PICK m \in Nat : m = Len(acc) /\ DOMAIN acc = 1 .. m
    BY SequenceOf DEF HasAll
  <2>3. /\ Sequence(next) /\ DOMAIN next = 1 .. m + 1 /\ next[m + 1] = c
        /\ \A j \in 1 .. m : next[j] = acc[j]
    BY <2>1, <2>2, OneMore DEF HasAll
  <2>4. \A k \in 1 .. i : \E j \in 1 .. m : acc[j] = x.s[k]
    BY <2>2 DEF HasAll
  <2>5. ASSUME NEW k \in 1 .. i + 1
        PROVE  \E j \in 1 .. m + 1 : next[j] = x.s[k]
    <3>1. CASE k \in 1 .. i
      <4>1. PICK j \in 1 .. m : acc[j] = x.s[k]
        BY <2>4, <3>1
      <4>2. j \in 1 .. m + 1 /\ next[j] = x.s[k]
        BY <2>3, <4>1
      <4>3. QED
        BY <4>2
    <3>2. CASE k = i + 1
      <4>1. m + 1 \in 1 .. m + 1
        OBVIOUS
      <4>2. QED
        BY <2>3, <3>2, <4>1
    <3>3. QED
      BY <1>1, <3>1, <3>2
  <2>6. QED
    BY <2>3, <2>5 DEF HasAll
<1>4. QED
  BY <1>2, <1>3

(* So every column is still there. *)
LEMMA OnceAll ==
    ASSUME NEW s, Sequence(s)
    PROVE  Sequence(Once(s)) /\ \A i \in DOMAIN s : \E j \in DOMAIN Once(s) : Once(s)[j] = s[i]
<1>1. PICK n \in Nat : DOMAIN s = 1 .. n
  BY SequenceOf
<1>2. PICK x : x = [s |-> s]
  OBVIOUS
<1>3. PICK none : Nothing(none)
  BY DEF Nothing
<1>4. HasAll(x, 0, none)
  BY <1>3, NothingIs DEF HasAll
<1>5. ASSUME NEW i \in 1 .. n, NEW a, HasAll(x, i - 1, a)
      PROVE  HasAll(x, i, OnceMore(x, a, s[i]))
  <2>1. PICK m \in Nat : m = i - 1 /\ i = m + 1
    OBVIOUS
  <2>2. PICK c, next : c = s[i] /\ next = OnceMore(x, a, c)
    OBVIOUS
  <2>3. HasAll(x, m, a) /\ c = x.s[m + 1]
    BY <1>2, <1>5, <2>1, <2>2
  <2>4. HasAll(x, m + 1, next)
    BY <2>2, <2>3, OneMoreOnce
  <2>5. QED
    BY <2>1, <2>2, <2>4
<1>6. HasAll(x, n, AllFold!Folded(x, none, s))
  BY <1>1, <1>4, <1>5, LeastNumber, AllFold!FoldInduction DEF AllFold!LeastNumber
<1>7. Once(s) = AllFold!Folded(x, none, s)
  BY <1>3 DEF Once, AllFold!Folded, OnceMore, FoldLeft, MapThenFoldSet, Max, AllFold!Last, Nothing
<1>8. QED
  BY <1>1, <1>2, <1>6, <1>7 DEF HasAll

(* The columns of an INSERT are those of each of its rows. *)
LEMMA ColumnsOfAll ==
    ASSUME NEW L, NEW b, b.insertRows \in Seq(Seq(Written(L))),
           Len(groupInsertRows(b.insertRows)) <= 1, NEW i \in DOMAIN b.insertRows,
           NEW k \in DOMAIN b.insertRows[i]
    PROVE  \E j \in DOMAIN InsertColumns(b) : InsertColumns(b)[j] = b.insertRows[i][k].col
<1>1. PICK rows : rows = b.insertRows
  OBVIOUS
<1>2. PICK R : R = Seq(Written(L))
  OBVIOUS
<1>3. rows \in Seq(R) /\ Len(groupInsertRows(rows)) <= 1 /\ i \in DOMAIN rows /\ rows # <<>>
  BY <1>1, <1>2
<1>4. 1 \in DOMAIN rows
  <2>1. Len(rows) \in Nat /\ DOMAIN rows = 1 .. Len(rows)
    BY <1>3, LenProperties
  <2>2. QED
    BY <1>3, <2>1
<1>5. PICK row : row = rows[1]
  OBVIOUS
<1>6. PICK n \in Nat : DOMAIN row = 1 .. n
  <2>1. row \in Seq(Written(L))
    BY <1>2, <1>3, <1>4, <1>5, ElementOfSeq
  <2>2. QED
    BY <2>1, LenProperties
<1>7. PICK s : s = ColumnsOf(row)
  OBVIOUS
<1>8. Sequence(s) /\ DOMAIN s = 1 .. n /\ \A l \in 1 .. n : s[l] = row[l].col
  BY <1>6, <1>7 DEF ColumnsOf, Sequence
<1>9. PICK cols : cols = InsertColumns(b)
  OBVIOUS
<1>10. cols = Once(s)
  BY <1>1, <1>3, <1>5, <1>7, <1>9 DEF InsertColumns
<1>11. ColumnSet(rows[i]) = ColumnSet(row)
  BY <1>3, <1>5, EvenRows
<1>12. rows[i][k].col \in DOMAIN ColumnSet(rows[i])
  BY <1>1, ColumnSetIs
<1>13. PICK l \in DOMAIN row : row[l].col = rows[i][k].col
  <2>1. PICK c : c = rows[i][k].col
    OBVIOUS
  <2>2. c \in DOMAIN ColumnSet(row)
    BY <1>11, <1>12, <2>1
  <2>3. DOMAIN ColumnSet(row) = {row[l].col : l \in DOMAIN row}
    BY ColumnSetIs
  <2>4. \E l \in DOMAIN row : row[l].col = c
    BY <2>2, <2>3
  <2>5. QED
    BY <2>1, <2>4
<1>14. \E j \in DOMAIN cols : cols[j] = s[l]
  BY <1>6, <1>8, <1>10, <1>13, OnceAll
<1>15. QED
  BY <1>1, <1>6, <1>8, <1>9, <1>13, <1>14

(* A written column that is the tenant's has its place in the rows. *)
LEMMA TenantPlace ==
    ASSUME NEW rc, NEW c, sameColumn(rc, "tid", c)
    PROVE  2 \in Position(rc.d, c)
<1>1. PICK tid, fold : tid = "tid" /\ fold = LookupDialect(rc.d).fold
  OBVIOUS
<1>2. Cols[2] = tid /\ 2 \in DOMAIN Cols
  BY <1>1 DEF Cols, TableColumns
<1>3. Lower(tid) = tid
  BY <1>1 DEF Lower
<1>4. tid = c \/ (fold /\ tid = Lower(c))
  BY <1>1, <1>3 DEF sameColumn, DialectOf
<1>5. tid = IF fold THEN Lower(c) ELSE c
  BY <1>3, <1>4
<1>6. QED
  BY <1>1, <1>2, <1>5 DEF Position

(* The places of a row where its tenant is written. *)
TenantPlaces(rc, row) == {k \in DOMAIN row : sameColumn(rc, "tid", row[k].col)}

RowCheck(rc, row) ==
    LET tenants == Filter(row, LAMBDA cv : sameColumn(rc, "tid", cv.col))
    IN IF Len(tenants) > 1 THEN "tenant repeated"
       ELSE IF tenants = <<>> THEN "tenant column"
       ELSE TenantValueError(TenantIDs(rc), tenants[1].v)

(* A row that passes has one, with a value that passes. *)
LEMMA RowPasses ==
    ASSUME NEW rc, NEW row, Sequence(row), ~IsError(RowCheck(rc, row))
    PROVE  \E k \in DOMAIN row : /\ TenantPlaces(rc, row) = {k}
                                 /\ ~IsError(TenantValueError(TenantIDs(rc), row[k].v))
<1>1. PICK is : is = TenantPlaces(rc, row)
  OBVIOUS
<1>2. PICK ts : ts = Chosen(row, is)
  OBVIOUS
<1>3. PICK many, no, e : many = "tenant repeated" /\ no = "tenant column"
                         /\ e = TenantValueError(TenantIDs(rc), ts[1].v)
  OBVIOUS
<1>4. RowCheck(rc, row) = IF Len(ts) > 1 THEN many ELSE IF Nothing(ts) THEN no ELSE e
  BY <1>1, <1>2, <1>3 DEF RowCheck, TenantPlaces, Filter, Nothing
<1>5. IsError(many) /\ IsError(no)
  BY <1>3 DEF IsError
<1>6. ~(Len(ts) > 1) /\ ~Nothing(ts) /\ ~IsError(e)
  BY <1>4, <1>5
<1>7. PICK n \in Nat : DOMAIN row = 1 .. n
  BY SequenceOf
<1>8. is \in SUBSET (1 .. n)
  BY <1>1, <1>7 DEF TenantPlaces
<1>9. PICK m \in Nat : m = Cardinality(is)
  BY <1>8, ChosenAre
<1>10. ts = [k \in 1 .. m |-> ts[k]]
  BY <1>2, <1>8, <1>9, ChosenAre
<1>11. /\ \A k \in 1 .. m : \E i \in is : ts[k] = row[i]
       /\ \A i \in is : \A j \in is : UpTo(is, i) = UpTo(is, j) => i = j
       /\ \A i \in is : UpTo(is, i) \in 1 .. m /\ ts[UpTo(is, i)] = row[i]
  <2>1. \A k \in 1 .. m : \E i \in is : ts[k] = row[i]
    BY <1>2, <1>8, <1>9, ChosenAre
  <2>2. \A i \in is : UpTo(is, i) \in 1 .. m /\ ts[UpTo(is, i)] = row[i]
    BY <1>2, <1>8, <1>9, ChosenAre
  <2>3. \A i \in is : \A j \in is : UpTo(is, i) = UpTo(is, j) => i = j
    BY <1>8, NumberOf
  <2>4. QED
    BY <2>1, <2>2, <2>3
<1>12. m = 1
  <2>1. Len(ts) = m
    BY <1>10
  <2>2. m # 0
    <3>1. ASSUME m = 0
          PROVE  Nothing(ts)
      BY <1>10, <3>1 DEF Nothing
    <3>2. QED
      BY <1>6, <3>1
  <2>3. QED
    BY <1>6, <2>1, <2>2
<1>13. PICK i \in is : ts[1] = row[i]
  BY <1>11, <1>12
<1>14. \A j \in is : UpTo(is, j) = 1
  BY <1>11, <1>12
<1>15. is = {i}
  BY <1>11, <1>13, <1>14
<1>16. QED
  BY <1>1, <1>3, <1>6, <1>8, <1>7, <1>13, <1>15

(* The value in place j of a row is one the row writes for that column. *)
LEMMA ValueInOrder ==
    ASSUME NEW row, Sequence(row), NEW cols, OfColumns(row, cols), NEW j \in DOMAIN cols
    PROVE  \E i \in DOMAIN row : row[i].col = cols[j] /\ ValuesInOrder(cols, row)[j] = row[i].v
<1>1. PICK is : is = {i \in DOMAIN row : row[i].col = cols[j]}
  OBVIOUS
<1>2. PICK m \in Nat : DOMAIN row = 1 .. m
  BY SequenceOf
<1>3. is \in SUBSET Nat /\ is # {}
  <2>1. is \subseteq DOMAIN row
    BY <1>1
  <2>2. \E i \in DOMAIN row : row[i].col = cols[j]
    BY DEF OfColumns
  <2>3. is # {}
    BY <1>1, <2>2
  <2>4. QED
    BY <1>2, <2>1, <2>3
<1>4. Min(is) \in is
  BY <1>3, MinOf
<1>5. ValuesInOrder(cols, row)[j] = row[Min(is)].v
  BY <1>1 DEF ValuesInOrder
<1>6. PICK i : i = Min(is)
  OBVIOUS
<1>7. QED
  BY <1>1, <1>4, <1>5, <1>6

(* The columns of a row are all among cols. *)
AllColumns(row, cols) == \A k \in DOMAIN row : \E j \in DOMAIN cols : cols[j] = row[k].col

(* A row that passes is rendered with the tenant in its place. *)
LEMMA RowGuarded ==
    ASSUME NEW rc, NEW row, Sequence(row), ~IsError(RowCheck(rc, row)),
           NEW cols, IsList(cols), OfColumns(row, cols), AllColumns(row, cols),
           NEW n, RowIsOf(n, cols, row)
    PROVE  RowOfOne(n, cols, rc.d, TenantIDs(rc)[1])
<1>1. PICK v : v = TenantIDs(rc)[1]
  OBVIOUS
<1>2. PICK k \in DOMAIN row : /\ TenantPlaces(rc, row) = {k}
                              /\ ~IsError(TenantValueError(TenantIDs(rc), row[k].v))
  BY RowPasses
<1>3. row[k].v.k = "val" /\ row[k].v.a = v
  BY <1>1, <1>2, ValuePasses
<1>4. \A i \in DOMAIN row : sameColumn(rc, "tid", row[i].col) => i = k
  BY <1>2 DEF TenantPlaces
<1>5. sameColumn(rc, "tid", row[k].col)
  BY <1>2 DEF TenantPlaces
<1>6. PICK es : es = ValuesInOrder(cols, row)
  OBVIOUS
<1>7. PICK m \in Nat : DOMAIN cols = 1 .. m
  BY DEF IsList
<1>8. DOMAIN es = 1 .. m /\ Len(es) = m
  BY <1>6, <1>7 DEF ValuesInOrder
<1>9. Sequence(n.kids) /\ Len(n.kids) = m /\ PlaceholdersOf(es, n.kids, 0)
  BY <1>6, <1>8 DEF RowIsOf, RowRendered
<1>10. DOMAIN n.kids = 1 .. m
  BY <1>9, SequenceOf
<1>11. ASSUME NEW j \in DOMAIN cols, 2 \in Position(rc.d, cols[j])
       PROVE  j \in DOMAIN n.kids /\ Ph(n.kids[j], v)
  <2>1. PICK i \in DOMAIN row : row[i].col = cols[j] /\ es[j] = row[i].v
    BY <1>6, <1>11, ValueInOrder
  <2>2. sameColumn(rc, "tid", row[i].col)
    BY <1>11, <2>1, TenantColumn
  <2>3. i = k
    BY <1>4, <2>2
  <2>4. es[j].k = "val" /\ es[j].a = v
    BY <1>3, <2>1, <2>3
  <2>5. j \in 1 .. m /\ 0 + j = j
    BY <1>7, <1>11
  <2>6. Ph(n.kids[0 + j], es[j].a)
    BY <1>8, <1>9, <2>4, <2>5 DEF PlaceholdersOf
  <2>7. QED
    BY <1>10, <2>4, <2>5, <2>6
<1>12. PICK j \in DOMAIN cols : cols[j] = row[k].col
  BY DEF AllColumns
<1>13. 2 \in Position(rc.d, cols[j])
  BY <1>5, <1>12, TenantPlace
<1>14. QED
  BY <1>1, <1>11, <1>12, <1>13 DEF RowOfOne

-----------------------------------------------------------------------------
(* What an INSERT that is not refused has passed. *)
Accepted(rc, b) ==
    /\ ~IsError(rejectTenantInsert(rc, b)) /\ ~IsError(rejectTenantUpsert(rc, b))
    /\ Len(groupInsertRows(b.insertRows)) <= 1 /\ DOMAIN b.insertRows # {}

(* InsertRefusal is the first of those that there is. *)
LEMMA InsertAccepted ==
    ASSUME NEW R, NEW rc, NEW b, b.insertRows \in Seq(R), ~IsError(InsertRefusal(rc, b))
    PROVE  Accepted(rc, b)
<1>1. PICK none, no : none = "no rows" /\ no = ""
  OBVIOUS
<1>2. PICK e1, e2, e3, e4, e5 :
        /\ e1 = rejectTenantInsert(rc, b) /\ e2 = rejectTenantUpsert(rc, b)
        /\ e3 = IF b.insertRows = <<>> THEN none ELSE no
        /\ e4 = IF Len(groupInsertRows(b.insertRows)) > 1 THEN "mixed columns" ELSE no
        /\ e5 = IF b.upsert = <<>> THEN no ELSE RenderUpsert(DialectOf(rc), b.upsert[1], InsertColumns(b))
  OBVIOUS
<1>3. PICK es : es = <<e1, e2, e3, e4, e5>>
  OBVIOUS
<1>4. PICK n \in Nat : n = 5
  OBVIOUS
<1>5. DOMAIN es = 1 .. n /\ es[1] = e1 /\ es[2] = e2 /\ es[3] = e3
      /\ 1 \in 1 .. n /\ 2 \in 1 .. n /\ 3 \in 1 .. n
  BY <1>3, <1>4
<1>6. FirstError(es) = InsertRefusal(rc, b)
  BY <1>1, <1>2, <1>3 DEF InsertRefusal
<1>7. ~IsError(e1) /\ ~IsError(e2) /\ ~IsError(e3)
  BY <1>5, <1>6, NoneOfThem
<1>8. IsError(none)
  BY <1>1 DEF IsError
<1>9. ~Nothing(b.insertRows)
  <2>1. ASSUME Nothing(b.insertRows)
        PROVE  e3 = none
    BY <1>2, <2>1 DEF Nothing
  <2>2. QED
    BY <1>7, <1>8, <2>1
<1>10. DOMAIN b.insertRows # {}
  <2>1. PICK rows : rows = b.insertRows
    OBVIOUS
  <2>2. Len(rows) \in Nat /\ DOMAIN rows = 1 .. Len(rows) /\ rows \in Seq(R)
    BY <2>1, LenProperties
  <2>3. ~Nothing(rows)
    BY <1>9, <2>1
  <2>4. Len(rows) # 0
    BY <2>2, <2>3, EmptySeq DEF Nothing
  <2>5. QED
    BY <2>1, <2>2, <2>4
<1>11. Len(groupInsertRows(b.insertRows)) <= 1
  BY RowsTaken DEF Taken, IsError
<1>12. QED
  BY <1>2, <1>7, <1>10, <1>11 DEF Accepted

(* The rows of an INSERT that passes do, for one tenant. *)
LEMMA RowsPass ==
    ASSUME NEW rc, NEW b, Guarded(b), Sequence(b.insertRows), ~IsError(rejectTenantInsert(rc, b))
    PROVE  /\ Len(TenantIDs(rc)) = 1
           /\ \A i \in DOMAIN b.insertRows : ~IsError(RowCheck(rc, b.insertRows[i]))
<1>1. PICK single : single = requireSingleTenant(rc)
  OBVIOUS
<1>2. PICK es : es = [i \in DOMAIN b.insertRows |-> RowCheck(rc, b.insertRows[i])]
  OBVIOUS
<1>3. PICK e : e = FirstError(es)
  OBVIOUS
<1>4. PICK w : w = rejectTenantInsert(rc, b)
  OBVIOUS
<1>5. w = IF IsError(single) THEN single ELSE e
  BY <1>1, <1>2, <1>3, <1>4 DEF rejectTenantInsert, RowCheck, IsError
<1>6. ~IsError(single) /\ ~IsError(e)
  BY <1>4, <1>5
<1>7. PICK n \in Nat : DOMAIN b.insertRows = 1 .. n
  BY SequenceOf DEF IsList
<1>8. DOMAIN es = 1 .. n /\ \A i \in 1 .. n : es[i] = RowCheck(rc, b.insertRows[i])
  BY <1>2, <1>7
<1>9. \A i \in 1 .. n : ~IsError(RowCheck(rc, b.insertRows[i]))
  BY <1>3, <1>6, <1>8, NoneOfThem
<1>10. Len(TenantIDs(rc)) = 1
  BY <1>1, <1>6, SingleTenant
<1>11. QED
  BY <1>7, <1>9, <1>10

(* A sequence of a library's type is one. *)
LEMMA SeqIs ==
    ASSUME NEW T, NEW s \in Seq(T)
    PROVE  Sequence(s)
<1>1. Len(s) \in Nat /\ s = [i \in 1 .. Len(s) |-> s[i]]
  BY LenProperties
<1>2. QED
  BY <1>1 DEF Sequence

(* A list of one is that one. *)
LEMMA OneOnly ==
    ASSUME NEW ids, Sequence(ids), Len(ids) = 1
    PROVE  \E v : ids = <<v>>
<1>1. PICK k \in Nat : ids = [j \in 1 .. k |-> ids[j]]
  BY DEF Sequence
<1>2. DOMAIN ids = 1 .. 1
  BY SequenceOf
<1>3. ids = [j \in 1 .. 1 |-> ids[j]]
  BY <1>1, <1>2
<1>4. PICK v : v = ids[1]
  OBVIOUS
<1>5. ids = <<v>>
  BY <1>3, <1>4
<1>6. QED
  BY <1>5

(* No column of a row of the one group is missing. *)
LEMMA RowOfAll ==
    ASSUME NEW L, NEW b, b.insertRows \in Seq(Seq(Written(L))),
           Len(groupInsertRows(b.insertRows)) <= 1, NEW i \in DOMAIN b.insertRows
    PROVE  AllColumns(b.insertRows[i], InsertColumns(b))
<1>1. ASSUME NEW k \in DOMAIN b.insertRows[i]
      PROVE  \E j \in DOMAIN InsertColumns(b) : InsertColumns(b)[j] = b.insertRows[i][k].col
  <2>1. PICK c : c = b.insertRows[i][k].col
    OBVIOUS
  <2>2. \E j \in DOMAIN InsertColumns(b) : InsertColumns(b)[j] = c
    BY <1>1, <2>1, ColumnsOfAll
  <2>3. QED
    BY <2>1, <2>2
<1>2. QED
  BY <1>1 DEF AllColumns

(* Each row of the VALUES is of the tenant. *)
OfOneTenant(n, cols, ids, d) ==
    \E v : ids = <<v>> /\ \A k \in DOMAIN n.kids : RowOfOne(n.kids[k], cols, d, v)

(* rejectTenantInsert refused the others. *)
LEMMA ValuesGuarded ==
    ASSUME NEW L, NEW b, DmlIn(L, b), NEW rc, NEW d, TenantsOf(rc, b, d), Accepted(rc, b),
           NEW n, ValuesRendered(n, b)
    PROVE  OfOneTenant(n, InsertColumns(b), Ids(b), d)
<1>1. PICK ids : ids = Ids(b)
  OBVIOUS
<1>2. TenantIDs(rc) = ids /\ rc.d = d /\ Guarded(b)
  BY <1>1 DEF TenantsOf, Restricted, Guarded
<1>3. b.insertRows \in Seq(Seq(Written(L)))
  BY DEF DmlIn
<1>4. Sequence(b.insertRows)
  BY <1>3, SeqIs
<1>5. /\ Len(ids) = 1
      /\ \A i \in DOMAIN b.insertRows : ~IsError(RowCheck(rc, b.insertRows[i]))
  BY <1>2, <1>4, RowsPass DEF Accepted
<1>6. Sequence(ids)
  BY <1>1, IdsList
<1>7. PICK v : ids = <<v>>
  BY <1>5, <1>6, OneOnly
<1>8. PICK cols : cols = InsertColumns(b)
  OBVIOUS
<1>9. Len(groupInsertRows(b.insertRows)) <= 1
  BY DEF Accepted
<1>10. ASSUME NEW k \in DOMAIN n.kids
       PROVE  RowOfOne(n.kids[k], cols, d, v)
  <2>1. PICK i \in DOMAIN b.insertRows : RowIsOf(n.kids[k], cols, b.insertRows[i])
    BY <1>8 DEF ValuesRendered
  <2>2. PICK row : row = b.insertRows[i]
    OBVIOUS
  <2>3. row \in Seq(Written(L))
    BY <1>3, <2>2, ElementOfSeq, LenProperties
  <2>4. Sequence(row)
    BY <2>3, SeqIs
  <2>5. IsList(cols) /\ OfColumns(row, cols)
    BY <1>3, <1>8, <1>9, <2>2, RowsOfColumns
  <2>6. AllColumns(row, cols)
    BY <1>3, <1>8, <1>9, <2>1, <2>2, RowOfAll
  <2>7. ~IsError(RowCheck(rc, row))
    BY <1>5, <2>2
  <2>8. RowOfOne(n.kids[k], cols, rc.d, TenantIDs(rc)[1])
    BY <2>1, <2>2, <2>4, <2>5, <2>6, <2>7, RowGuarded
  <2>9. TenantIDs(rc)[1] = v
    BY <1>2, <1>7
  <2>10. QED
    BY <1>2, <2>8, <2>9
<1>11. QED
  BY <1>1, <1>7, <1>8, <1>10 DEF OfOneTenant

(* The conflict clause of an INSERT, and its assignments. *)
LEMMA UpsertKeeps ==
    ASSUME NEW L, NEW b, DmlIn(L, b), NEW rc, NEW d, TenantsOf(rc, b, d), Accepted(rc, b),
           ConflictOf(b) = "update"
    PROVE  KeepTenants(UpsertSets(b), d, Ids(b))
<1>1. PICK none, nothing, update : none = "none" /\ nothing = "nothing" /\ update = "update"
  OBVIOUS
<1>2. none # update /\ nothing # update
  BY <1>1
<1>3. ConflictOf(b) = IF b.upsert = <<>> THEN none ELSE IF b.upsert[1].nothing THEN nothing ELSE update
  BY <1>1 DEF ConflictOf
<1>4. ~(b.upsert = <<>>)
  BY <1>1, <1>2, <1>3
<1>5. PICK u : u = b.upsert[1]
  OBVIOUS
<1>6. ~u.nothing
  BY <1>1, <1>2, <1>3, <1>4, <1>5
<1>7. PICK sets : sets = UpsertSets(b)
  OBVIOUS
<1>8. sets = Assignments(u.updates)
  BY <1>4, <1>5, <1>6, <1>7 DEF UpsertSets
<1>9. Guarded(b)
  BY DEF TenantsOf, Restricted, Guarded
<1>10. PICK bad, e, w : bad = "tenant conflict target" /\ e = rejectTenantSets(rc, b, sets)
                        /\ w = rejectTenantUpsert(rc, b)
  OBVIOUS
<1>11. w = bad \/ w = e
  BY <1>4, <1>5, <1>6, <1>8, <1>9, <1>10 DEF rejectTenantUpsert
<1>12. IsError(bad) /\ ~IsError(w)
  BY <1>10 DEF IsError, Accepted
<1>13. ~IsError(rejectTenantSets(rc, b, sets))
  BY <1>10, <1>11, <1>12
<1>14. sets \in Seq(Written(L))
  BY <1>7, UpsertSetsIn DEF DmlIn
<1>15. QED
  BY <1>7, <1>13, <1>14, SetsPass

(* RETURNING leaves the parts of an INSERT where they are. *)
LEMMA InsertEnds ==
    ASSUME NEW n, NEW t, NEW a, NEW k1, NEW k2, NEW kids, kids = <<k1, k2>>, HasKids(n, t, a, kids),
           NEW st, Ended(n, st)
    PROVE  st.n.t = t /\ st.n.a = a /\ st.n.kids[1] = k1 /\ st.n.kids[2] = k2
<1>1. PICK m : OneKidMore(st.n, n, m)
  BY DEF Ended
<1>2. PICK more : more = Append(kids, m)
  OBVIOUS
<1>3. n.t = t /\ n.a = a /\ n.kids = kids /\ n = [t |-> n.t, a |-> n.a, kids |-> n.kids]
  BY DEF HasKids, Node
<1>4. PICK next : next = st.n
  OBVIOUS
<1>5. next.t = t /\ next.a = a /\ next.kids = more
  BY <1>1, <1>2, <1>3, <1>4 DEF OneKidMore
<1>6. more[1] = k1 /\ more[2] = k2
  <2>1. Sequence(kids) /\ Len(kids) = 2 /\ kids[1] = k1 /\ kids[2] = k2
    BY DEF HasKids
  <2>2. \A j \in 1 .. 2 : more[j] = kids[j]
    BY <1>2, <2>1, OneMore
  <2>3. QED
    BY <2>1, <2>2
<1>7. QED
  BY <1>4, <1>5, <1>6

(* A conflict clause that keeps the tenants. *)
ClauseKeeps(b, sets, n, d, ids) == ConflictOf(b) = "update" => SetsKeep(n.kids, d, ids)

(* rejectTenantUpsert refused a clause that sets the tenant. *)
LEMMA ConflictKeeps ==
    ASSUME NEW h, NEW L, KeepsIn(h, L), NEW b, DmlIn(L, b), NEW rc, NEW d, TenantsOf(rc, b, d), Accepted(rc, b),
           NEW sets, sets = UpsertSets(b), NEW n, PartFrom(h, b, sets, rc, "sets", n)
    PROVE  ClauseKeeps(b, sets, n, d, Ids(b))
<1>1. ASSUME ConflictOf(b) = "update"
      PROVE  SetsKeep(n.kids, d, Ids(b))
  <2>1. CASE Nothing(sets)
    <3>1. n = Empty
      BY <2>1, NoSetsPart
    <3>2. PICK kids : kids = n.kids
      OBVIOUS
    <3>3. Nothing(kids)
      BY <3>1, <3>2, NoKids DEF Nothing, Empty, Node
    <3>4. Sequence(kids) /\ DOMAIN kids = 1 .. 0
      BY <3>3, NothingIs, SequenceOf
    <3>5. QED
      BY <3>2, <3>4 DEF SetsKeep
  <2>2. CASE ~Nothing(sets)
    <3>1. KeepTenants(sets, d, Ids(b))
      BY <1>1, UpsertKeeps
    <3>2. sets \in Seq(Written(L))
      BY UpsertSetsIn DEF DmlIn
    <3>3. SetsRendered(n, sets)
      BY <2>2, <3>2, SetsPart
    <3>4. QED
      BY <3>1, <3>3 DEF KeepTenants
  <2>3. QED
    BY <2>1, <2>2
<1>2. QED
  BY <1>1 DEF ClauseKeeps

(* The parts of an INSERT make one of the tenant. *)
LEMMA InsertIs ==
    ASSUME NEW b, NEW d, NEW ids, NEW sets, NEW n, n.t = "insert", n.a.columns = InsertColumns(b),
           n.a.conflict = ConflictOf(b), NEW k1, NEW k2, n.kids[1] = k1, n.kids[2] = k2,
           ValuesRendered(k1, b), OfOneTenant(k1, InsertColumns(b), ids, d), ClauseKeeps(b, sets, k2, d, ids)
    PROVE  Inserting(n, ids, d)
<1>1. PICK none, nothing, update : none = "none" /\ nothing = "nothing" /\ update = "update"
  OBVIOUS
<1>2. ConflictOf(b) \in {none, nothing, update}
  BY <1>1 DEF ConflictOf
<1>3. ConflictOf(b) = update => SetsKeep(k2.kids, d, ids)
  BY <1>1 DEF ClauseKeeps
<1>4. ConflictSets(n, ids, d)
  BY <1>1, <1>2, <1>3 DEF ConflictSets
<1>5. k1.t = "values" /\ IsList(k1.kids)
  BY DEF ValuesRendered
<1>6. PICK v : ids = <<v>> /\ \A i \in DOMAIN k1.kids : RowOfOne(k1.kids[i], n.a.columns, d, v)
  BY DEF OfOneTenant
<1>7. QED
  BY <1>4, <1>5, <1>6 DEF Inserting

(* An INSERT. *)
LEMMA InsertSafe ==
    ASSUME NEW h, NEW L, KeepsIn(h, L), NEW b, DmlIn(L, b), b.kind = "insert",
           NEW rc, NEW d, TenantsOf(rc, b, d)
    PROVE  SafeFor(b, d, renderInsert(h, rc, b))
<1>1. PICK refusal : refusal = InsertRefusal(rc, b)
  OBVIOUS
<1>2. CASE IsError(refusal)
  <2>1. renderInsert(h, rc, b) = Refused(refusal)
    BY <1>1, <1>2 DEF renderInsert, IsError
  <2>2. QED
    BY <1>2, <2>1, RefusedSafe
<1>3. CASE ~IsError(refusal)
  <2>1. PICK parts : parts = <<"values", "name", "sets">>
    OBVIOUS
  <2>2. PICK n \in Nat : n = 3
    OBVIOUS
  <2>3. Accepted(rc, b)
    BY <1>1, <1>3, InsertAccepted DEF DmlIn
  <2>4. DOMAIN parts = 1 .. n /\ 1 \in 1 .. n /\ 3 \in 1 .. n /\ parts[1] = "values" /\ parts[3] = "sets"
    BY <2>1, <2>2
  <2>5. \A i \in 1 .. n : PartOf(b, parts[i])
    <3>1. \A i \in 1 .. n : parts[i] \in {"values", "name", "sets"}
      BY <2>1, <2>2
    <3>2. QED
      BY <2>3, <3>1 DEF PartOf, DmlPartNames, Accepted
  <2>6. PICK sets : sets = UpsertSets(b)
    OBVIOUS
  <2>7. sets \in Seq(Written(L))
    BY <2>6, UpsertSetsIn DEF DmlIn
  <2>8. PICK acc : acc = DmlParts(h, b, sets, rc, parts)
    OBVIOUS
  <2>9. IsContext(rc)
    BY DEF TenantsOf
  <2>10. Keeps(rc, acc.rc)
    BY <2>4, <2>5, <2>7, <2>8, <2>9, DmlPartsDone
  <2>11. PICK a, k1, k2 :
           /\ a = [name |-> acc.ns[2], base |-> b.table, columns |-> InsertColumns(b),
                   conflict |-> ConflictOf(b), target |-> IF b.upsert = <<>> THEN <<>> ELSE b.upsert[1].cols]
           /\ k1 = acc.ns[1] /\ k2 = acc.ns[3]
    OBVIOUS
  <2>12. PICK kids, stmt : kids = <<k1, k2>> /\ stmt = InsertNode(b, InsertColumns(b), ConflictOf(b),
            IF b.upsert = <<>> THEN <<>> ELSE b.upsert[1].cols, <<acc.ns[1], acc.ns[3]>>, acc.ns[2])
    OBVIOUS
  <2>13. stmt.n = Node("insert", a, kids)
    BY <2>11, <2>12 DEF InsertNode
  <2>14. HasKids(stmt.n, "insert", a, kids)
    BY <2>12, <2>13, TwoKids
  <2>15. PICK st : st = renderInsert(h, rc, b)
    OBVIOUS
  <2>16. st = Complete(h, b, stmt, acc.rc)
    BY <1>1, <1>3, <2>1, <2>6, <2>8, <2>12, <2>15 DEF renderInsert, Inserted, IsError
  <2>17. IsContext(acc.rc) /\ b.returning \in Seq(L)
    BY <2>10, KeptContext DEF DmlIn
  <2>18. CASE IsError(st.err)
    BY <2>15, <2>18 DEF SafeFor
  <2>19. CASE ~IsError(st.err)
    <3>1. NoError(acc.rc) /\ Ended(stmt.n, st)
      BY <2>16, <2>17, <2>19, CompleteEnds
    <3>2. \A k \in 1 .. n : PartFrom(h, b, sets, rc, parts[k], acc.ns[k])
      BY <2>4, <2>5, <2>7, <2>8, <2>9, <3>1, PartsFrom
    <3>3. PartFrom(h, b, sets, rc, "values", k1) /\ PartFrom(h, b, sets, rc, "sets", k2)
      BY <2>4, <2>11, <3>2
    <3>4. ValuesRendered(k1, b)
      BY <2>3, <3>3, ValuesPart DEF Accepted
    <3>5. PICK ids : ids = Ids(b)
      OBVIOUS
    <3>6. OfOneTenant(k1, InsertColumns(b), ids, d)
      BY <2>3, <3>4, <3>5, ValuesGuarded
    <3>7. ClauseKeeps(b, sets, k2, d, ids)
      BY <2>3, <2>6, <3>3, <3>5, ConflictKeeps
    <3>8. st.n.t = "insert" /\ st.n.a = a /\ st.n.kids[1] = k1 /\ st.n.kids[2] = k2
      BY <2>12, <2>14, <3>1, InsertEnds
    <3>9. a.columns = InsertColumns(b) /\ a.conflict = ConflictOf(b)
      BY <2>11
    <3>10. Inserting(st.n, ids, d)
      BY <3>4, <3>6, <3>7, <3>8, <3>9, InsertIs
    <3>11. QED
      BY <2>15, <3>5, <3>10 DEF SafeFor
  <2>20. QED
    BY <2>18, <2>19
<1>4. QED
  BY <1>2, <1>3

(* A statement of another table, or of none, is no matter here. *)
LEMMA NotGuarded ==
    ASSUME NEW b, NEW d, NEW st, b.untenant \/ ~Bases[b.table].tenant \/ b.kind = "insertFrom"
    PROVE  SafeFor(b, d, st)
  BY DEF SafeFor

(* Every statement of tenants leaves rows theirs. *)
LEMMA RenderDmlSafe ==
    ASSUME NEW h, NEW L, KeepsIn(h, L), RenderRecurses(h, L), NEW b, DmlIn(L, b),
           NEW rc, NEW d, TenantsOf(rc, b, d)
    PROVE  SafeFor(b, d, RenderDml(h, rc, b))
<1>1. CASE b.kind = "insert"
  <2>1. RenderDml(h, rc, b) = renderInsert(h, rc, b)
    BY <1>1 DEF RenderDml, SoftDelete
  <2>2. QED
    BY <1>1, <2>1, InsertSafe
<1>2. CASE b.kind = "insertFrom"
  BY <1>2, NotGuarded
<1>3. CASE b.kind = "update" \/ SoftDelete(b)
  <2>1. RenderDml(h, rc, b) = renderUpdate(h, rc, b)
    BY <1>3 DEF RenderDml, SoftDelete
  <2>2. b.kind \in {"update", "delete"}
    BY <1>3 DEF SoftDelete
  <2>3. QED
    BY <2>1, <2>2, UpdateSafe
<1>4. CASE b.kind = "delete" /\ ~SoftDelete(b)
  <2>1. RenderDml(h, rc, b) = renderDelete(h, rc, b)
    BY <1>4 DEF RenderDml
  <2>2. QED
    BY <1>4, <2>1, DeleteSafe
<1>5. QED
  BY <1>1, <1>2, <1>3, <1>4 DEF DmlIn, All

(* So does what a builder renders. *)
LEMMA ToSqlSafe ==
    ASSUME NEW h, NEW L, KeepsIn(h, L), RenderRecurses(h, L), NEW id, DmlIn(L, h[id]), NEW d
    PROVE  SafeFor(h[id], d, ToSqlOf(h, id, d))
<1>1. PICK b : b = h[id]
  OBVIOUS
<1>2. PICK rc : rc = Begun(h, id, d)
  OBVIOUS
<1>3. CASE IsError(b.err)
  <2>1. PICK e : e = b.err
    OBVIOUS
  <2>2. ToSqlOf(h, id, d) = Refused(e)
    BY <1>1, <1>3, <2>1 DEF ToSqlOf, IsError
  <2>3. QED
    BY <1>1, <1>3, <2>1, <2>2, RefusedSafe
<1>4. CASE ~IsError(b.err) /\ b.kind = "update" /\ b.batchUpdateRows # <<>>
  <2>1. PICK e : e = "use Exec"
    OBVIOUS
  <2>2. IsError(e)
    BY <2>1 DEF IsError
  <2>3. ToSqlOf(h, id, d) = Refused(e)
    BY <1>1, <1>4, <2>1 DEF ToSqlOf, IsError
  <2>4. QED
    BY <1>1, <2>2, <2>3, RefusedSafe
<1>5. CASE ~IsError(b.err) /\ ~(b.kind = "update" /\ b.batchUpdateRows # <<>>)
  <2>1. ToSqlOf(h, id, d) = RenderDml(h, rc, b)
    BY <1>1, <1>2, <1>5 DEF ToSqlOf, IsError
  <2>2. CASE b.untenant \/ ~Bases[b.table].tenant
    BY <1>1, <2>2, NotGuarded
  <2>3. CASE ~b.untenant /\ Bases[b.table].tenant
    <3>1. TenantsOf(rc, b, d)
      BY <1>1, <1>2, <2>3, BegunTenants
    <3>2. QED
      BY <1>1, <2>1, <3>1, RenderDmlSafe
  <2>4. QED
    BY <2>2, <2>3
<1>6. QED
  BY <1>3, <1>4, <1>5

(* The rows of a builder are no part of whose they are. *)
LEMMA SameSafe ==
    ASSUME NEW b, NEW c, c.table = b.table, c.untenant = b.untenant, c.kind = b.kind, Ids(c) = Ids(b),
           NEW d, NEW st, SafeFor(c, d, st)
    PROVE  SafeFor(b, d, st)
  BY DEF SafeFor

(* The statement of a chunk is that of a builder with other rows. *)
LEMMA ChunkSafe ==
    ASSUME RenderIsRecursion, NEW E, NEW h, NEW T, NEW rank, DmlHeapOver(E, h, T, rank),
           NEW id \in DOMAIN h, IsDML(h[id]), NEW rows \in Seq(Seq(Written(T))), NEW d
    PROVE  SafeFor(h[id], d, ChunkStatement(h, id, rows, d))
<1>1. PICK b : b = h[id]
  OBVIOUS
<1>2. DmlIn(T, b)
  BY <1>1 DEF DmlHeapOver
<1>3. PICK c : c = [b EXCEPT !.insertRows = rows]
  OBVIOUS
<1>4. DmlIn(T, c)
  BY <1>2, <1>3 DEF DmlIn, DMLFields
<1>5. /\ c.table = b.table /\ c.untenant = b.untenant /\ c.kind = b.kind
      /\ c.hasTenantIDs = b.hasTenantIDs /\ c.tenantIDs = b.tenantIDs /\ c.ctxTenant = b.ctxTenant
  BY <1>2, <1>3 DEF DmlIn, DMLFields
<1>6. Ids(c) = Ids(b)
  BY <1>5 DEF Ids
<1>7. PICK g : g = [h EXCEPT ![id] = c]
  OBVIOUS
<1>8. DmlHeapOver(E, g, T, rank) /\ g[id] = c
  BY <1>4, <1>7, BuilderPut
<1>9. KeepsIn(g, T) /\ RenderRecurses(g, T)
  BY <1>8, HeapKeeps DEF DmlHeapOver, RenderIsRecursion
<1>10. PICK st : st = ToSqlOf(g, id, d)
  OBVIOUS
<1>11. SafeFor(c, d, st)
  BY <1>4, <1>8, <1>9, <1>10, ToSqlSafe
<1>12. g = [h EXCEPT ![id].insertRows = rows]
  BY <1>1, <1>3, <1>7
<1>13. ChunkStatement(h, id, rows, d) = st
  BY <1>10, <1>12 DEF ChunkStatement
<1>14. QED
  BY <1>1, <1>5, <1>6, <1>11, <1>13, SameSafe

-----------------------------------------------------------------------------
(* All the statements of one execution. *)

AllSafe(b, d, stmts) == Sequence(stmts) /\ Len(stmts) > 0 /\ \A i \in DOMAIN stmts : SafeFor(b, d, stmts[i])

(* One statement. *)
LEMMA OneSafe ==
    ASSUME NEW b, NEW d, NEW st, SafeFor(b, d, st)
    PROVE  AllSafe(b, d, <<st>>)
<1>1. PICK n \in Nat : n = 1
  OBVIOUS
<1>2. PICK s : s = <<st>>
  OBVIOUS
<1>3. s = [i \in 1 .. n |-> s[i]] /\ Len(s) = 1 /\ \A i \in DOMAIN s : s[i] = st
  BY <1>1, <1>2
<1>4. AllSafe(b, d, s)
  BY <1>3 DEF AllSafe, Sequence
<1>5. QED
  BY <1>2, <1>4

(* One for each of several. *)
LEMMA SeveralSafe ==
    ASSUME NEW b, NEW d, NEW n \in Nat, n > 0, NEW s, NEW stmts, stmts = [i \in 1 .. n |-> s[i]],
           \A i \in 1 .. n : SafeFor(b, d, s[i])
    PROVE  AllSafe(b, d, stmts)
<1>1. stmts = [i \in 1 .. n |-> stmts[i]] /\ Len(stmts) = n /\ DOMAIN stmts = 1 .. n
  OBVIOUS
<1>2. \A i \in 1 .. n : stmts[i] = s[i]
  OBVIOUS
<1>3. QED
  BY <1>1, <1>2 DEF AllSafe, Sequence

(* A batch update: all the statements, or one error. *)
LEMMA BatchAllSafe ==
    ASSUME NEW h, NEW L, KeepsIn(h, L), NEW id, DmlIn(L, h[id]), h[id].kind = "update", NEW d
    PROVE  AllSafe(h[id], d, renderBatchDML(h, id, d))
<1>1. PICK b : b = h[id]
  OBVIOUS
<1>2. PICK refusal : refusal = BatchRefusal(b)
  OBVIOUS
<1>3. CASE IsError(refusal)
  <2>1. renderBatchDML(h, id, d) = <<Refused(refusal)>>
    BY <1>1, <1>2, <1>3 DEF renderBatchDML, IsError
  <2>2. SafeFor(b, d, Refused(refusal))
    BY <1>3, RefusedSafe
  <2>3. QED
    BY <1>1, <2>1, <2>2, OneSafe
<1>4. CASE ~IsError(refusal)
  <2>1. PICK rows : rows = BatchRows(b)
    OBVIOUS
  <2>2. PICK R : R = Seq(Written(L))
    OBVIOUS
  <2>3. b.batchUpdateRows \in Seq(R)
    BY <1>1, <2>2 DEF DmlIn
  <2>4. rows \in Seq(R)
    BY <2>1, <2>3, BatchRowsIn
  <2>5. BatchTaken(b)
    BY <1>2, <1>4 DEF BatchTaken, IsError
  <2>6. rows # <<>>
    BY <2>1, <2>5, BatchHasRows
  <2>7. /\ Len(rows) \in Nat /\ Len(rows) > 0 /\ DOMAIN rows = 1 .. Len(rows)
        /\ \A i \in 1 .. Len(rows) : rows[i] \in R
    BY SMTT(30), <2>4, <2>6, LenProperties, ElementOfSeq, EmptySeq
  <2>8. PICK n \in Nat : n > 0 /\ DOMAIN rows = 1 .. n /\ \A i \in 1 .. n : rows[i] \in Seq(Written(L))
    BY <2>2, <2>7
  <2>9. PICK s : s = [i \in 1 .. n |-> BatchStatement(h, id, d, rows[i])]
    OBVIOUS
  <2>10. \A i \in 1 .. n : s[i] = BatchStatement(h, id, d, rows[i])
    BY <2>9
  <2>11. \A i \in 1 .. n : SafeFor(b, d, s[i])
    BY <1>1, <2>8, <2>10, BatchSafe
  <2>12. s = [i \in 1 .. n |-> s[i]]
    BY <2>9
  <2>13. AllSafe(b, d, s)
    BY <2>8, <2>11, <2>12, SeveralSafe
  <2>14. renderBatchDML(h, id, d) = AllOrError(s)
    BY <1>1, <1>2, <1>4, <2>1, <2>8, <2>9 DEF renderBatchDML, IsError
  <2>15. PICK err : err = FirstError([i \in DOMAIN s |-> s[i].err])
    OBVIOUS
  <2>16. CASE IsError(err)
    <3>1. AllOrError(s) = <<Refused(err)>>
      BY <2>15, <2>16 DEF AllOrError, IsError
    <3>2. SafeFor(b, d, Refused(err))
      BY <2>16, RefusedSafe
    <3>3. QED
      BY SMTT(30), <1>1, <2>14, <3>1, <3>2, OneSafe
  <2>17. CASE ~IsError(err)
    <3>1. AllOrError(s) = s
      BY <2>15, <2>17 DEF AllOrError, IsError
    <3>2. QED
      BY <1>1, <2>13, <2>14, <3>1
  <2>18. QED
    BY <2>16, <2>17
<1>5. QED
  BY <1>3, <1>4

(* Every statement of an execution leaves rows their tenants. *)
LEMMA StatementsSafe ==
    ASSUME RenderIsRecursion, NEW E, NEW h, DmlHeap(E, h), NEW id \in DOMAIN h, IsDML(h[id]), NEW d
    PROVE  AllSafe(h[id], d, Statements(h, id, d)) /\ AllSafe(h[id], d, readReturning(h, id, d))
<1>1. PICK T, rank : DmlHeapOver(E, h, T, rank)
  BY DEF DmlHeap
<1>2. PICK b : b = h[id]
  OBVIOUS
<1>3. DmlIn(T, b) /\ KeepsIn(h, T) /\ RenderRecurses(h, T)
  BY <1>1, <1>2, HeapKeeps DEF DmlHeapOver, RenderIsRecursion
<1>4. AllSafe(b, d, Statements(h, id, d))
  <2>1. CASE b.err = "" /\ b.kind = "update" /\ b.batchUpdateRows # <<>>
    <3>1. Statements(h, id, d) = renderBatchDML(h, id, d)
      BY <1>2, <2>1 DEF Statements
    <3>2. QED
      BY <1>2, <1>3, <2>1, <3>1, BatchAllSafe
  <2>2. CASE ~(b.err = "" /\ b.kind = "update" /\ b.batchUpdateRows # <<>>)
    <3>1. PICK R, chunks : R = Seq(Written(T)) /\ chunks = Chunks(b)
      OBVIOUS
    <3>2. chunks \in Seq(Seq(R)) /\ chunks # <<>>
      BY <1>3, <3>1, ChunksIn DEF DmlIn
    <3>3. PICK n \in Nat : n > 0 /\ DOMAIN chunks = 1 .. n /\ \A i \in 1 .. n : chunks[i] \in Seq(R)
      <4>1. PICK RR : RR = Seq(R)
        OBVIOUS
      <4>2. chunks \in Seq(RR) /\ chunks # <<>>
        BY <3>2, <4>1
      <4>3. /\ Len(chunks) \in Nat /\ Len(chunks) > 0 /\ DOMAIN chunks = 1 .. Len(chunks)
            /\ \A i \in 1 .. Len(chunks) : chunks[i] \in RR
        BY <4>2, LenProperties, ElementOfSeq, EmptySeq
      <4>4. QED
        BY <4>1, <4>3
    <3>4. PICK s : s = [i \in 1 .. n |-> ChunkStatement(h, id, chunks[i], d)]
      OBVIOUS
    <3>5. \A i \in 1 .. n : SafeFor(b, d, s[i])
      <4>1. \A i \in 1 .. n : s[i] = ChunkStatement(h, id, chunks[i], d)
        BY <3>4
      <4>2. \A i \in 1 .. n : chunks[i] \in Seq(Seq(Written(T)))
        BY <3>1, <3>3
      <4>3. QED
        BY <1>1, <1>2, <4>1, <4>2, ChunkSafe
    <3>6. s = [i \in 1 .. n |-> s[i]]
      BY <3>4
    <3>7. AllSafe(b, d, s)
      BY <3>3, <3>5, <3>6, SeveralSafe
    <3>8. Statements(h, id, d) = s
      BY <1>2, <2>2, <3>1, <3>3, <3>4 DEF Statements, ChunkStatement
    <3>9. QED
      BY <3>7, <3>8
  <2>3. QED
    BY <2>1, <2>2
<1>5. AllSafe(b, d, readReturning(h, id, d))
  <2>1. CASE Len(b.returning) # 1
    <3>1. PICK e : e = "one column"
      OBVIOUS
    <3>2. readReturning(h, id, d) = <<Refused(e)>>
      BY <1>2, <2>1, <3>1 DEF readReturning
    <3>3. IsError(e)
      BY <3>1 DEF IsError
    <3>4. SafeFor(b, d, Refused(e))
      BY <3>3, RefusedSafe
    <3>5. QED
      BY <3>2, <3>4, OneSafe
  <2>2. CASE Len(b.returning) = 1
    <3>1. readReturning(h, id, d) = <<ToSqlOf(h, id, d)>>
      BY <1>2, <2>2 DEF readReturning
    <3>2. SafeFor(b, d, ToSqlOf(h, id, d))
      BY <1>2, <1>3, ToSqlSafe
    <3>3. QED
      BY <3>1, <3>2, OneSafe
  <2>3. QED
    BY <2>1, <2>2
<1>6. QED
  BY <1>2, <1>4, <1>5

-----------------------------------------------------------------------------
(* The executions of statements of tenants. *)

(* What is left of them. *)
LEMMA RestSafe ==
    ASSUME NEW b, NEW d, NEW stmts, AllSafe(b, d, stmts)
    PROVE  SafeFor(b, d, Head(stmts)) /\ (Len(stmts) # 1 => AllSafe(b, d, Tail(stmts)))
<1>1. /\ Sequence(stmts) /\ Len(stmts) > 0 /\ \A i \in DOMAIN stmts : SafeFor(b, d, stmts[i])
  BY DEF AllSafe
<1>2. PICK T : T = {stmts[i] : i \in DOMAIN stmts}
  OBVIOUS
<1>3. PICK n \in Nat : n = Len(stmts) /\ n > 0 /\ DOMAIN stmts = 1 .. n /\ stmts \in Seq(T)
  BY <1>1, <1>2, SequenceOf
<1>4. \A st \in T : SafeFor(b, d, st)
  BY <1>1, <1>2
<1>5. Head(stmts) \in T
  BY <1>3, HeadTailProperties
<1>6. PICK rest : rest = Tail(stmts)
  OBVIOUS
<1>7. rest \in Seq(T) /\ Len(rest) = n - 1
  BY <1>3, <1>6, HeadTailProperties
<1>8. Sequence(rest)
  BY <1>7, ToSequence
<1>9. \A i \in DOMAIN rest : SafeFor(b, d, rest[i])
  <2>1. \A i \in DOMAIN rest : rest[i] \in T
    BY <1>7, ElementOfSeq, LenProperties
  <2>2. QED
    BY <1>4, <2>1
<1>10. Len(stmts) # 1 => AllSafe(b, d, rest)
  BY <1>3, <1>7, <1>8, <1>9 DEF AllSafe
<1>11. QED
  BY <1>4, <1>5, <1>6, <1>10

(* A builder whose rows are its tenants'. *)
OfTenants(b) == Bases[b.table].tenant /\ ~b.untenant /\ b.kind # "insertFrom"
TenantsKept(b, old, next) ==
    OfTenants(b) => IF b.kind = "insert" THEN AllGrown(Ids(b), old, next) ELSE AllShrunk(old, next)

(* Nothing done keeps them, *)
LEMMA KeptAsItWas ==
    ASSUME NEW data, TidTables(data), NEW b
    PROVE  TenantsKept(b, data, data)
<1>1. AllGrown(Ids(b), data, data) /\ AllShrunk(data, data)
  BY AsItWas DEF TidTables, AllGrown, AllShrunk
<1>2. QED
  BY <1>1 DEF TenantsKept

(* one INSERT after another does, *)
LEMMA AllGrownOn ==
    ASSUME NEW ids, NEW a, NEW b, NEW c, TidTables(a), AllGrown(ids, a, b), AllGrown(ids, b, c)
    PROVE  AllGrown(ids, a, c)
<1>1. /\ DOMAIN b = DOMAIN a /\ DOMAIN c = DOMAIN a
      /\ \A t \in DOMAIN a : TidTable(a[t]) /\ TidTable(b[t]) /\ TidTable(c[t])
      /\ \A t \in DOMAIN a : Grown(ids, a[t], b[t]) /\ Grown(ids, b[t], c[t])
  BY DEF AllGrown, TidTables
<1>2. \A t \in DOMAIN a : Grown(ids, a[t], c[t])
  BY <1>1, GrownOn
<1>3. QED
  BY <1>1, <1>2 DEF AllGrown, TidTables

(* and one UPDATE or DELETE after another. *)
LEMMA AllShrunkOn ==
    ASSUME NEW a, NEW b, NEW c, TidTables(a), AllShrunk(a, b), AllShrunk(b, c)
    PROVE  AllShrunk(a, c)
<1>1. /\ DOMAIN b = DOMAIN a /\ DOMAIN c = DOMAIN a
      /\ \A t \in DOMAIN a : TidTable(a[t]) /\ TidTable(b[t]) /\ TidTable(c[t])
      /\ \A t \in DOMAIN a : Shrunk(a[t], b[t]) /\ Shrunk(b[t], c[t])
  BY DEF AllShrunk, TidTables
<1>2. \A t \in DOMAIN a : Shrunk(a[t], c[t])
  BY <1>1, ShrunkOn
<1>3. QED
  BY <1>1, <1>2 DEF AllShrunk, TidTables

(* A statement that is done keeps them too. *)
LEMMA OneMoreDone ==
    ASSUME EvalIsRecursion, AnswersAreLists, NEW b, NEW st, ~IsError(st.err), NEW q, ~q.view,
           SafeFor(b, q.d, st), NEW start, TidTables(start), NEW data, TenantsKept(b, start, data),
           NEW r, r = Apply(data, st.n, q), r.ok
    PROVE  TenantsKept(b, start, r.db)
<1>1. CASE ~OfTenants(b)
  BY <1>1 DEF TenantsKept
<1>2. CASE OfTenants(b) /\ b.kind = "insert"
  <2>1. AllGrown(Ids(b), start, data) /\ TidTables(data)
    BY <1>2 DEF TenantsKept, AllGrown
  <2>2. Inserting(st.n, Ids(b), q.d)
    BY <1>2 DEF SafeFor, OfTenants
  <2>3. AllGrown(Ids(b), data, r.db)
    BY <2>1, <2>2, ApplyGrows
  <2>4. AllGrown(Ids(b), start, r.db)
    BY <2>1, <2>3, AllGrownOn
  <2>5. QED
    BY <1>2, <2>4 DEF TenantsKept
<1>3. CASE OfTenants(b) /\ b.kind # "insert"
  <2>1. AllShrunk(start, data) /\ TidTables(data)
    BY <1>3 DEF TenantsKept, AllShrunk
  <2>2. PICK prefix : Changing(st.n, prefix, Ids(b), q.d)
    BY <1>3 DEF SafeFor, OfTenants
  <2>3. AllShrunk(data, r.db)
    BY <2>1, <2>2, ApplyShrinks
  <2>4. AllShrunk(start, r.db)
    BY <2>1, <2>3, AllShrunkOn
  <2>5. QED
    BY <1>3, <2>4 DEF TenantsKept
<1>4. QED
  BY <1>1, <1>2, <1>3

-----------------------------------------------------------------------------
(* The invariant. *)

(* An execution is for the tenant of its request, keeps the tenants so far, *)
(* and the statements to come will. *)
Tenanted ==
    /\ run.state # "none" => Running.ctxTenant = run.request /\ TenantsKept(Running, run.start, db)
    /\ run.state = "running" => AllSafe(Running, run.d, run.todo)
TenantRun(E) ==
    /\ DmlHeap(E, heap) /\ DOMAIN run = RunFields /\ TidTables(run.start)
    /\ run.state = "none" => db = DB /\ run.start = DB
    /\ Tenanted

(* What it says of the rows of one table, and of all. *)
LEMMA RowsGrown ==
    ASSUME NEW ids, NEW old, NEW rows, TidTable(old), TidTable(rows), Grown(ids, old, rows), NEW i \in DOMAIN rows
    PROVE  IF i <= Len(old) THEN rows[i][2] = old[i][2] ELSE ids = <<rows[i][2]>>
<1>1. Len(old) \in Nat /\ Len(rows) \in Nat /\ i \in 1 .. Len(rows)
  BY SequenceOf DEF TidTable
<1>2. CASE i <= Len(old)
  <2>1. i \in 1 .. Len(old)
    BY <1>1, <1>2
  <2>2. QED
    BY <1>2, <2>1 DEF Grown
<1>3. CASE ~(i <= Len(old))
  <2>1. i \in Len(old) + 1 .. Len(rows)
    BY <1>1, <1>3
  <2>2. QED
    BY <1>3, <2>1 DEF Grown
<1>4. QED
  BY <1>2, <1>3

(* A table that only shrank has each row it still has where it was. *)
LEMMA RowsShrunk ==
    ASSUME NEW old, NEW rows, TidTable(old), TidTable(rows), Shrunk(old, rows), Len(rows) >= Len(old),
           NEW i \in DOMAIN rows
    PROVE  i <= Len(old) /\ rows[i][2] = old[i][2]
<1>1. Len(old) \in Nat /\ Len(rows) \in Nat /\ i \in 1 .. Len(rows)
  BY SequenceOf DEF TidTable
<1>2. Len(rows) = Len(old)
  BY <1>1 DEF Shrunk
<1>3. i \in 1 .. Len(old)
  BY <1>1, <1>2
<1>4. QED
  BY <1>1, <1>2, <1>3 DEF Shrunk

(* The one tenant of a builder is the one given, or that of the request. *)
LEMMA OneTenantIs ==
    ASSUME NEW b, NEW v, Ids(b) = <<v>>, NEW request, b.ctxTenant = request
    PROVE  (IF b.hasTenantIDs THEN b.tenantIDs ELSE <<request>>) = <<v>>
<1>1. PICK none, one, mine : none = <<>> /\ one = <<v>> /\ mine = <<request>>
  OBVIOUS
<1>2. none # one
  <2>1. Len(none) = 0 /\ Len(one) = 1
    BY <1>1
  <2>2. QED
    BY <2>1
<1>3. CASE b.hasTenantIDs
  BY <1>3 DEF Ids
<1>4. CASE ~b.hasTenantIDs
  <2>1. Ids(b) = IF b.ctxTenant # NoTenant THEN mine ELSE none
    BY <1>1, <1>4 DEF Ids
  <2>2. mine = one
    BY <1>2, <1>1, <2>1
  <2>3. QED
    BY <1>1, <1>4, <2>2
<1>5. QED
  BY <1>3, <1>4

(* Rows of a table, old and new, for ids. *)
RowsStay(ids, old, rows) ==
    Len(rows) >= Len(old) => \A i \in DOMAIN rows :
        IF i <= Len(old) THEN rows[i][2] = old[i][2] ELSE ids = <<rows[i][2]>>

(* Whose the rows are is kept in every execution of a builder of tenants. *)
LEMMA KeptStays ==
    ASSUME NEW b, OfTenants(b), NEW request, b.ctxTenant = request,
           NEW old, TidTables(old), NEW next, TenantsKept(b, old, next),
           NEW ids, ids = IF b.hasTenantIDs THEN b.tenantIDs ELSE <<request>>, NEW t \in DOMAIN next
    PROVE  RowsStay(ids, old[t], next[t])
<1>1. CASE b.kind = "insert"
  <2>1. AllGrown(Ids(b), old, next)
    BY <1>1 DEF TenantsKept
  <2>2. /\ TidTable(old[t]) /\ TidTable(next[t]) /\ Grown(Ids(b), old[t], next[t])
    BY <2>1 DEF AllGrown, TidTables
  <2>3. ASSUME NEW i \in DOMAIN next[t], ~(i <= Len(old[t]))
        PROVE  ids = <<next[t][i][2]>>
    <3>1. Ids(b) = <<next[t][i][2]>>
      BY <2>2, <2>3, RowsGrown
    <3>2. PICK v : v = next[t][i][2]
      OBVIOUS
    <3>3. ids = <<v>>
      BY <3>1, <3>2, OneTenantIs
    <3>4. QED
      BY <3>2, <3>3
  <2>4. ASSUME NEW i \in DOMAIN next[t], i <= Len(old[t])
        PROVE  next[t][i][2] = old[t][i][2]
    BY <2>2, <2>4, RowsGrown
  <2>5. QED
    BY <2>3, <2>4 DEF RowsStay
<1>2. CASE b.kind # "insert"
  <2>1. AllShrunk(old, next)
    BY <1>2 DEF TenantsKept
  <2>2. TidTable(old[t]) /\ TidTable(next[t]) /\ Shrunk(old[t], next[t])
    BY <2>1 DEF AllShrunk, TidTables
  <2>3. QED
    BY <2>2, RowsShrunk DEF RowsStay
<1>3. QED
  BY <1>1, <1>2

(* The invariant says what is promised. *)
LEMMA TenantRunStays ==
    ASSUME NEW E, TenantRun(E)
    PROVE  TenantsStay
<1>1. PICK b, ids : b = Running /\ ids = IF b.hasTenantIDs THEN b.tenantIDs ELSE <<run.request>>
  OBVIOUS
<1>2. ASSUME OfTenants(b), NEW t \in DOMAIN db
      PROVE  RowsStay(ids, run.start[t], db[t])
  <2>1. CASE run.state = "none"
    <3>1. db = DB /\ run.start = DB /\ TidTable(db[t])
      BY <1>2, <2>1 DEF TenantRun, TidTables
    <3>2. Len(db[t]) \in Nat /\ DOMAIN db[t] = 1 .. Len(db[t])
      BY <3>1, SequenceOf DEF TidTable
    <3>3. QED
      BY <3>1, <3>2 DEF RowsStay
  <2>2. CASE run.state # "none"
    <3>1. TidTables(run.start) /\ b.ctxTenant = run.request /\ TenantsKept(b, run.start, db)
      BY <1>1, <2>2 DEF TenantRun, Tenanted
    <3>2. QED
      BY <1>1, <1>2, <3>1, KeptStays
  <2>3. QED
    BY <2>1, <2>2
<1>3. QED
  BY <1>1, <1>2 DEF TenantsStay, OfTenants, RowsStay

(* An execution starts with statements of its tenants. *)
LEMMA StartTenants ==
    ASSUME RenderIsRecursion, NEW E, TenantRun(E), TidTables(DB), run.state = "none",
           NEW p \in Builders, Exec(p) \/ Value(p)
    PROVE  TenantRun(E)'
<1>1. p \in DOMAIN heap /\ IsDML(heap[p])
  BY DEF Builders
<1>2. PICK T, rank : DmlHeapOver(E, heap, T, rank)
  BY DEF TenantRun, DmlHeap
<1>3. PICK d, t, g, todo :
        /\ Start(p, d, t, todo) /\ g = Stamped(p, t)
        /\ todo = Statements(g, p, d) \/ todo = readReturning(g, p, d)
  BY DEF Exec, Value
<1>4. PICK b : b = [heap[p] EXCEPT !.ctxTenant = t]
  OBVIOUS
<1>5. DmlIn(T, b) /\ b.ctxTenant = t
  <2>1. DmlIn(T, heap[p])
    BY <1>1, <1>2 DEF DmlHeapOver
  <2>2. QED
    BY <1>4, <2>1 DEF DmlIn, DMLFields
<1>6. g = [heap EXCEPT ![p] = b]
  BY <1>3, <1>4 DEF Stamped
<1>7. DmlHeapOver(E, g, T, rank) /\ g[p] = b /\ DOMAIN g = DOMAIN heap
  BY <1>1, <1>2, <1>5, <1>6, BuilderPut
<1>8. DmlHeap(E, g) /\ p \in DOMAIN g /\ IsDML(g[p])
  BY <1>1, <1>5, <1>7, DmlIsDML DEF DmlHeap
<1>9. AllSafe(g[p], d, todo)
  BY <1>3, <1>8, StatementsSafe
<1>10. heap' = g /\ db' = db
  BY <1>3 DEF Start
<1>11. /\ DOMAIN run' = RunFields /\ run'.state = "running" /\ run'.builder = p /\ run'.d = d
       /\ run'.request = t /\ run'.todo = todo /\ run'.start = db
  <2>1. DOMAIN NoRun = RunFields
    BY DEF NoRun, RunFields
  <2>2. run' = [NoRun EXCEPT !.state = "running", !.builder = p, !.d = d, !.request = t,
                             !.todo = todo, !.start = db, !.ideal = db]
    BY <1>3 DEF Start
  <2>3. QED
    BY <2>1, <2>2 DEF RunFields
<1>12. Running' = b
  BY <1>7, <1>10, <1>11 DEF Running
<1>13. db = DB
  BY DEF TenantRun
<1>14. TenantsKept(b, db, db)
  BY <1>13, KeptAsItWas
<1>15. Tenanted'
  BY <1>5, <1>7, <1>9, <1>10, <1>11, <1>12, <1>14 DEF Tenanted
<1>16. QED
  BY <1>8, <1>10, <1>11, <1>13, <1>15 DEF TenantRun

(* A statement that is done keeps them. *)
LEMMA DoneTenants ==
    ASSUME EvalIsRecursion, AnswersAreLists, NEW E, TenantRun(E), run.state = "running", Done
    PROVE  TenantRun(E)'
<1>1. PICK st, q, real, ideal :
        /\ st = Head(run.todo) /\ st.err = "" /\ q = Context(FALSE) /\ real = Apply(db, st.n, q)
        /\ real.ok /\ db' = real.db
        /\ run' = [run EXCEPT !.todo = Tail(@), !.done = @ + 1, !.affected = @ + real.affected,
                              !.ideal = IF ideal.ok THEN ideal.db ELSE @,
                              !.state = IF Len(run.todo) = 1 THEN "done" ELSE @]
        /\ heap' = heap
  BY DEF Done
<1>2. PICK b : b = Running
  OBVIOUS
<1>3. q.d = run.d /\ ~q.view
  BY <1>1 DEF Context
<1>4. /\ AllSafe(b, run.d, run.todo) /\ b.ctxTenant = run.request /\ TenantsKept(b, run.start, db)
      /\ DOMAIN run = RunFields /\ TidTables(run.start)
  BY <1>2 DEF TenantRun, Tenanted
<1>5. SafeFor(b, run.d, st) /\ (Len(run.todo) # 1 => AllSafe(b, run.d, Tail(run.todo)))
  BY <1>1, <1>4, RestSafe
<1>6. /\ DOMAIN run' = RunFields /\ run'.builder = run.builder /\ run'.start = run.start
      /\ run'.d = run.d /\ run'.request = run.request /\ run'.todo = Tail(run.todo)
      /\ run'.state = IF Len(run.todo) = 1 THEN "done" ELSE run.state
  BY <1>1, <1>4 DEF RunFields
<1>7. Running' = b
  BY <1>1, <1>2, <1>6 DEF Running
<1>8. ~IsError(st.err)
  BY <1>1 DEF IsError
<1>9. TenantsKept(b, run.start, real.db)
  BY <1>1, <1>3, <1>4, <1>5, <1>8, OneMoreDone
<1>10. run'.state # "none" /\ (run'.state = "running" => Len(run.todo) # 1)
  BY <1>6
<1>11. Tenanted'
  BY <1>1, <1>4, <1>5, <1>6, <1>7, <1>9, <1>10 DEF Tenanted
<1>12. DmlHeap(E, heap')
  BY <1>1 DEF TenantRun
<1>13. QED
  BY <1>4, <1>6, <1>10, <1>11, <1>12 DEF TenantRun

(* A statement that fails ends the execution where it is. *)
LEMMA FailedTenants ==
    ASSUME NEW E, TenantRun(E), run.state = "running", Failed
    PROVE  TenantRun(E)'
<1>1. PICK none : none = <<>>
  OBVIOUS
<1>2. heap' = heap /\ db' = db /\ run' = [run EXCEPT !.state = "failed", !.todo = none]
  BY <1>1 DEF Failed
<1>3. /\ DOMAIN run' = RunFields /\ run'.builder = run.builder /\ run'.start = run.start
      /\ run'.request = run.request /\ run'.state = "failed"
  BY <1>2 DEF TenantRun, RunFields
<1>4. Running' = Running
  BY <1>2, <1>3 DEF Running
<1>5. Tenanted'
  BY <1>2, <1>3, <1>4 DEF TenantRun, Tenanted
<1>6. QED
  BY <1>2, <1>3, <1>5 DEF TenantRun

(* A row of a tenant table keeps its tenant through every UPDATE, DELETE,   *)
(* upsert and batch update, and every row of an INSERT is of the one tenant *)
(* in force, given for the statement or with its request, whatever the      *)
(* assignments and rows are, in whatever dialect and spelling of columns,   *)
(* however many statements there are and wherever they fail                 *)
(* (dml_render.go, tenant.go, render.go, dml_exec.go).                      *)
THEOREM TenantsAlone ==
    ASSUME RenderIsRecursion, CloneIsRecursion, EvalIsRecursion, AnswersAreLists, TidTables(DB),
           NEW Exprs, InputsOver(Exprs)
    PROVE  Spec => []TenantsStay
<1>1. Init => TenantRun(Exprs)
  <2>1. ASSUME Init
        PROVE  TenantRun(Exprs)
    <3>1. DmlHeap(Exprs, heap)
      BY <2>1 DEF Init, InputsOver
    <3>2. db = DB /\ run = NoRun
      BY <2>1 DEF Init
    <3>3. DOMAIN run = RunFields /\ run.state = "none" /\ run.start = DB
      BY <3>2 DEF NoRun, RunFields
    <3>4. QED
      BY <3>1, <3>2, <3>3 DEF TenantRun, Tenanted
  <2>2. QED
    BY <2>1
<1>2. TenantRun(Exprs) /\ [Next]_vars => TenantRun(Exprs)'
  <2>1. SUFFICES ASSUME TenantRun(Exprs), [Next]_vars
                 PROVE  TenantRun(Exprs)'
    OBVIOUS
  <2>2. CASE UNCHANGED vars
    BY <2>1, <2>2 DEF vars, TenantRun, Tenanted, Running
  <2>3. ASSUME run.state = "none", NEW p \in Builders, Build(p)
        PROVE  TenantRun(Exprs)'
    <3>1. DmlHeap(Exprs, heap') /\ db' = db /\ run' = run
      BY <2>1, <2>3, BuildKeeps DEF InputsOver, TenantRun
    <3>2. DOMAIN run = RunFields /\ db = DB /\ run.start = DB /\ TidTables(run.start)
      BY <2>1, <2>3 DEF TenantRun
    <3>3. Tenanted'
      BY <2>3, <3>1 DEF Tenanted
    <3>4. QED
      BY <3>1, <3>2, <3>3 DEF TenantRun
  <2>4. ASSUME run.state = "none", NEW p \in Builders, Exec(p) \/ Value(p)
        PROVE  TenantRun(Exprs)'
    BY <2>1, <2>4, StartTenants
  <2>5. CASE run.state = "running" /\ Done
    BY <2>1, <2>5, DoneTenants
  <2>6. CASE run.state = "running" /\ Failed
    BY <2>1, <2>6, FailedTenants
  <2>7. QED
    BY <2>1, <2>2, <2>3, <2>4, <2>5, <2>6 DEF Next
<1>3. TenantRun(Exprs) => TenantsStay
  BY TenantRunStays
<1>4. QED
  BY <1>1, <1>2, <1>3, PTL DEF Spec

=============================================================================

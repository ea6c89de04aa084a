------------------------------ MODULE QueryProofs ------------------------------
(***************************************************************************)
(* Proofs about what the builders and the database are made of, for every   *)
(* expression and query that ends.  In this order: what rendering leaves of *)
(* the context it is given (Query); what Clone leaves of the heap (Query);  *)
(* the chunks of an INSERT (InsertChunks); and what the database does to    *)
(* the tenants of rows with a statement of tenants' rows (Rows, Changes).   *)
(*                                                                          *)
(* Render, CloneBuilder and Eval are constants that stand for a recursion,  *)
(* so the theorems assume the equations their values satisfy                *)
(* (RenderRecurses, CloneIsRecursion, EvalIsRecursion).  Expressions end    *)
(* when they have ranks.                                                    *)
(*                                                                          *)
(* groupInsertRows is a fold and splitInsertChunks flattens: both are some  *)
(* function that satisfies an equation.  That there is one is shown by a    *)
(* least counterexample; then so is what each row, or each group, adds.     *)
(***************************************************************************)
EXTENDS Changes, SequenceTheorems, FiniteSetTheorems, NaturalsInduction, TLAPS

-----------------------------------------------------------------------------
(* Lists. *)

IsList(s) == \E n \in Nat : DOMAIN s = 1 .. n

(* A set of numbers has a least. *)
LEMMA LeastNumber ==
    ASSUME NEW N \in SUBSET Nat, N # {}
    PROVE  \E n \in N : \A m \in N : n <= m
<1>1. PICK n \in N : \A m \in N : <<m, n>> \notin OpToRel(<, Nat)
  BY NatLessThanWellFounded, WFMin
<1>2. ASSUME NEW m \in N
      PROVE  n <= m
  <2>1. <<m, n>> \notin OpToRel(<, Nat)
    BY <1>1
  <2>2. ~(m < n)
    BY <2>1 DEF OpToRel
  <2>3. QED
    BY <2>2
<1>3. QED
  BY <1>2

(* How many of the places are up to i. *)
UpTo(is, i) == Cardinality({j \in is : j <= i})

(* There are so many of the places, and up to each place fewer or as many.  *)
LEMMA UpToCounts ==
    ASSUME NEW n \in Nat, NEW is \in SUBSET (1 .. n)
    PROVE  /\ IsFiniteSet(is) /\ Cardinality(is) \in Nat
           /\ \A i \in 0 .. n : UpTo(is, i) \in Nat
           /\ UpTo(is, 0) = 0 /\ UpTo(is, n) = Cardinality(is)
           /\ \A i \in 1 .. n : UpTo(is, i) = IF i \in is THEN UpTo(is, i - 1) + 1 ELSE UpTo(is, i - 1)
<1>0. \A j \in is : j \in Int /\ 1 <= j /\ j <= n
  OBVIOUS
<1>1. IsFiniteSet(1 .. n)
  BY FS_Interval
<1>2. ASSUME NEW p \in SUBSET is
      PROVE  IsFiniteSet(p) /\ Cardinality(p) \in Nat
  <2>1. p \in SUBSET (1 .. n)
    OBVIOUS
  <2>2. QED
    BY <1>1, <2>1, FS_Subset, FS_CardinalityType
<1>3. \A i : {j \in is : j <= i} \in SUBSET is
  OBVIOUS
<1>4. UpTo(is, 0) = 0
  <2>1. {j \in is : j <= 0} = {}
    <3>1. \A j \in is : ~(j <= 0)
      BY <1>0
    <3>2. QED
      BY <3>1
  <2>2. QED
    BY <2>1, FS_EmptySet DEF UpTo
<1>5. UpTo(is, n) = Cardinality(is)
  <2>1. {j \in is : j <= n} = is
    BY <1>0
  <2>2. QED
    BY <2>1 DEF UpTo
<1>6. ASSUME NEW i \in 1 .. n
      PROVE  UpTo(is, i) = IF i \in is THEN UpTo(is, i - 1) + 1 ELSE UpTo(is, i - 1)
  <2>1. PICK p : p = {j \in is : j <= i - 1}
    OBVIOUS
  <2>2. p \in SUBSET is /\ i \notin p /\ UpTo(is, i - 1) = Cardinality(p)
    BY <2>1 DEF UpTo
  <2>3. {j \in is : j <= i} = IF i \in is THEN p \cup {i} ELSE p
    <3>1. \A j \in is : j <= i <=> j <= i - 1 \/ j = i
      BY <1>0
    <3>2. QED
      BY <2>1, <3>1
  <2>4. Cardinality(p \cup {i}) = Cardinality(p) + 1
    BY <1>2, <2>2, FS_AddElement
  <2>5. QED
    BY <2>2, <2>3, <2>4 DEF UpTo
<1>7. \A i \in 0 .. n : UpTo(is, i) \in Nat
  BY <1>2, <1>3 DEF UpTo
<1>8. is \in SUBSET is
  OBVIOUS
<1>9. QED
  BY <1>2, <1>4, <1>5, <1>6, <1>7, <1>8

(* It never decreases. *)
LEMMA UpToGrows ==
    ASSUME NEW n \in Nat, NEW is \in SUBSET (1 .. n), NEW i \in 0 .. n, NEW j \in 0 .. n, i <= j
    PROVE  UpTo(is, i) <= UpTo(is, j)
<1>1. PICK p, q : p = {k \in is : k <= i} /\ q = {k \in is : k <= j}
  OBVIOUS
<1>2. p \in SUBSET q
  <2>1. \A k \in is : k \in Int
    OBVIOUS
  <2>2. \A k \in is : k <= i => k <= j
    BY <2>1
  <2>3. QED
    BY <1>1, <2>2
<1>3. q \in SUBSET (1 .. n)
  BY <1>1
<1>4. IsFiniteSet(q)
  <2>1. IsFiniteSet(1 .. n)
    BY FS_Interval
  <2>2. QED
    BY <1>3, <2>1, FS_Subset
<1>5. Cardinality(p) <= Cardinality(q)
  BY <1>2, <1>4, FS_Subset
<1>6. QED
  BY <1>1, <1>5 DEF UpTo

(* The place of the k-th element, and the number of each place. *)
LEMMA PlaceOf ==
    ASSUME NEW n \in Nat, NEW is \in SUBSET (1 .. n), NEW k \in 1 .. Cardinality(is)
    PROVE  \E i \in is : UpTo(is, i) = k
<1> DEFINE Far == {i \in 0 .. n : UpTo(is, i) >= k}
<1>1. Cardinality(is) \in Nat /\ UpTo(is, n) = Cardinality(is) /\ UpTo(is, 0) = 0
  BY UpToCounts
<1>2. n \in Far /\ Far \in SUBSET Nat
  BY <1>1
<1>3. PICK i \in Far : \A j \in Far : i <= j
  <2> HIDE DEF Far
  <2>1. QED
    BY <1>2, LeastNumber
<1>4. i # 0 /\ i \in 0 .. n /\ UpTo(is, i) >= k
  BY <1>1
<1>5. i \in 1 .. n /\ i - 1 \in 0 .. n /\ ~(i <= i - 1)
  BY <1>4
<1>6. i - 1 \notin Far
  BY <1>3, <1>5
<1>7. ~(UpTo(is, i - 1) >= k)
  BY <1>5, <1>6
<1>8. UpTo(is, i) \in Nat /\ UpTo(is, i - 1) \in Nat
      /\ UpTo(is, i) = IF i \in is THEN UpTo(is, i - 1) + 1 ELSE UpTo(is, i - 1)
  BY <1>5, UpToCounts
<1>9. QED
  BY <1>1, <1>4, <1>7, <1>8

(* Each place has a number of its own.                                      *)
LEMMA NumberOf ==
    ASSUME NEW n \in Nat, NEW is \in SUBSET (1 .. n), NEW i \in is
    PROVE  /\ UpTo(is, i) \in 1 .. Cardinality(is)
           /\ \A j \in is : UpTo(is, j) = UpTo(is, i) => j = i
<1>1. ASSUME NEW j \in is, NEW m \in is, j < m
      PROVE  UpTo(is, j) < UpTo(is, m)
  <2>1. j \in 1 .. n /\ m \in 1 .. n /\ m - 1 \in 0 .. n /\ j \in 0 .. n /\ m \in 0 .. n /\ j <= m - 1
    BY <1>1
  <2>2. UpTo(is, j) <= UpTo(is, m - 1)
    BY <2>1, UpToGrows
  <2>3. UpTo(is, m) = UpTo(is, m - 1) + 1 /\ UpTo(is, m - 1) \in Nat /\ UpTo(is, j) \in Nat
    BY <2>1, UpToCounts
  <2>4. QED
    BY <2>2, <2>3
<1>2. i \in 1 .. n /\ i \in 0 .. n /\ n \in 0 .. n /\ i <= n /\ i - 1 \in 0 .. n
  OBVIOUS
<1>3. UpTo(is, i) <= Cardinality(is) /\ UpTo(is, i) = UpTo(is, i - 1) + 1 /\ UpTo(is, i - 1) \in Nat
      /\ Cardinality(is) \in Nat
  <2>1. UpTo(is, i) <= UpTo(is, n)
    BY <1>2, UpToGrows
  <2>2. UpTo(is, n) = Cardinality(is) /\ Cardinality(is) \in Nat /\ UpTo(is, i - 1) \in Nat
        /\ UpTo(is, i) = UpTo(is, i - 1) + 1
    BY <1>2, UpToCounts
  <2>3. QED
    BY <2>1, <2>2
<1>4. ASSUME NEW j \in is, UpTo(is, j) = UpTo(is, i)
      PROVE  j = i
  <2>1. ~(j < i) /\ ~(i < j)
    BY <1>1, <1>3, <1>4
  <2>2. QED
    BY <2>1
<1>5. QED
  BY <1>3, <1>4

(* The chosen elements are those at the places, in the order of the places. *)
LEMMA ChosenAre ==
    ASSUME NEW n \in Nat, NEW is \in SUBSET (1 .. n), NEW s
    PROVE  /\ Cardinality(is) \in Nat
           /\ DOMAIN Chosen(s, is) = 1 .. Cardinality(is)
           /\ Chosen(s, is) = [k \in 1 .. Cardinality(is) |-> Chosen(s, is)[k]]
           /\ \A k \in 1 .. Cardinality(is) : \E i \in is :
                 UpTo(is, i) = k /\ Chosen(s, is)[k] = s[i]
           /\ \A i \in is : /\ UpTo(is, i) \in 1 .. Cardinality(is)
                            /\ Chosen(s, is)[UpTo(is, i)] = s[i]
<1>1. Cardinality(is) \in Nat
  BY UpToCounts
<1>2. ASSUME NEW k \in 1 .. Cardinality(is)
      PROVE  \E i \in is : UpTo(is, i) = k /\ Chosen(s, is)[k] = s[i]
  <2>1. PICK i : i = CHOOSE j \in is : UpTo(is, j) = k
    OBVIOUS
  <2>2. i \in is /\ UpTo(is, i) = k
    BY <2>1, PlaceOf
  <2>3. Chosen(s, is)[k] = s[i]
    BY <2>1 DEF Chosen, UpTo
  <2>4. QED
    BY <2>2, <2>3
<1>3. ASSUME NEW i \in is
      PROVE  UpTo(is, i) \in 1 .. Cardinality(is) /\ Chosen(s, is)[UpTo(is, i)] = s[i]
  <2>1. UpTo(is, i) \in 1 .. Cardinality(is)
    BY NumberOf
  <2>2. PICK j \in is : UpTo(is, j) = UpTo(is, i) /\ Chosen(s, is)[UpTo(is, i)] = s[j]
    BY <1>2, <2>1
  <2>3. j = i
    BY <2>2, NumberOf
  <2>4. QED
    BY <2>1, <2>2, <2>3
<1>4. DOMAIN Chosen(s, is) = 1 .. Cardinality(is)
      /\ Chosen(s, is) = [k \in 1 .. Cardinality(is) |-> Chosen(s, is)[k]]
  BY DEF Chosen
<1>5. QED
  BY <1>1, <1>2, <1>3, <1>4

-----------------------------------------------------------------------------
(* Contexts. *)

ContextFields ==
    {"d", "args", "argIndex", "err", "queryShard", "mainTable", "shardNames",
     "tenantHas", "tenantDisabled", "tenantIDs", "path"}

(* The names that are resolved are those the sharding rule gives.           *)
NamesRight(rc) ==
    \A base \in DOMAIN rc.shardNames :
        rc.shardNames[base] = ShardingRule(base, shardValueFor(rc, base))

(* A context while rendering: no name is wrong unless there is an error.    *)
IsContext(rc) ==
    DOMAIN rc = ContextFields /\ IsList(rc.tenantIDs) /\ (rc.err = "" => NamesRight(rc))

(* The query and the tenants in force, which a fragment leaves as they are. *)
SameScope(rc, r) ==
    /\ r.d = rc.d /\ r.path = rc.path
    /\ r.mainTable = rc.mainTable /\ r.queryShard = rc.queryShard
    /\ r.tenantHas = rc.tenantHas /\ r.tenantDisabled = rc.tenantDisabled
    /\ r.tenantIDs = rc.tenantIDs

(* What a renderer leaves of a context: its scope, and its error.           *)
Keeps(rc, r) == IsContext(r) /\ SameScope(rc, r) /\ (rc.err # "" => r.err = rc.err)

(* A context keeps what it has,                                             *)
LEMMA KeepsSelf ==
    ASSUME NEW rc, IsContext(rc)
    PROVE  Keeps(rc, rc)
  BY DEF Keeps, SameScope

(* and what is kept twice is kept.                                          *)
LEMMA KeepsOn ==
    ASSUME NEW p, NEW q, NEW r, Keeps(p, q), Keeps(q, r)
    PROVE  Keeps(p, r)
  BY DEF Keeps, SameScope

(* What is left is a context, without an error only if there was none before. *)
LEMMA KeptContext ==
    ASSUME NEW rc, NEW r, Keeps(rc, r)
    PROVE  IsContext(r) /\ (r.err = "" => rc.err = "")
  BY DEF Keeps

(* An error is added, or the one there is stays. *)
LEMMA FailKeeps ==
    ASSUME NEW rc, IsContext(rc), NEW e, e # ""
    PROVE  Keeps(rc, Fail(rc, e)) /\ Fail(rc, e).err # ""
<1>1. CASE rc.err = ""
  <2>1. PICK r : r = [rc EXCEPT !.err = e]
    OBVIOUS
  <2>2. DOMAIN r = ContextFields /\ r.err = e /\ SameScope(rc, r)
    BY <2>1 DEF IsContext, ContextFields, SameScope
  <2>3. Keeps(rc, r)
    BY <1>1, <2>2 DEF Keeps, IsContext, SameScope
  <2>4. QED
    BY <1>1, <2>1, <2>2, <2>3 DEF Fail
<1>2. CASE rc.err # ""
  BY <1>2, KeepsSelf DEF Fail
<1>3. QED
  BY <1>1, <1>2

(* A context with the same names and the same error. *)
SameNames(rc, r) ==
    DOMAIN r = ContextFields /\ SameScope(rc, r) /\ r.err = rc.err /\ r.shardNames = rc.shardNames

(* It keeps the scope.                                                      *)
LEMMA SameNamesKeep ==
    ASSUME NEW rc, IsContext(rc), NEW r, SameNames(rc, r)
    PROVE  Keeps(rc, r)
<1>1. rc.err = "" => NamesRight(r)
  BY DEF SameNames, IsContext, NamesRight, shardValueFor, SameScope
<1>2. QED
  BY <1>1 DEF Keeps, IsContext, SameNames, SameScope

(* An argument more is collected.                                           *)
LEMMA AddArgKeeps ==
    ASSUME NEW rc, IsContext(rc), NEW v
    PROVE  Keeps(rc, AddArg(rc, v).rc)
<1>1. PICK r : r = AddArg(rc, v).rc
  OBVIOUS
<1>2. r = [rc EXCEPT !.args = Append(@, v), !.argIndex = @ + 1]
  BY <1>1 DEF AddArg, Out
<1>3. SameNames(rc, r)
  BY <1>2 DEF SameNames, IsContext, ContextFields, SameScope
<1>4. QED
  BY <1>1, <1>3, SameNamesKeep

(* The name a context gives a table when there is no error. *)
NameIn(rc, base) ==
    IF Bases[base].sharded THEN ShardingRule(base, shardValueFor(rc, base)) ELSE <<Bases[base].table>>

(* Contexts of one scope give a table one name. *)
LEMMA OneName ==
    ASSUME NEW rc, NEW r, Keeps(rc, r), NEW base
    PROVE  NameIn(r, base) = NameIn(rc, base)
  BY DEF Keeps, SameScope, NameIn, shardValueFor

(* A context with one more name. *)
OneMoreName(rc, r, base, name) ==
    /\ DOMAIN r = ContextFields /\ SameScope(rc, r) /\ r.err = rc.err
    /\ base \notin DOMAIN rc.shardNames /\ r.shardNames = PutAt(rc.shardNames, base, name)
    /\ rc.err = "" => name = ShardingRule(base, shardValueFor(rc, base))

(* It keeps the scope.                                                      *)
LEMMA OneMoreNameKeeps ==
    ASSUME NEW rc, IsContext(rc), NEW r, NEW base, NEW name, OneMoreName(rc, r, base, name)
    PROVE  Keeps(rc, r)
<1>1. /\ DOMAIN r.shardNames = DOMAIN rc.shardNames \cup {base}
      /\ r.shardNames[base] = name
      /\ \A b \in DOMAIN rc.shardNames : r.shardNames[b] = rc.shardNames[b]
  BY DEF OneMoreName, PutAt
<1>2. \A b : shardValueFor(r, b) = shardValueFor(rc, b)
  BY DEF OneMoreName, SameScope, shardValueFor
<1>3. rc.err = "" => NamesRight(r)
  BY <1>1, <1>2 DEF IsContext, NamesRight, OneMoreName
<1>4. QED
  BY <1>3 DEF Keeps, IsContext, OneMoreName, SameScope

(* A table is given its name, or there is an error.                         *)
LEMMA ResolveKeeps ==
    ASSUME NEW rc, IsContext(rc), NEW base
    PROVE  /\ Keeps(rc, ResolveTableName(rc, base).rc)
           /\ ResolveTableName(rc, base).rc.err = "" => ResolveTableName(rc, base).name = NameIn(rc, base)
<1> DEFINE r == ResolveTableName(rc, base)
<1>1. CASE ~Bases[base].sharded
  <2>1. r.rc = rc /\ r.name = <<Bases[base].table>>
    BY <1>1 DEF ResolveTableName
  <2>2. QED
    BY <1>1, <2>1, KeepsSelf DEF NameIn
<1>2. CASE Bases[base].sharded /\ base \in DOMAIN rc.shardNames
  <2>1. r.rc = rc /\ r.name = rc.shardNames[base]
    BY <1>2 DEF ResolveTableName
  <2>2. QED
    BY <1>2, <2>1, KeepsSelf DEF NameIn, IsContext, NamesRight
<1>3. CASE Bases[base].sharded /\ base \notin DOMAIN rc.shardNames
  <2>1. PICK v : v = shardValueFor(rc, base)
    OBVIOUS
  <2>2. PICK s : s = ShardName(rc, base, v)
    OBVIOUS
  <2>3. r = [s EXCEPT !.rc.shardNames = PutAt(@, base, s.name)]
    BY <1>3, <2>1, <2>2 DEF ResolveTableName, cacheShardName
  <2>4. PICK c, name : s = [rc |-> c, name |-> name]
    BY <2>2 DEF ShardName
  <2>5. r.rc = [c EXCEPT !.shardNames = PutAt(@, base, name)] /\ r.name = name
    BY <2>3, <2>4
  <2>6. /\ Keeps(rc, s.rc) /\ s.rc.shardNames = rc.shardNames
        /\ s.rc.err = "" => s.name = ShardingRule(base, v)
    <3>1. CASE v \in Shards
      <4>1. s.rc = rc /\ s.name = ShardingRule(base, v)
        BY <2>2, <3>1 DEF ShardName
      <4>2. QED
        BY <4>1, KeepsSelf
    <3>2. CASE v \notin Shards
      <4>1. s.rc = Fail(rc, "shard")
        BY <2>2, <3>2 DEF ShardName
      <4>2. Fail(rc, "shard").shardNames = rc.shardNames
        BY DEF Fail, IsContext, ContextFields
      <4>3. QED
        BY <4>1, <4>2, FailKeeps
    <3>3. QED
      BY <3>1, <3>2
  <2>7. IsContext(s.rc) /\ shardValueFor(s.rc, base) = v
    BY <2>1, <2>6 DEF Keeps, SameScope, shardValueFor
  <2>8. Keeps(s.rc, r.rc)
    <3>1. s.rc = c /\ s.name = name
      BY <2>4
    <3>2. PICK q : q = r.rc
      OBVIOUS
    <3>3. q = [c EXCEPT !.shardNames = PutAt(@, base, name)]
      BY <2>5, <3>2
    <3>4. /\ DOMAIN q = ContextFields /\ SameScope(c, q) /\ q.err = c.err
          /\ q.shardNames = PutAt(c.shardNames, base, name)
      BY <2>7, <3>1, <3>3 DEF IsContext, ContextFields, SameScope
    <3>5. base \notin DOMAIN c.shardNames /\ (c.err = "" => name = ShardingRule(base, shardValueFor(c, base)))
      BY <1>3, <2>6, <2>7, <3>1
    <3>6. OneMoreName(c, q, base, name)
      BY <3>4, <3>5 DEF OneMoreName
    <3>7. QED
      BY <2>7, <3>1, <3>2, <3>6, OneMoreNameKeeps
  <2>9. Keeps(rc, r.rc)
    BY <2>6, <2>8, KeepsOn
  <2>10. r.rc.err = "" => s.rc.err = ""
    BY <2>8, KeptContext
  <2>11. QED
    BY <1>3, <2>1, <2>4, <2>5, <2>6, <2>9, <2>10 DEF NameIn
<1>4. QED
  BY <1>1, <1>2, <1>3

(* A column is rendered.                                                    *)
LEMMA FieldRenderKeeps ==
    ASSUME NEW rc, IsContext(rc), NEW base, NEW col
    PROVE  Keeps(rc, FieldRender(rc, base, col).rc)
<1>1. FieldRender(rc, base, col).rc = prefixParts(rc, base).rc
  BY DEF FieldRender, Reference, Out
<1>2. Keeps(rc, prefixParts(rc, base).rc)
  BY ResolveKeeps, KeepsSelf DEF prefixParts
<1>3. QED
  BY <1>1, <1>2

-----------------------------------------------------------------------------
(* Predicates and lists of expressions. *)

(* What is said of a fold of renderers: the context it has come to.         *)
KeptSoFar(x, i, acc) == Keeps(x.rc, acc.rc)

PushArg(x, acc, v) == Push(acc, AddArg(acc.rc, v))
ArgFold == INSTANCE FoldLemmas WITH Step <- PushArg, Inv <- KeptSoFar

(* Arguments are collected.                                                 *)
LEMMA AddArgsKeep ==
    ASSUME NEW acc, IsContext(acc.rc), NEW n \in Nat, NEW vs, DOMAIN vs = 1 .. n
    PROVE  Keeps(acc.rc, AddArgs(acc, vs).rc)
<1>1. PICK x : x = [rc |-> acc.rc]
  OBVIOUS
<1>2. KeptSoFar(x, 0, acc)
  BY <1>1, KeepsSelf DEF KeptSoFar
<1>3. ASSUME NEW i \in 1 .. n, NEW a, KeptSoFar(x, i - 1, a)
      PROVE  KeptSoFar(x, i, PushArg(x, a, vs[i]))
  <2>1. PushArg(x, a, vs[i]).rc = AddArg(a.rc, vs[i]).rc
    BY DEF PushArg, Push
  <2>2. Keeps(x.rc, a.rc) /\ IsContext(a.rc)
    BY <1>3, KeptContext DEF KeptSoFar
  <2>3. Keeps(x.rc, AddArg(a.rc, vs[i]).rc)
    BY <2>2, AddArgKeeps, KeepsOn
  <2>4. QED
    BY <2>1, <2>3 DEF KeptSoFar
<1>4. KeptSoFar(x, n, ArgFold!Folded(x, acc, vs))
  BY <1>2, <1>3, LeastNumber, ArgFold!FoldInduction DEF ArgFold!LeastNumber
<1>5. AddArgs(acc, vs) = ArgFold!Folded(x, acc, vs)
  BY DEF AddArgs, ArgFold!Folded, PushArg, FoldLeft, MapThenFoldSet, Max, ArgFold!Last
<1>6. QED
  BY <1>1, <1>4, <1>5 DEF KeptSoFar

(* The tenant predicate of a table is rendered,                             *)
LEMMA TenantPredicateKeeps ==
    ASSUME NEW rc, IsContext(rc), NEW t
    PROVE  Keeps(rc, tenantPredicate(rc, t).rc)
<1>1. CASE rc.tenantDisabled \/ ~tenantMarked(t)
  BY <1>1, KeepsSelf DEF tenantPredicate, Out
<1>2. CASE ~(rc.tenantDisabled \/ ~tenantMarked(t)) /\ TenantIDs(rc) = <<>>
  BY <1>2, FailKeeps DEF tenantPredicate, Out
<1>3. CASE /\ ~(rc.tenantDisabled \/ ~tenantMarked(t)) /\ TenantIDs(rc) # <<>>
           /\ \E i \in DOMAIN TenantIDs(rc) : ~CheckTenantValue(TenantIDs(rc)[i])
  BY <1>3, FailKeeps DEF tenantPredicate, Out
<1>4. CASE /\ ~(rc.tenantDisabled \/ ~tenantMarked(t)) /\ TenantIDs(rc) # <<>>
           /\ ~\E i \in DOMAIN TenantIDs(rc) : ~CheckTenantValue(TenantIDs(rc)[i])
  <2>1. PICK acc : acc = Push(Begin(rc), FieldRender(rc, t.id, "tid"))
    OBVIOUS
  <2>2. Keeps(rc, acc.rc)
    BY <2>1, FieldRenderKeeps DEF Push
  <2>3. PICK n \in Nat : DOMAIN TenantIDs(rc) = 1 .. n
    BY <1>4 DEF TenantIDs, IsContext, IsList
  <2>4. Keeps(acc.rc, AddArgs(acc, TenantIDs(rc)).rc)
    BY <2>2, <2>3, KeptContext, AddArgsKeep
  <2>5. tenantPredicate(rc, t).rc = AddArgs(acc, TenantIDs(rc)).rc
    BY <1>4, <2>1 DEF tenantPredicate, AsNode, Out
  <2>6. QED
    BY <2>2, <2>4, <2>5, KeepsOn
<1>5. QED
  BY <1>1, <1>2, <1>3, <1>4

(* and its soft-delete predicate,                                           *)
LEMMA SoftDeleteKeeps ==
    ASSUME NEW rc, IsContext(rc), NEW b, NEW t
    PROVE  Keeps(rc, softDeleteSQL(rc, b, t).rc)
<1>1. Keeps(rc, FieldRender(rc, t.id, "del").rc)
  BY FieldRenderKeeps
<1>2. Keeps(rc, Fail(FieldRender(rc, t.id, "del").rc, "soft delete type"))
  BY <1>1, FailKeeps, KeptContext, KeepsOn
<1>3. Push(Begin(rc), FieldRender(rc, t.id, "del")).rc = FieldRender(rc, t.id, "del").rc
  BY DEF Push
<1>4. QED
  BY <1>1, <1>2, <1>3, KeepsSelf DEF softDeleteSQL, Out, AsNode

(* What the library adds for a table. *)
LEMMA AddTenantKeeps ==
    ASSUME NEW acc, IsContext(acc.rc), NEW t
    PROVE  Keeps(acc.rc, AddTenant(acc, t).rc)
  BY TenantPredicateKeeps DEF AddTenant, Push

(* and both.                                                                *)
LEMMA AutoPredicatesKeep ==
    ASSUME NEW acc, IsContext(acc.rc), NEW b, NEW t
    PROVE  Keeps(acc.rc, AutoPredicates(acc, b, t).rc)
<1>1. Keeps(acc.rc, AddLive(acc, b, t).rc)
  BY SoftDeleteKeeps DEF AddLive, Push
<1>2. Keeps(AddLive(acc, b, t).rc, AddTenant(AddLive(acc, b, t), t).rc)
  BY <1>1, KeptContext, AddTenantKeeps
<1>3. QED
  BY <1>1, <1>2, KeepsOn DEF AutoPredicates

(* The checks that can only fail. *)
LEMMA ChecksKeep ==
    ASSUME NEW rc, IsContext(rc), NEW main, NEW joins, NEW kind
    PROVE  /\ Keeps(rc, checkTenantJoins(rc, main, joins))
           /\ Keeps(rc, joinKeywordSQL(rc, kind))
  BY KeepsSelf, FailKeeps DEF checkTenantJoins, joinKeywordSQL

(* Render keeps contexts for the expressions of L in heap h. *)
KeepsIn(h, L) == \A e \in L : \A rc : IsContext(rc) => Keeps(rc, Render(h, rc, e).rc)

PushValue(x, acc, e) == Push(acc, RenderValue(x.h, acc.rc, e))
ValueFold == INSTANCE FoldLemmas WITH Step <- PushValue, Inv <- KeptSoFar

(* A value or an expression of L is rendered,                               *)
LEMMA RenderValueKeeps ==
    ASSUME NEW h, NEW L, KeepsIn(h, L), NEW rc, IsContext(rc), NEW e \in L
    PROVE  Keeps(rc, RenderValue(h, rc, e).rc)
  BY AddArgKeeps DEF RenderValue, KeepsIn

(* and some of them after others,                                           *)
LEMMA RenderNextKeeps ==
    ASSUME NEW h, NEW L, KeepsIn(h, L), NEW acc, IsContext(acc.rc), NEW es \in Seq(L)
    PROVE  Keeps(acc.rc, RenderNext(h, acc, es).rc)
<1>1. PICK x : x = [rc |-> acc.rc, h |-> h]
  OBVIOUS
<1>2. PICK n \in Nat : DOMAIN es = 1 .. n /\ \A i \in 1 .. n : es[i] \in L
  <2>1. Len(es) \in Nat /\ DOMAIN es = 1 .. Len(es) /\ \A i \in 1 .. Len(es) : es[i] \in L
    BY LenProperties, ElementOfSeq
  <2>2. QED
    BY <2>1
<1>3. KeptSoFar(x, 0, acc)
  BY <1>1, KeepsSelf DEF KeptSoFar
<1>4. ASSUME NEW i \in 1 .. n, NEW a, KeptSoFar(x, i - 1, a)
      PROVE  KeptSoFar(x, i, PushValue(x, a, es[i]))
  <2>1. PushValue(x, a, es[i]).rc = RenderValue(h, a.rc, es[i]).rc
    BY <1>1 DEF PushValue, Push
  <2>2. Keeps(x.rc, a.rc) /\ IsContext(a.rc)
    BY <1>4, KeptContext DEF KeptSoFar
  <2>3. Keeps(x.rc, RenderValue(h, a.rc, es[i]).rc)
    BY <1>2, <2>2, RenderValueKeeps, KeepsOn
  <2>4. QED
    BY <2>1, <2>3 DEF KeptSoFar
<1>5. KeptSoFar(x, n, ValueFold!Folded(x, acc, es))
  BY <1>2, <1>3, <1>4, LeastNumber, ValueFold!FoldInduction DEF ValueFold!LeastNumber
<1>6. RenderNext(h, acc, es) = ValueFold!Folded(x, acc, es)
  BY <1>1 DEF RenderNext, ValueFold!Folded, PushValue, FoldLeft, MapThenFoldSet, Max, ValueFold!Last
<1>7. QED
  BY <1>1, <1>5, <1>6 DEF KeptSoFar

(* and some of them.                                                        *)
LEMMA RenderAllKeeps ==
    ASSUME NEW h, NEW L, KeepsIn(h, L), NEW rc, IsContext(rc), NEW es \in Seq(L)
    PROVE  Keeps(rc, RenderAll(h, rc, es).rc)
<1>1. PICK acc : acc = Begin(rc)
  OBVIOUS
<1>2. acc.rc = rc
  BY <1>1 DEF Begin
<1>3. RenderAll(h, rc, es) = RenderNext(h, acc, es)
  BY <1>1 DEF RenderAll
<1>4. QED
  BY <1>2, <1>3, RenderNextKeeps

-----------------------------------------------------------------------------
(* Tables, joins and the parts of a query. *)

(* A table whose query, if it is one, is among the expressions of L.        *)
TableIn(L, t) == t.k \in {"base", "sub", "cte"} /\ (t.k = "sub" => Sub(t.id) \in L)

(* A table of FROM or JOIN is rendered.                                     *)
LEMMA TableNameKeeps ==
    ASSUME NEW h, NEW L, KeepsIn(h, L), NEW rc, IsContext(rc), NEW t, TableIn(L, t)
    PROVE  Keeps(rc, renderTableName(h, rc, t).rc)
<1>1. CASE t.k = "base"
  <2>1. renderTableName(h, rc, t).rc = ResolveTableName(rc, t.id).rc
    BY <1>1 DEF renderTableName, Scan, Out
  <2>2. QED
    BY <2>1, ResolveKeeps
<1>2. CASE t.k = "sub"
  <2>1. renderTableName(h, rc, t).rc = Render(h, rc, Sub(t.id)).rc
    BY <1>2 DEF renderTableName, Queried, Out
  <2>2. QED
    BY <1>2, <2>1 DEF TableIn, KeepsIn
<1>3. CASE t.k = "cte"
  <2>1. renderTableName(h, rc, t).rc = rc
    BY <1>3 DEF renderTableName, Out
  <2>2. QED
    BY <2>1, KeepsSelf
<1>4. QED
  BY <1>1, <1>2, <1>3 DEF TableIn

JoinIn(L, j) == TableIn(L, j.table) /\ j.on \in Seq(L)

(* Parentheses and clauses change no context. *)
LEMMA ParenthesizedKeeps ==
    ASSUME NEW h, NEW L, KeepsIn(h, L), NEW rc, IsContext(rc), NEW es \in Seq(L)
    PROVE  Keeps(rc, Parenthesized(RenderAll(h, rc, es)).rc)
  BY RenderAllKeeps DEF Parenthesized

(* The predicates of an ON are rendered.                                    *)
LEMMA OnClauseKeeps ==
    ASSUME NEW acc, IsContext(acc.rc), NEW b, NEW j
    PROVE  Keeps(acc.rc, OnClause(b, j, acc).rc)
  BY KeepsSelf, AutoPredicatesKeep DEF OnClause, AsClause, Out

(* A join is rendered: its keyword, its table and its ON,                   *)
LEMMA RenderJoinKeeps ==
    ASSUME NEW h, NEW L, KeepsIn(h, L), NEW rc, IsContext(rc), NEW b, NEW j, JoinIn(L, j)
    PROVE  Keeps(rc, renderJoin(h, rc, b, j).rc)
<1>1. PICK c : c = joinKeywordSQL(rc, j.kind)
  OBVIOUS
<1>2. Keeps(rc, c)
  BY <1>1, ChecksKeep
<1>3. PICK t : t = renderTableName(h, c, j.table)
  OBVIOUS
<1>4. Keeps(c, t.rc)
  BY <1>2, <1>3, KeptContext, TableNameKeeps DEF JoinIn
<1>5. PICK on : on = Parenthesized(RenderAll(h, t.rc, j.on))
  OBVIOUS
<1>6. Keeps(t.rc, on.rc)
  BY <1>4, <1>5, KeptContext, ParenthesizedKeeps DEF JoinIn
<1>7. Keeps(on.rc, OnClause(b, j, on).rc)
  BY <1>6, KeptContext, OnClauseKeeps
<1>8. renderJoin(h, rc, b, j).rc = OnClause(b, j, on).rc
  BY <1>1, <1>3, <1>5 DEF renderJoin, JoinOn, AsNode, Out, Push
<1>9. QED
  BY <1>2, <1>4, <1>6, <1>7, <1>8, KeepsOn

PushJoin(x, acc, j) == Push(acc, renderJoin(x.h, acc.rc, x.b, j))
JoinFold == INSTANCE FoldLemmas WITH Step <- PushJoin, Inv <- KeptSoFar

(* and all joins of a query.                                                *)
LEMMA RenderJoinsKeeps ==
    ASSUME NEW h, NEW L, KeepsIn(h, L), NEW rc, IsContext(rc), NEW b,
           IsList(b.joins), \A i \in DOMAIN b.joins : JoinIn(L, b.joins[i])
    PROVE  Keeps(rc, RenderJoins(h, rc, b).rc)
<1>1. PICK x : x = [rc |-> rc, h |-> h, b |-> b]
  OBVIOUS
<1>2. PICK n \in Nat : DOMAIN b.joins = 1 .. n
  BY DEF IsList
<1>3. KeptSoFar(x, 0, Begin(rc))
  BY <1>1, KeepsSelf DEF KeptSoFar, Begin
<1>4. ASSUME NEW i \in 1 .. n, NEW a, KeptSoFar(x, i - 1, a)
      PROVE  KeptSoFar(x, i, PushJoin(x, a, b.joins[i]))
  <2>1. PushJoin(x, a, b.joins[i]).rc = renderJoin(h, a.rc, b, b.joins[i]).rc
    BY <1>1 DEF PushJoin, Push
  <2>2. Keeps(x.rc, a.rc) /\ IsContext(a.rc)
    BY <1>4, KeptContext DEF KeptSoFar
  <2>3. Keeps(x.rc, renderJoin(h, a.rc, b, b.joins[i]).rc)
    BY <1>2, <2>2, RenderJoinKeeps, KeepsOn
  <2>4. QED
    BY <2>1, <2>3 DEF KeptSoFar
<1>5. KeptSoFar(x, n, JoinFold!Folded(x, Begin(rc), b.joins))
  BY <1>2, <1>3, <1>4, LeastNumber, JoinFold!FoldInduction DEF JoinFold!LeastNumber
<1>6. RenderJoins(h, rc, b) = JoinFold!Folded(x, Begin(rc), b.joins)
  BY <1>1 DEF RenderJoins, JoinFold!Folded, PushJoin, FoldLeft, MapThenFoldSet, Max, JoinFold!Last
<1>7. QED
  BY <1>1, <1>5, <1>6 DEF KeptSoFar

PushQuery(x, acc, q) == Push(acc, Queried(x.t, q.a, Render(x.h, acc.rc, Sub(q.q))))
QueryFold == INSTANCE FoldLemmas WITH Step <- PushQuery, Inv <- KeptSoFar

QueriesIn(L, qs) == IsList(qs) /\ \A i \in DOMAIN qs : Sub(qs[i].q) \in L

(* The queries of a WITH or of set operations are rendered.                 *)
LEMMA RenderQueriesKeeps ==
    ASSUME NEW h, NEW L, KeepsIn(h, L), NEW rc, IsContext(rc), NEW qs, QueriesIn(L, qs), NEW t
    PROVE  Keeps(rc, RenderQueries(h, rc, qs, t).rc)
<1>1. PICK x : x = [rc |-> rc, h |-> h, t |-> t]
  OBVIOUS
<1>2. PICK n \in Nat : DOMAIN qs = 1 .. n
  BY DEF IsList, QueriesIn
<1>3. KeptSoFar(x, 0, Begin(rc))
  BY <1>1, KeepsSelf DEF KeptSoFar, Begin
<1>4. ASSUME NEW i \in 1 .. n, NEW a, KeptSoFar(x, i - 1, a)
      PROVE  KeptSoFar(x, i, PushQuery(x, a, qs[i]))
  <2>1. PushQuery(x, a, qs[i]).rc = Render(h, a.rc, Sub(qs[i].q)).rc
    BY <1>1 DEF PushQuery, Push, Queried, Out
  <2>2. Keeps(x.rc, a.rc) /\ IsContext(a.rc)
    BY <1>4, KeptContext DEF KeptSoFar
  <2>3. Sub(qs[i].q) \in L
    BY <1>2 DEF QueriesIn
  <2>4. Keeps(x.rc, Render(h, a.rc, Sub(qs[i].q)).rc)
    BY <2>2, <2>3, KeepsOn DEF KeepsIn
  <2>5. QED
    BY <2>1, <2>4 DEF KeptSoFar
<1>5. KeptSoFar(x, n, QueryFold!Folded(x, Begin(rc), qs))
  BY <1>2, <1>3, <1>4, LeastNumber, QueryFold!FoldInduction DEF QueryFold!LeastNumber
<1>6. RenderQueries(h, rc, qs, t) = QueryFold!Folded(x, Begin(rc), qs)
  BY <1>1 DEF RenderQueries, QueryFold!Folded, PushQuery, FoldLeft, MapThenFoldSet, Max, QueryFold!Last
<1>7. QED
  BY <1>1, <1>5, <1>6 DEF KeptSoFar

(* Some of a list are a list. *)
LEMMA ChosenListed ==
    ASSUME NEW s, IsList(s), NEW is \in SUBSET DOMAIN s
    PROVE  IsList(Chosen(s, is))
<1>1. PICK n \in Nat : DOMAIN s = 1 .. n
  BY DEF IsList
<1>2. Cardinality(is) \in Nat /\ DOMAIN Chosen(s, is) = 1 .. Cardinality(is)
  BY <1>1, ChosenAre
<1>3. QED
  BY <1>2 DEF IsList

(* The table of a statement with those of some joins. *)
LEMMA TablesListed ==
    ASSUME NEW t, NEW inner, IsList(inner)
    PROVE  IsList(<<t>> \o [i \in DOMAIN inner |-> inner[i].table])
<1>1. PICK m \in Nat : DOMAIN inner = 1 .. m
  BY DEF IsList
<1>2. PICK f : f = [i \in 1 .. m |-> inner[i].table]
  OBVIOUS
<1>3. PICK T : T = {t} \cup {f[i] : i \in 1 .. m}
  OBVIOUS
<1>4. f \in Seq(T) /\ <<t>> \in Seq(T)
  <2>1. f \in [1 .. m -> T]
    BY <1>2, <1>3
  <2>2. f \in Seq(T)
    BY <2>1, IsASeq
  <2>3. t \in T
    BY <1>3
  <2>4. QED
    BY <2>2, <2>3
<1>5. DOMAIN (<<t>> \o f) = 1 .. Len(<<t>> \o f) /\ Len(<<t>> \o f) \in Nat
  BY <1>4, ConcatProperties, LenProperties
<1>6. QED
  BY <1>1, <1>2, <1>5 DEF IsList

AddPredicates(x, acc, t) == AutoPredicates(acc, x.b, t)
PredicateFold == INSTANCE FoldLemmas WITH Step <- AddPredicates, Inv <- KeptSoFar

(* The WHERE is rendered, with the predicates of its tables.                *)
LEMMA RenderWhereKeeps ==
    ASSUME NEW h, NEW L, KeepsIn(h, L), NEW rc, IsContext(rc), NEW b,
           IsList(b.joins), b.conds \in Seq(L)
    PROVE  Keeps(rc, renderWhere(h, rc, b).rc)
<1>1. PICK x : x = [rc |-> rc, b |-> b]
  OBVIOUS
<1>2. PICK is : is = {i \in DOMAIN b.joins : joinSoftDeleteInWhere(b.joins[i].kind)}
  OBVIOUS
<1>3. PICK inner : inner = Chosen(b.joins, is)
  OBVIOUS
<1>4. PICK tables : tables = <<b.from>> \o [i \in DOMAIN inner |-> inner[i].table]
  OBVIOUS
<1>5. PICK n \in Nat : DOMAIN tables = 1 .. n
  <2>1. is \in SUBSET DOMAIN b.joins
    BY <1>2
  <2>2. IsList(inner)
    BY <1>3, <2>1, ChosenListed
  <2>3. IsList(tables)
    BY <1>4, <2>2, TablesListed
  <2>4. QED
    BY <2>3 DEF IsList
<1>6. PICK acc : acc = Parenthesized(RenderAll(h, rc, b.conds))
  OBVIOUS
<1>7. KeptSoFar(x, 0, acc)
  BY <1>1, <1>6, ParenthesizedKeeps DEF KeptSoFar
<1>8. ASSUME NEW i \in 1 .. n, NEW a, KeptSoFar(x, i - 1, a)
      PROVE  KeptSoFar(x, i, AddPredicates(x, a, tables[i]))
  <2>1. Keeps(x.rc, a.rc) /\ IsContext(a.rc)
    BY <1>8, KeptContext DEF KeptSoFar
  <2>2. Keeps(x.rc, AutoPredicates(a, b, tables[i]).rc)
    BY <2>1, AutoPredicatesKeep, KeepsOn
  <2>3. QED
    BY <1>1, <2>2 DEF KeptSoFar, AddPredicates
<1>9. KeptSoFar(x, n, PredicateFold!Folded(x, acc, tables))
  BY <1>5, <1>7, <1>8, LeastNumber, PredicateFold!FoldInduction DEF PredicateFold!LeastNumber
<1>10. FoldLeft(LAMBDA a, t : AutoPredicates(a, b, t), acc, tables) = PredicateFold!Folded(x, acc, tables)
  BY <1>1 DEF PredicateFold!Folded, AddPredicates, FoldLeft, MapThenFoldSet, Max, PredicateFold!Last
<1>11. renderWhere(h, rc, b).rc = FoldLeft(LAMBDA a, t : AutoPredicates(a, b, t), acc, tables).rc
  BY <1>2, <1>3, <1>4, <1>6 DEF renderWhere, Filter, AsClause, Out
<1>12. QED
  BY <1>1, <1>9, <1>10, <1>11 DEF KeptSoFar

(* GROUP BY and the lock are rendered.                                      *)
LEMMA GroupAndLockKeep ==
    ASSUME NEW h, NEW L, KeepsIn(h, L), NEW rc, IsContext(rc), NEW b,
           b.groupBy \o FlattenSeq(b.sets) \in Seq(L)
    PROVE  /\ Keeps(rc, renderGroup(h, rc, b).rc)
           /\ Keeps(rc, writeLock(rc, b).rc)
<1>1. Keeps(rc, renderGroup(h, rc, b).rc)
  BY KeepsSelf, RenderAllKeeps DEF renderGroup, AsNode, Out
<1>2. Keeps(rc, writeLock(rc, b).rc)
  BY KeepsSelf, FailKeeps DEF writeLock, Out
<1>3. QED
  BY <1>1, <1>2

-----------------------------------------------------------------------------
(* Queries. *)

(* A query whose parts are made of the expressions of L.                    *)
QueryIn(L, b) ==
    /\ b.fields \in Seq(L) /\ b.conds \in Seq(L) /\ b.having \in Seq(L) /\ b.orderBy \in Seq(L)
    /\ b.groupBy \o FlattenSeq(b.sets) \in Seq(L)
    /\ IsList(b.joins) /\ \A i \in DOMAIN b.joins : JoinIn(L, b.joins[i])
    /\ QueriesIn(L, b.setOps) /\ QueriesIn(L, b.ctes)
    /\ b.buildErr = "" => TableIn(L, b.from)
    /\ b.from.k = "sub" => Sub(b.from.id) \in L
    /\ b.hasTenantIDs => IsList(b.tenantIDs)

PartNames == {"with", "list", "from", "joins", "where", "group", "having", "sets", "order", "lock"}

(* Each part of a query is rendered,                                        *)
LEMMA RenderPartKeeps ==
    ASSUME NEW h, NEW L, KeepsIn(h, L), NEW rc, IsContext(rc), NEW b, QueryIn(L, b),
           b.buildErr = "", NEW part \in PartNames
    PROVE  Keeps(rc, RenderPart(h, b, rc, part).rc)
<1>1. CASE part = "with"
  <2>1. RenderPart(h, b, rc, part).rc = RenderQueries(h, rc, b.ctes, "cte").rc
    BY <1>1 DEF RenderPart, AsClause, Out
  <2>2. QED
    BY <2>1, RenderQueriesKeeps DEF QueryIn
<1>2. CASE part = "list"
  <2>1. RenderPart(h, b, rc, part).rc = RenderAll(h, rc, b.fields).rc
    BY <1>2 DEF RenderPart, AsClause, Out
  <2>2. QED
    BY <2>1, RenderAllKeeps DEF QueryIn
<1>3. CASE part = "from"
  <2>1. RenderPart(h, b, rc, part).rc = renderTableName(h, rc, b.from).rc
    BY <1>3 DEF RenderPart
  <2>2. QED
    BY <2>1, TableNameKeeps DEF QueryIn
<1>4. CASE part = "joins"
  <2>1. RenderPart(h, b, rc, part).rc = RenderJoins(h, rc, b).rc
    BY <1>4 DEF RenderPart, AsClause, Out
  <2>2. QED
    BY <2>1, RenderJoinsKeeps DEF QueryIn
<1>5. CASE part = "where"
  <2>1. RenderPart(h, b, rc, part).rc = renderWhere(h, rc, b).rc
    BY <1>5 DEF RenderPart
  <2>2. QED
    BY <2>1, RenderWhereKeeps DEF QueryIn
<1>6. CASE part = "group"
  <2>1. RenderPart(h, b, rc, part).rc = renderGroup(h, rc, b).rc
    BY <1>6 DEF RenderPart
  <2>2. QED
    BY <2>1, GroupAndLockKeep DEF QueryIn
<1>7. CASE part = "having"
  <2>1. RenderPart(h, b, rc, part).rc = RenderAll(h, rc, b.having).rc
    BY <1>7 DEF RenderPart, AsClause, Out
  <2>2. QED
    BY <2>1, RenderAllKeeps DEF QueryIn
<1>8. CASE part = "sets"
  <2>1. RenderPart(h, b, rc, part).rc = RenderQueries(h, rc, b.setOps, "setOp").rc
    BY <1>8 DEF RenderPart, AsClause, Out
  <2>2. QED
    BY <2>1, RenderQueriesKeeps DEF QueryIn
<1>9. CASE part = "order"
  <2>1. RenderPart(h, b, rc, part).rc = RenderAll(h, rc, b.orderBy).rc
    BY <1>9 DEF RenderPart, AsClause, Out
  <2>2. QED
    BY <2>1, RenderAllKeeps DEF QueryIn
<1>10. CASE part = "lock"
  <2>1. RenderPart(h, b, rc, part).rc = writeLock(rc, b).rc
    BY <1>10 DEF RenderPart
  <2>2. QED
    BY <2>1, GroupAndLockKeep DEF QueryIn
<1>11. QED
  BY <1>1, <1>2, <1>3, <1>4, <1>5, <1>6, <1>7, <1>8, <1>9, <1>10 DEF PartNames

(* Where a query is rendered: a context of its own, on which its parts are. *)
LEMMA QueryContext ==
    ASSUME NEW rc, IsContext(rc), NEW b, NEW id, b.hasTenantIDs => IsList(b.tenantIDs)
    PROVE  LET q == MainTable(Entered(rc, b, id), b)
           IN IsContext(q) /\ q.d = rc.d /\ (rc.err # "" => q.err = rc.err)
<1>1. PICK r : r = SwapQueryShard([rc EXCEPT !.path = Append(@, id)], b.shard)
  OBVIOUS
<1>2. /\ DOMAIN r = ContextFields /\ r.err = rc.err /\ r.d = rc.d /\ r.shardNames = <<>>
      /\ r.tenantIDs = rc.tenantIDs
  BY <1>1 DEF SwapQueryShard, IsContext, ContextFields
<1>3. PICK e : e = bindTenantLayer(r, b)
  OBVIOUS
<1>4. /\ DOMAIN e = ContextFields /\ e.err = rc.err /\ e.d = rc.d /\ e.shardNames = <<>>
      /\ IsList(e.tenantIDs)
  <2>1. CASE b.untenant
    <3>1. e = [r EXCEPT !.tenantDisabled = TRUE]
      BY <1>3, <2>1 DEF bindTenantLayer, PushTenantDisabled
    <3>2. QED
      BY <1>2, <3>1 DEF IsContext, ContextFields
  <2>2. CASE ~b.untenant /\ b.hasTenantIDs
    <3>1. e = [r EXCEPT !.tenantHas = TRUE, !.tenantDisabled = FALSE, !.tenantIDs = b.tenantIDs]
      BY <1>3, <2>2 DEF bindTenantLayer, PushTenant
    <3>2. QED
      BY <1>2, <2>2, <3>1 DEF ContextFields
  <2>3. CASE ~b.untenant /\ ~b.hasTenantIDs
    <3>1. e = r
      BY <1>3, <2>3 DEF bindTenantLayer
    <3>2. QED
      BY <1>2, <3>1 DEF IsContext
  <2>4. QED
    BY <2>1, <2>2, <2>3
<1>5. IsContext(e)
  <2>1. DOMAIN e.shardNames = {}
    BY <1>4
  <2>2. QED
    BY <1>4, <2>1 DEF IsContext, NamesRight
<1>6. PICK c : c = checkTenantJoins(e, b.from, b.joins)
  OBVIOUS
<1>7. Keeps(e, c) /\ c.shardNames = <<>>
  <2>1. Keeps(e, c)
    BY <1>5, <1>6, ChecksKeep
  <2>2. c = e \/ c = Fail(e, "tenant join")
    BY <1>6 DEF checkTenantJoins
  <2>3. Fail(e, "tenant join").shardNames = e.shardNames
    BY <1>4 DEF Fail, ContextFields
  <2>4. QED
    BY <1>4, <2>1, <2>2, <2>3
<1>8. PICK q : q = [c EXCEPT !.mainTable = IF IsBase(b.from) THEN b.from.id ELSE @]
  OBVIOUS
<1>9. DOMAIN c = ContextFields /\ IsList(c.tenantIDs) /\ c.d = rc.d /\ (rc.err # "" => c.err = rc.err)
  BY <1>4, <1>7 DEF Keeps, IsContext, SameScope
<1>10. /\ DOMAIN q = ContextFields /\ q.err = c.err /\ q.d = c.d /\ q.shardNames = <<>>
       /\ IsList(q.tenantIDs)
  BY <1>7, <1>8, <1>9 DEF ContextFields
<1>11. IsContext(q)
  <2>1. DOMAIN q.shardNames = {}
    BY <1>10
  <2>2. QED
    BY <1>10, <2>1 DEF IsContext, NamesRight
<1>12. q = MainTable(Entered(rc, b, id), b)
  BY <1>1, <1>3, <1>6, <1>8 DEF MainTable, Entered
<1>13. QED
  BY <1>9, <1>10, <1>11, <1>12

(* What was there before is put back; an error stays.                       *)
LEMMA RestoredKeeps ==
    ASSUME NEW rc, IsContext(rc), NEW r, IsContext(r), r.d = rc.d, rc.err # "" => r.err = rc.err
    PROVE  Keeps(rc, Restored(r, rc))
<1>1. PICK p : p = RestoreQueryShard(r, rc)
  OBVIOUS
<1>2. /\ DOMAIN p = ContextFields /\ p.err = r.err /\ p.d = r.d /\ p.shardNames = rc.shardNames
      /\ p.queryShard = rc.queryShard /\ p.mainTable = rc.mainTable
  BY <1>1 DEF RestoreQueryShard, IsContext, ContextFields
<1>3. PICK q : q = PopTenant(p, rc)
  OBVIOUS
<1>4. /\ DOMAIN q = ContextFields /\ q.err = r.err /\ q.d = r.d /\ q.shardNames = rc.shardNames
      /\ q.queryShard = rc.queryShard /\ q.mainTable = rc.mainTable
      /\ q.tenantHas = rc.tenantHas /\ q.tenantDisabled = rc.tenantDisabled /\ q.tenantIDs = rc.tenantIDs
  BY <1>2, <1>3 DEF PopTenant, ContextFields
<1>5. PICK s : s = [q EXCEPT !.path = rc.path]
  OBVIOUS
<1>6. DOMAIN s = ContextFields /\ s.err = r.err /\ s.shardNames = rc.shardNames /\ SameScope(rc, s)
  BY <1>4, <1>5 DEF ContextFields, SameScope
<1>7. s = Restored(r, rc)
  BY <1>1, <1>3, <1>5 DEF Restored
<1>8. s.err = "" => NamesRight(s)
  <2>1. ASSUME s.err = ""
        PROVE  NamesRight(s)
    <3>1. NamesRight(rc)
      BY <1>6, <2>1 DEF IsContext
    <3>2. \A base : shardValueFor(s, base) = shardValueFor(rc, base)
      BY <1>6 DEF SameScope, shardValueFor
    <3>3. QED
      BY <1>6, <3>1, <3>2 DEF NamesRight
  <2>2. QED
    BY <2>1
<1>9. IsList(s.tenantIDs)
  BY <1>6 DEF SameScope, IsContext
<1>10. QED
  BY <1>6, <1>7, <1>8, <1>9 DEF Keeps, IsContext

PushPart(x, acc, part) == Push(acc, RenderPart(x.h, x.b, acc.rc, part))
PartFold == INSTANCE FoldLemmas WITH Step <- PushPart, Inv <- KeptSoFar

(* and so is the query.                                                     *)
LEMMA RenderSelectKeeps ==
    ASSUME NEW h, NEW L, KeepsIn(h, L), NEW rc, IsContext(rc), NEW b, QueryIn(L, b), NEW id
    PROVE  Keeps(rc, renderSelect(h, rc, b, id).rc)
<1>1. CASE b.buildErr # ""
  BY <1>1, FailKeeps DEF renderSelect, Out
<1>2. CASE b.buildErr = ""
  <2>1. PICK q : q = MainTable(Entered(rc, b, id), b)
    OBVIOUS
  <2>2. IsContext(q) /\ q.d = rc.d /\ (rc.err # "" => q.err = rc.err)
    BY <2>1, QueryContext DEF QueryIn
  <2>3. PICK x : x = [rc |-> q, h |-> h, b |-> b]
    OBVIOUS
  <2>4. DOMAIN Parts = 1 .. 10 /\ 10 \in Nat
    BY DEF Parts
  <2>5. KeptSoFar(x, 0, Begin(q))
    BY <2>2, <2>3, KeepsSelf DEF KeptSoFar, Begin
  <2>6. ASSUME NEW i \in 1 .. 10, NEW a, KeptSoFar(x, i - 1, a)
        PROVE  KeptSoFar(x, i, PushPart(x, a, Parts[i]))
    <3>1. PushPart(x, a, Parts[i]).rc = RenderPart(h, b, a.rc, Parts[i]).rc
      BY <2>3 DEF PushPart, Push
    <3>2. Keeps(x.rc, a.rc) /\ IsContext(a.rc)
      BY <2>6, KeptContext DEF KeptSoFar
    <3>3. Parts[i] \in PartNames
      BY DEF Parts, PartNames
    <3>4. Keeps(x.rc, RenderPart(h, b, a.rc, Parts[i]).rc)
      BY <1>2, <3>2, <3>3, RenderPartKeeps, KeepsOn
    <3>5. QED
      BY <3>1, <3>4 DEF KeptSoFar
  <2>7. PICK acc : acc = PartFold!Folded(x, Begin(q), Parts)
    OBVIOUS
  <2>8. KeptSoFar(x, 10, acc)
    BY <2>4, <2>5, <2>6, <2>7, LeastNumber, PartFold!FoldInduction DEF PartFold!LeastNumber
  <2>9. FoldLeft(LAMBDA a, part : Push(a, RenderPart(h, b, a.rc, part)), Begin(q), Parts) = acc
    BY <2>3, <2>7 DEF PartFold!Folded, PushPart, FoldLeft, MapThenFoldSet, Max, PartFold!Last
  <2>10. renderSelect(h, rc, b, id).rc = Restored(acc.rc, rc)
    BY <1>2, <2>1, <2>9 DEF renderSelect, Selected, Out
  <2>11. Keeps(q, acc.rc)
    BY <2>3, <2>8 DEF KeptSoFar
  <2>12. IsContext(acc.rc) /\ acc.rc.d = rc.d /\ (rc.err # "" => acc.rc.err = rc.err)
    BY <2>2, <2>11 DEF Keeps, SameScope
  <2>13. QED
    BY <2>10, <2>12, RestoredKeeps
<1>3. QED
  BY <1>1, <1>2

-----------------------------------------------------------------------------
(* Expressions. *)

(* An expression of heap h, whose parts, and those of the query it stands   *)
(* for, are expressions of L.                                               *)
ExpressionIn(h, L, e) == e.es \in Seq(L) /\ (e.k = "sub" => QueryIn(L, h[e.a]))

(* An expression is rendered when its parts are.                            *)
LEMMA RenderExpressionKeeps ==
    ASSUME NEW h, NEW L, KeepsIn(h, L), NEW rc, IsContext(rc), NEW e, ExpressionIn(h, L, e)
    PROVE  Keeps(rc, RenderExpression(h, rc, e).rc)
<1>1. PICK all : all = RenderAll(h, rc, e.es)
  OBVIOUS
<1>2. Keeps(rc, all.rc)
  BY <1>1, RenderAllKeeps DEF ExpressionIn
<1>3. Composite(h, rc, e).rc = all.rc
  BY <1>1 DEF Composite, AsNode, Out
<1>4. CASE e.k = "col"
  <2>1. RenderExpression(h, rc, e).rc = FieldRender(rc, e.a.base, e.a.col).rc
    BY <1>4 DEF RenderExpression
  <2>2. QED
    BY <2>1, FieldRenderKeeps
<1>5. CASE e.k = "free" \/ e.k = "excluded"
  <2>1. RenderExpression(h, rc, e).rc = rc
    BY <1>5 DEF RenderExpression, Out
  <2>2. QED
    BY <2>1, KeepsSelf
<1>6. CASE e.k = "raw"
  <2>1. PICK q : q = rawExpr(rc, e).rc
    OBVIOUS
  <2>2. q = [rc EXCEPT !.args = @ \o e.a.args, !.argIndex = @ + Len(e.a.args)]
    BY <2>1 DEF rawExpr, Out
  <2>3. SameNames(rc, q)
    BY <2>2 DEF SameNames, IsContext, ContextFields, SameScope
  <2>4. RenderExpression(h, rc, e).rc = q
    BY <1>6, <2>1 DEF RenderExpression
  <2>5. QED
    BY <2>3, <2>4, SameNamesKeep
<1>7. CASE e.k = "sub"
  <2>1. RenderExpression(h, rc, e).rc = renderSelect(h, rc, h[e.a], e.a).rc
    BY <1>7 DEF RenderExpression, Subquery, AsNode, Out, Push
  <2>2. QED
    BY <1>7, <2>1, RenderSelectKeeps DEF ExpressionIn
<1>8. CASE e.k \in {"cmp", "between", "isnull", "in", "notin", "insub"}
  <2>1. RenderExpression(h, rc, e) = fieldCondition(h, rc, e)
    BY <1>8 DEF RenderExpression
  <2>2. fieldCondition(h, rc, e).rc = all.rc
    BY <1>1, <1>3 DEF fieldCondition, Out
  <2>3. QED
    BY <1>2, <2>1, <2>2
<1>9. CASE e.k = "exists"
  <2>1. RenderExpression(h, rc, e) = existsCondition(h, rc, e)
    BY <1>9 DEF RenderExpression
  <2>2. existsCondition(h, rc, e).rc = all.rc
    BY <1>1 DEF existsCondition, AsNode, Out
  <2>3. QED
    BY <1>2, <2>1, <2>2
<1>10. CASE e.k = "fn"
  <2>1. RenderExpression(h, rc, e) = FuncExpr(h, rc, e)
    BY <1>10 DEF RenderExpression
  <2>2. FuncExpr(h, rc, e).rc = all.rc \/ FuncExpr(h, rc, e).rc = Fail(all.rc, "function")
    BY <1>1 DEF FuncExpr, Called, Out
  <2>3. Keeps(rc, Fail(all.rc, "function"))
    BY <1>2, FailKeeps, KeptContext, KeepsOn
  <2>4. QED
    BY <1>2, <2>1, <2>2, <2>3
<1>11. CASE e.k \in {"and", "or", "not"}
  <2>1. RenderExpression(h, rc, e) = groupCondition(h, rc, e)
    BY <1>11 DEF RenderExpression
  <2>2. groupCondition(h, rc, e).rc = all.rc
    BY <1>1 DEF groupCondition, Combined, Out
  <2>3. QED
    BY <1>2, <2>1, <2>2
<1>12. CASE e.k \notin {"col", "free", "excluded", "raw", "sub", "cmp", "between", "isnull", "in",
                        "notin", "insub", "exists", "fn", "and", "or", "not"}
  <2>1. RenderExpression(h, rc, e) = Composite(h, rc, e)
    BY <1>12 DEF RenderExpression
  <2>2. QED
    BY <1>2, <1>3, <2>1
<1>13. QED
  BY <1>4, <1>5, <1>6, <1>7, <1>8, <1>9, <1>10, <1>11, <1>12

(* The expressions of S over h end: each has a rank above those of its      *)
(* parts, and above those of the parts of the query it stands for.          *)
Below(S, rank, e) == {f \in S : rank[f] < rank[e]}
Ranked(h, S, rank) ==
    rank \in [S -> Nat] /\ \A e \in S : ExpressionIn(h, Below(S, rank, e), e)

(* Render is the recursion it is meant to be. *)
RenderRecurses(h, S) == \A e \in S : \A rc : Render(h, rc, e) = RenderExpression(h, rc, e)

(* Rendering an expression that ends leaves the context's scope as it was:  *)
(* the main table, the shard value and the tenants of the query it is in    *)
(* are put back after every subquery, the first error stays, and no table   *)
(* has a wrong name (render.go, select_render.go).                          *)
THEOREM RenderingKeeps ==
    ASSUME NEW h, NEW S, NEW rank, Ranked(h, S, rank), RenderRecurses(h, S)
    PROVE  KeepsIn(h, S)
<1> DEFINE Good(e) == \A rc : IsContext(rc) => Keeps(rc, Render(h, rc, e).rc)
           Bad == {n \in Nat : \E e \in S : rank[e] = n /\ ~Good(e)}
<1>1. ASSUME NEW n \in Bad, \A m \in Bad : n <= m
      PROVE  FALSE
  <2>1. PICK e \in S : rank[e] = n /\ ~Good(e)
    OBVIOUS
  <2>2. PICK L : L = Below(S, rank, e)
    OBVIOUS
  <2>3. \A f \in L : f \in S /\ rank[f] \in Nat /\ rank[f] < n
    BY <2>1, <2>2 DEF Below, Ranked
  <2>4. \A f \in L : Good(f)
    <3>1. SUFFICES ASSUME NEW f \in L, ~Good(f)
                   PROVE  FALSE
      OBVIOUS
    <3>2. rank[f] \in Bad
      BY <2>3, <3>1
    <3>3. n <= rank[f] /\ n \in Nat
      BY <1>1, <3>2
    <3>4. QED
      BY <2>3, <3>3
  <2>5. KeepsIn(h, L)
    BY <2>4 DEF KeepsIn
  <2>6. ExpressionIn(h, L, e)
    BY <2>2 DEF Ranked
  <2>7. \A rc : IsContext(rc) => Keeps(rc, RenderExpression(h, rc, e).rc)
    BY <2>5, <2>6, RenderExpressionKeeps
  <2>8. Good(e)
    BY <2>7 DEF RenderRecurses
  <2>9. QED
    BY <2>1, <2>8
<1>2. Bad = {}
  <2>1. Bad \in SUBSET Nat
    OBVIOUS
  <2> HIDE DEF Bad
  <2>2. QED
    BY <1>1, <2>1, LeastNumber
<1>3. \A e \in S : rank[e] \in Nat
  BY DEF Ranked
<1>4. \A e \in S : Good(e)
  BY <1>2, <1>3
<1>5. QED
  BY <1>4 DEF KeepsIn

-----------------------------------------------------------------------------
(* Clones. *)

(* A sequence, of whatever. *)
Sequence(s) == \E n \in Nat : s = [i \in 1 .. n |-> s[i]]

QueryFields ==
    {"fields", "from", "joins", "conds", "groupBy", "groupExt", "sets", "having", "orderBy",
     "limit", "offset", "distinct", "unscoped", "untenant", "hasTenantIDs", "tenantIDs",
     "ctxTenant", "alias", "buildErr", "lock", "lockWait", "setOps", "ctes", "shard", "columns"}

(* A query builder, by its fields. *)
QueryShaped(b) ==
    /\ DOMAIN b = QueryFields /\ "id" \in DOMAIN b.from /\ "k" \in DOMAIN b.from
    /\ \A i \in DOMAIN b.setOps : "q" \in DOMAIN b.setOps[i]
    /\ \A i \in DOMAIN b.ctes : "q" \in DOMAIN b.ctes[i]

(* The expressions of S that end below r. *)
Under(S, rank, r) == {f \in S : rank[f] < r}

(* A heap over which the expressions of S end: the queries they stand for   *)
(* are builders of the heap.                                                *)
HeapOver(h, S, rank) ==
    /\ Sequence(h) /\ Ranked(h, S, rank)
    /\ \A e \in S : e.k = "sub" => e.a \in DOMAIN h /\ QueryShaped(h[e.a])

(* A heap with more queries, about which there is more to say. *)
Extends(h, S, rank, h2, S2, rank2) ==
    /\ HeapOver(h2, S2, rank2)
    /\ S \subseteq S2 /\ \A e \in S : rank2[e] = rank[e]
    /\ DOMAIN h \subseteq DOMAIN h2 /\ \A i \in DOMAIN h : h2[i] = h[i]
    /\ \A i \in DOMAIN h2 : i \notin DOMAIN h => QueryShaped(h2[i])

(* c is a heap with a clone of a query that had rank r. *)
HasClone(h, S, rank, c, r) ==
    \E S2, rank2 : Extends(h, S, rank, c.h, S2, rank2) /\ Sub(c.id) \in S2 /\ rank2[Sub(c.id)] = r

(* A heap extends itself,                                                   *)
LEMMA ExtendsSelf ==
    ASSUME NEW h, NEW S, NEW rank, HeapOver(h, S, rank)
    PROVE  Extends(h, S, rank, h, S, rank)
  BY DEF Extends

(* and what extends an extension of it.                                     *)
LEMMA ExtendsOn ==
    ASSUME NEW h, NEW S, NEW rank, NEW h1, NEW S1, NEW rank1, NEW h2, NEW S2, NEW rank2,
           Extends(h, S, rank, h1, S1, rank1), Extends(h1, S1, rank1, h2, S2, rank2)
    PROVE  Extends(h, S, rank, h2, S2, rank2)
  BY DEF Extends

(* What is said of fewer expressions is said of more. *)
LEMMA InMore ==
    ASSUME NEW L, NEW M, L \subseteq M
    PROVE  /\ \A s \in Seq(L) : s \in Seq(M)
           /\ \A t : TableIn(L, t) => TableIn(M, t)
           /\ \A j : JoinIn(L, j) => JoinIn(M, j)
           /\ \A qs : QueriesIn(L, qs) => QueriesIn(M, qs)
<1>1. \A s \in Seq(L) : s \in Seq(M)
  BY SeqMonotonic
<1>2. \A t : TableIn(L, t) => TableIn(M, t)
  BY DEF TableIn
<1>3. \A j : JoinIn(L, j) => JoinIn(M, j)
  BY <1>1, <1>2 DEF JoinIn
<1>4. \A qs : QueriesIn(L, qs) => QueriesIn(M, qs)
  BY DEF QueriesIn
<1>5. QED
  BY <1>1, <1>2, <1>3, <1>4

(* So a query of the expressions of L is one of those of M.                 *)
LEMMA QueryInMore ==
    ASSUME NEW L, NEW M, L \subseteq M, NEW b, QueryIn(L, b)
    PROVE  QueryIn(M, b)
<1>1. /\ b.fields \in Seq(M) /\ b.conds \in Seq(M) /\ b.having \in Seq(M) /\ b.orderBy \in Seq(M)
      /\ b.groupBy \o FlattenSeq(b.sets) \in Seq(M)
  BY InMore DEF QueryIn
<1>2. IsList(b.joins) /\ \A i \in DOMAIN b.joins : JoinIn(M, b.joins[i])
  BY InMore DEF QueryIn
<1>3. QueriesIn(M, b.setOps) /\ QueriesIn(M, b.ctes) /\ (b.buildErr = "" => TableIn(M, b.from))
  BY InMore DEF QueryIn
<1>4. (b.hasTenantIDs => IsList(b.tenantIDs)) /\ (b.from.k = "sub" => Sub(b.from.id) \in M)
  BY DEF QueryIn
<1>5. QED
  BY <1>1, <1>2, <1>3, <1>4 DEF QueryIn

(* A sequence is one of its elements, *)
LEMMA SequenceOf ==
    ASSUME NEW s, Sequence(s)
    PROVE  /\ IsList(s) /\ Len(s) \in Nat /\ DOMAIN s = 1 .. Len(s)
           /\ s = [i \in 1 .. Len(s) |-> s[i]]
           /\ s \in Seq({s[i] : i \in DOMAIN s})
<1>1. PICK n \in Nat : s = [i \in 1 .. n |-> s[i]]
  BY DEF Sequence
<1>2. PICK T : T = {s[i] : i \in 1 .. n}
  OBVIOUS
<1>3. s \in [1 .. n -> T] /\ DOMAIN s = 1 .. n
  BY <1>1, <1>2
<1>4. s \in Seq(T)
  BY <1>3
<1>5. Len(s) = n
  BY <1>3, <1>4, LenProperties
<1>6. QED
  BY <1>1, <1>2, <1>3, <1>4, <1>5 DEF IsList

(* and so is what is in Seq of something. *)
LEMMA ToSequence ==
    ASSUME NEW T, NEW s \in Seq(T)
    PROVE  Sequence(s)
<1>1. Len(s) \in Nat /\ s \in [1 .. Len(s) -> T]
  BY LenProperties
<1>2. PICK n \in Nat : n = Len(s)
  BY <1>1
<1>3. s = [i \in 1 .. n |-> s[i]]
  BY <1>1, <1>2
<1>4. QED
  BY <1>3 DEF Sequence

(* A sequence with one element more. *)
LEMMA OneMore ==
    ASSUME NEW s, Sequence(s), NEW e
    PROVE  /\ Sequence(Append(s, e)) /\ Len(Append(s, e)) = Len(s) + 1
           /\ DOMAIN Append(s, e) = 1 .. Len(s) + 1
           /\ Append(s, e)[Len(s) + 1] = e
           /\ \A i \in 1 .. Len(s) : Append(s, e)[i] = s[i]
<1>1. PICK T : T = {s[i] : i \in DOMAIN s} \cup {e}
  OBVIOUS
<1>2. s \in Seq({s[i] : i \in DOMAIN s})
  BY SequenceOf
<1>3. s \in Seq(T) /\ e \in T
  <2>1. {s[i] : i \in DOMAIN s} \subseteq T
    BY <1>1
  <2>2. PICK U : U = {s[i] : i \in DOMAIN s}
    OBVIOUS
  <2>3. s \in Seq(T)
    BY <1>2, <2>1, <2>2, SeqMonotonic
  <2>4. QED
    BY <1>1, <2>3
<1>4. Append(s, e) \in Seq(T)
  BY <1>3
<1>5. Sequence(Append(s, e))
  BY <1>4, ToSequence
<1>6. /\ Len(Append(s, e)) = Len(s) + 1 /\ DOMAIN Append(s, e) = 1 .. Len(s) + 1
      /\ Append(s, e)[Len(s) + 1] = e
      /\ \A i \in 1 .. Len(s) : Append(s, e)[i] = s[i]
  BY <1>3
<1>7. QED
  BY <1>5, <1>6

(* One more query, whose parts end below r. *)
LEMMA AddedExtends ==
    ASSUME NEW h, NEW S, NEW rank, HeapOver(h, S, rank), NEW b, QueryShaped(b), NEW r \in Nat,
           QueryIn(Under(S, rank, r), b)
    PROVE  HasClone(h, S, rank, Added(h, b), r)
<1>1. PICK n \in Nat : n = Len(h) /\ DOMAIN h = 1 .. n
  BY SequenceOf DEF HeapOver
<1>2. PICK s : s = Sub(n + 1)
  OBVIOUS
<1>3. s.k = "sub" /\ s.a = n + 1 /\ s.es = <<>> /\ s \notin S
  <2>1. s.k = "sub" /\ s.a = n + 1 /\ s.es = <<>>
    BY <1>2 DEF Sub, Ex
  <2>2. n + 1 \notin DOMAIN h
    BY <1>1
  <2>3. QED
    BY <2>1, <2>2 DEF HeapOver
<1>4. PICK h2 : h2 = Append(h, b)
  OBVIOUS
<1>5. /\ Sequence(h2) /\ DOMAIN h2 = 1 .. n + 1 /\ h2[n + 1] = b
      /\ \A i \in 1 .. n : h2[i] = h[i]
  BY <1>1, <1>4, OneMore DEF HeapOver
<1>6. PICK S2 : S2 = S \cup {s}
  OBVIOUS
<1>7. PICK rank2 : rank2 = [e \in S2 |-> IF e = s THEN r ELSE rank[e]]
  OBVIOUS
<1>8. /\ rank2 \in [S2 -> Nat] /\ rank2[s] = r
      /\ \A e \in S : rank2[e] = rank[e]
  BY <1>3, <1>6, <1>7 DEF HeapOver, Ranked
<1>9. \A e \in S : Below(S, rank, e) \subseteq Below(S2, rank2, e)
  BY <1>6, <1>8 DEF Below
<1>10. ASSUME NEW e \in S
       PROVE  ExpressionIn(h2, Below(S2, rank2, e), e)
  <2>1. ExpressionIn(h, Below(S, rank, e), e)
    BY DEF HeapOver, Ranked
  <2>2. PICK L, M : L = Below(S, rank, e) /\ M = Below(S2, rank2, e)
    OBVIOUS
  <2>3. L \subseteq M
    BY <1>9, <2>2
  <2>4. e.es \in Seq(M)
    BY <2>1, <2>2, <2>3, InMore DEF ExpressionIn
  <2>5. ASSUME e.k = "sub"
        PROVE  QueryIn(M, h2[e.a])
    <3>1. h2[e.a] = h[e.a]
      BY <1>1, <1>5, <2>5 DEF HeapOver
    <3>2. QueryIn(L, h[e.a])
      BY <2>1, <2>2, <2>5 DEF ExpressionIn
    <3>3. QED
      BY <2>3, <3>1, <3>2, QueryInMore
  <2>6. QED
    BY <2>2, <2>4, <2>5 DEF ExpressionIn
<1>11. ExpressionIn(h2, Below(S2, rank2, s), s)
  <2>1. PICK L, M : L = Under(S, rank, r) /\ M = Below(S2, rank2, s)
    OBVIOUS
  <2>2. L \subseteq M
    BY <1>6, <1>8, <2>1 DEF Below, Under
  <2>3. QueryIn(M, b)
    BY <2>1, <2>2, QueryInMore
  <2>4. <<>> \in Seq(M)
    OBVIOUS
  <2>5. QED
    BY <1>3, <1>5, <2>1, <2>3, <2>4 DEF ExpressionIn
<1>12. Ranked(h2, S2, rank2)
  BY <1>6, <1>8, <1>10, <1>11 DEF Ranked
<1>13. \A e \in S2 : e.k = "sub" => e.a \in DOMAIN h2 /\ QueryShaped(h2[e.a])
  <2>1. ASSUME NEW e \in S, e.k = "sub"
        PROVE  e.a \in DOMAIN h2 /\ QueryShaped(h2[e.a])
    <3>1. e.a \in 1 .. n /\ QueryShaped(h[e.a])
      BY <1>1, <2>1 DEF HeapOver
    <3>2. QED
      BY <1>5, <3>1
  <2>2. n + 1 \in DOMAIN h2
    BY <1>5
  <2>3. QED
    BY <1>3, <1>5, <1>6, <2>1, <2>2
<1>14. HeapOver(h2, S2, rank2)
  BY <1>5, <1>12, <1>13 DEF HeapOver
<1>15. Extends(h, S, rank, h2, S2, rank2)
  <2>1. \A i \in DOMAIN h2 : i \notin DOMAIN h => QueryShaped(h2[i])
    BY <1>1, <1>5
  <2>2. DOMAIN h \subseteq DOMAIN h2 /\ \A i \in DOMAIN h : h2[i] = h[i]
    BY <1>1, <1>5
  <2>3. QED
    BY <1>6, <1>8, <1>14, <2>1, <2>2 DEF Extends
<1>16. Added(h, b).h = h2 /\ Added(h, b).id = n + 1
  BY <1>1, <1>4 DEF Added
<1>17. QED
  BY <1>2, <1>6, <1>8, <1>15, <1>16 DEF HasClone

(* Queries that end below r have clones.                                    *)
ClonesBelow(r) ==
    \A h, S, rank, id :
        HeapOver(h, S, rank) /\ Sub(id) \in S /\ rank[Sub(id)] < r =>
            HasClone(h, S, rank, CloneBuilder(h, id), rank[Sub(id)])

(* What is said while the queries of a set operation or a WITH are cloned.  *)
ClonedUpTo(x, i, acc, S2, rank2) ==
    /\ Extends(x.h, x.S, x.rank, acc.h, S2, rank2)
    /\ Sequence(acc.qs) /\ Len(acc.qs) = i
    /\ \A j \in 1 .. i : /\ "q" \in DOMAIN acc.qs[j] /\ Sub(acc.qs[j].q) \in S2
                         /\ rank2[Sub(acc.qs[j].q)] = x.rank[Sub(x.qs[j].q)]
ClonedSoFar(x, i, acc) == \E S2, rank2 : ClonedUpTo(x, i, acc, S2, rank2)

PushClone(x, acc, q) == CloneOne(acc, q, CloneBuilder(acc.h, q.q))
CloneFold == INSTANCE FoldLemmas WITH Step <- PushClone, Inv <- ClonedSoFar

(* One query more is cloned. *)
LEMMA CloneOneMore ==
    ASSUME NEW r, ClonesBelow(r), NEW x, NEW i \in Nat, NEW acc, ClonedSoFar(x, i, acc),
           NEW q, q = x.qs[i + 1], "q" \in DOMAIN q, Sub(q.q) \in x.S, x.rank[Sub(q.q)] < r
    PROVE  ClonedSoFar(x, i + 1, PushClone(x, acc, q))
<1>1. PICK S1, rank1 : ClonedUpTo(x, i, acc, S1, rank1)
  BY DEF ClonedSoFar
<1>2. PICK c : c = CloneBuilder(acc.h, q.q)
  OBVIOUS
<1>3. HeapOver(acc.h, S1, rank1) /\ Sub(q.q) \in S1 /\ rank1[Sub(q.q)] = x.rank[Sub(q.q)]
  BY <1>1 DEF ClonedUpTo, Extends
<1>4. HasClone(acc.h, S1, rank1, c, x.rank[Sub(q.q)])
  BY <1>2, <1>3 DEF ClonesBelow
<1>5. PICK S2, rank2 : /\ Extends(acc.h, S1, rank1, c.h, S2, rank2)
                       /\ Sub(c.id) \in S2 /\ rank2[Sub(c.id)] = x.rank[Sub(q.q)]
  BY <1>4 DEF HasClone
<1>6. Extends(x.h, x.S, x.rank, c.h, S2, rank2)
  BY <1>1, <1>5, ExtendsOn DEF ClonedUpTo
<1>7. PICK e : e = [q EXCEPT !.q = c.id]
  OBVIOUS
<1>8. "q" \in DOMAIN e /\ e.q = c.id
  BY <1>7
<1>9. PICK a : a = PushClone(x, acc, q)
  OBVIOUS
<1>10. a.h = c.h /\ a.qs = Append(acc.qs, e)
  BY <1>2, <1>7, <1>9 DEF PushClone, CloneOne
<1>11. Sequence(acc.qs) /\ Len(acc.qs) = i
  BY <1>1 DEF ClonedUpTo
<1>12. /\ Sequence(a.qs) /\ Len(a.qs) = i + 1 /\ a.qs[i + 1] = e
       /\ \A j \in 1 .. i : a.qs[j] = acc.qs[j]
  BY <1>10, <1>11, OneMore
<1>13. ASSUME NEW j \in 1 .. i + 1
       PROVE  /\ "q" \in DOMAIN a.qs[j] /\ Sub(a.qs[j].q) \in S2
              /\ rank2[Sub(a.qs[j].q)] = x.rank[Sub(x.qs[j].q)]
  <2>1. CASE j = i + 1
    BY <1>5, <1>8, <1>12, <2>1
  <2>2. CASE j # i + 1
    <3>1. j \in 1 .. i
      BY <2>2
    <3>2. /\ "q" \in DOMAIN acc.qs[j] /\ Sub(acc.qs[j].q) \in S1
          /\ rank1[Sub(acc.qs[j].q)] = x.rank[Sub(x.qs[j].q)]
      BY <1>1, <3>1 DEF ClonedUpTo
    <3>3. Sub(acc.qs[j].q) \in S2 /\ rank2[Sub(acc.qs[j].q)] = rank1[Sub(acc.qs[j].q)]
      BY <1>5, <3>2 DEF Extends
    <3>4. QED
      BY <1>12, <3>1, <3>2, <3>3
  <2>3. QED
    BY <2>1, <2>2
<1>14. ClonedUpTo(x, i + 1, a, S2, rank2)
  BY <1>6, <1>10, <1>12, <1>13 DEF ClonedUpTo
<1>15. QED
  BY <1>9, <1>14 DEF ClonedSoFar

(* All the queries of a list are cloned. *)
LEMMA QueriesCloned ==
    ASSUME NEW r, ClonesBelow(r), NEW h, NEW S, NEW rank, HeapOver(h, S, rank), NEW qs,
           QueriesIn(Under(S, rank, r), qs), \A i \in DOMAIN qs : "q" \in DOMAIN qs[i]
    PROVE  \E S2, rank2 :
              /\ Extends(h, S, rank, CloneQueries(h, qs).h, S2, rank2)
              /\ QueriesIn(Under(S2, rank2, r), CloneQueries(h, qs).qs)
              /\ \A i \in DOMAIN CloneQueries(h, qs).qs : "q" \in DOMAIN CloneQueries(h, qs).qs[i]
<1>1. PICK x : x = [h |-> h, S |-> S, rank |-> rank, qs |-> qs]
  OBVIOUS
<1>2. PICK n \in Nat : DOMAIN qs = 1 .. n
  BY DEF QueriesIn, IsList
<1>3. PICK base : base = [h |-> h, qs |-> <<>>]
  OBVIOUS
<1>4. ClonedSoFar(x, 0, base)
  <2>1. Sequence(<<>>) /\ Len(<<>>) = 0
    <3>1. <<>> \in Seq({})
      OBVIOUS
    <3>2. QED
      BY <3>1, ToSequence
  <2>2. ClonedUpTo(x, 0, base, S, rank)
    BY <1>1, <1>3, <2>1, ExtendsSelf DEF ClonedUpTo
  <2>3. QED
    BY <2>2 DEF ClonedSoFar
<1>5. ASSUME NEW i \in 1 .. n, NEW a, ClonedSoFar(x, i - 1, a)
      PROVE  ClonedSoFar(x, i, PushClone(x, a, qs[i]))
  <2>1. PICK m \in Nat : m = i - 1 /\ i = m + 1
    OBVIOUS
  <2>2. PICK q : q = qs[i]
    OBVIOUS
  <2>3. q = x.qs[m + 1] /\ "q" \in DOMAIN q
    BY <1>1, <1>2, <2>1, <2>2
  <2>4. Sub(q.q) \in x.S /\ x.rank[Sub(q.q)] < r
    BY <1>1, <1>2, <2>2 DEF QueriesIn, Under
  <2>5. ClonedSoFar(x, m, a)
    BY <1>5, <2>1
  <2>6. ClonedSoFar(x, m + 1, PushClone(x, a, q))
    BY <2>3, <2>4, <2>5, CloneOneMore
  <2>7. QED
    BY <2>1, <2>2, <2>6
<1>6. PICK all : all = CloneFold!Folded(x, base, qs)
  OBVIOUS
<1>7. ClonedSoFar(x, n, all)
  BY <1>2, <1>4, <1>5, <1>6, LeastNumber, CloneFold!FoldInduction DEF CloneFold!LeastNumber
<1>8. CloneQueries(h, qs) = all
  BY <1>3, <1>6 DEF CloneQueries, CloneFold!Folded, PushClone, FoldLeft, MapThenFoldSet, Max, CloneFold!Last
<1>9. PICK S2, rank2 : ClonedUpTo(x, n, all, S2, rank2)
  BY <1>7 DEF ClonedSoFar
<1>10. DOMAIN all.qs = 1 .. n
  BY <1>9, SequenceOf DEF ClonedUpTo
<1>11. PICK L : L = Under(S2, rank2, r)
  OBVIOUS
<1>12. QueriesIn(L, all.qs)
  <2>1. ASSUME NEW i \in 1 .. n
        PROVE  Sub(all.qs[i].q) \in L
    <3>1. Sub(all.qs[i].q) \in S2 /\ rank2[Sub(all.qs[i].q)] = rank[Sub(qs[i].q)]
      BY <1>1, <1>9 DEF ClonedUpTo
    <3>2. rank[Sub(qs[i].q)] < r
      BY <1>2 DEF QueriesIn, Under
    <3>3. QED
      BY <1>11, <3>1, <3>2 DEF Under
  <2>2. QED
    BY <1>10, <2>1 DEF QueriesIn, IsList
<1>13. Extends(h, S, rank, all.h, S2, rank2)
  BY <1>1, <1>9 DEF ClonedUpTo
<1>14. \A i \in DOMAIN all.qs : "q" \in DOMAIN all.qs[i]
  BY <1>9, <1>10 DEF ClonedUpTo
<1>15. QED
  BY <1>8, <1>11, <1>12, <1>13, <1>14

(* b2 is b with other set operations and other queries in its WITH.         *)
Rewired(b, sets, ctes, b2) == b2 = [[b EXCEPT !.setOps = sets] EXCEPT !.ctes = ctes]

(* Its fields are those of b but for the two.                               *)
LEMMA RewiredFields ==
    ASSUME NEW b, QueryShaped(b), NEW sets, NEW ctes, NEW b2, Rewired(b, sets, ctes, b2)
    PROVE  /\ DOMAIN b2 = QueryFields /\ b2.ctes = ctes /\ b2.setOps = sets
           /\ \A f \in QueryFields \ {"setOps", "ctes"} : b2[f] = b[f]
<1>0. PICK b1 : b1 = [b EXCEPT !.setOps = sets]
  OBVIOUS
<1>1. /\ DOMAIN b1 = QueryFields /\ b1.setOps = sets
      /\ \A f \in QueryFields \ {"setOps"} : b1[f] = b[f]
  BY <1>0 DEF QueryShaped, QueryFields
<1>2. b2 = [b1 EXCEPT !.ctes = ctes]
  BY <1>0 DEF Rewired
<1>3. QED
  BY <1>1, <1>2 DEF QueryFields

(* It is a query as b is. *)
LEMMA RewiredLists ==
    ASSUME NEW L, NEW b, QueryShaped(b), QueryIn(L, b),
           NEW sets, QueriesIn(L, sets), \A i \in DOMAIN sets : "q" \in DOMAIN sets[i],
           NEW ctes, QueriesIn(L, ctes), \A i \in DOMAIN ctes : "q" \in DOMAIN ctes[i],
           NEW b2, Rewired(b, sets, ctes, b2)
    PROVE  QueryShaped(b2) /\ QueryIn(L, b2) /\ b2.from = b.from
<1>2. /\ DOMAIN b2 = QueryFields /\ b2.ctes = ctes /\ b2.setOps = sets
      /\ \A f \in QueryFields \ {"setOps", "ctes"} : b2[f] = b[f]
  BY RewiredFields
<1>3. /\ b2.fields = b.fields /\ b2.from = b.from /\ b2.joins = b.joins /\ b2.conds = b.conds
      /\ b2.groupBy = b.groupBy /\ b2.sets = b.sets /\ b2.having = b.having /\ b2.orderBy = b.orderBy
      /\ b2.hasTenantIDs = b.hasTenantIDs /\ b2.tenantIDs = b.tenantIDs /\ b2.buildErr = b.buildErr
  BY <1>2 DEF QueryFields
<1>4. QueryShaped(b2)
  BY <1>2, <1>3 DEF QueryShaped
<1>5. QueryIn(L, b2)
  BY <1>2, <1>3 DEF QueryIn
<1>6. QED
  BY <1>3, <1>4, <1>5

(* A query from another derived table. *)
LEMMA RewiredFrom ==
    ASSUME NEW L, NEW b, QueryShaped(b), QueryIn(L, b), b.from.k = "sub",
           NEW id, Sub(id) \in L, NEW c, c = [b EXCEPT !.from.id = id]
    PROVE  QueryShaped(c) /\ QueryIn(L, c)
<1>1. PICK from : from = c.from
  OBVIOUS
<1>2. from = [b.from EXCEPT !.id = id]
  BY <1>1 DEF QueryShaped, QueryFields
<1>3. from.id = id /\ from.k = "sub" /\ DOMAIN from = DOMAIN b.from
  BY <1>2 DEF QueryShaped
<1>4. DOMAIN c = QueryFields /\ \A f \in QueryFields \ {"from"} : c[f] = b[f]
  BY DEF QueryShaped, QueryFields
<1>5. /\ c.fields = b.fields /\ c.joins = b.joins /\ c.conds = b.conds
      /\ c.groupBy = b.groupBy /\ c.sets = b.sets /\ c.having = b.having /\ c.orderBy = b.orderBy
      /\ c.hasTenantIDs = b.hasTenantIDs /\ c.tenantIDs = b.tenantIDs /\ c.buildErr = b.buildErr
      /\ c.setOps = b.setOps /\ c.ctes = b.ctes
  BY <1>4 DEF QueryFields
<1>6. QueryShaped(c)
  BY <1>1, <1>3, <1>4, <1>5 DEF QueryShaped
<1>7. TableIn(L, c.from)
  BY <1>1, <1>3 DEF TableIn
<1>8. QueryIn(L, c)
  BY <1>1, <1>3, <1>5, <1>7 DEF QueryIn
<1>9. QED
  BY <1>6, <1>8

(* The clone of a query is a query of the same rank, when those below it    *)
(* have clones.                                                             *)
LEMMA CloneOfIs ==
    ASSUME NEW r \in Nat, ClonesBelow(r), NEW h, NEW S, NEW rank, HeapOver(h, S, rank),
           NEW id, Sub(id) \in S, rank[Sub(id)] = r
    PROVE  HasClone(h, S, rank, CloneOf(h, id), r)
<1>1. PICK b, s : b = h[id] /\ s = Sub(id)
  OBVIOUS
<1>2. PICK L : L = Under(S, rank, r)
  OBVIOUS
<1>3. s \in S /\ s.k = "sub" /\ s.a = id /\ Below(S, rank, s) = L
  BY <1>1, <1>2 DEF Sub, Ex, Below, Under
<1>4. QueryShaped(b) /\ QueryIn(L, b)
  BY <1>1, <1>3 DEF HeapOver, Ranked, ExpressionIn
<1>5. PICK sets : sets = CloneQueries(h, b.setOps)
  OBVIOUS
<1>6. PICK S1, rank1 :
         /\ Extends(h, S, rank, sets.h, S1, rank1)
         /\ QueriesIn(Under(S1, rank1, r), sets.qs)
         /\ \A i \in DOMAIN sets.qs : "q" \in DOMAIN sets.qs[i]
  BY <1>2, <1>4, <1>5, QueriesCloned DEF QueryIn, QueryShaped
<1>7. PICK L1 : L1 = Under(S1, rank1, r)
  OBVIOUS
<1>8. L \subseteq L1 /\ HeapOver(sets.h, S1, rank1)
  BY <1>2, <1>6, <1>7 DEF Extends, Under
<1>9. PICK ctes : ctes = CloneQueries(sets.h, b.ctes)
  OBVIOUS
<1>10. PICK S2, rank2 :
         /\ Extends(sets.h, S1, rank1, ctes.h, S2, rank2)
         /\ QueriesIn(Under(S2, rank2, r), ctes.qs)
         /\ \A i \in DOMAIN ctes.qs : "q" \in DOMAIN ctes.qs[i]
  <2>1. QueriesIn(Under(S1, rank1, r), b.ctes)
    BY <1>4, <1>7, <1>8, InMore DEF QueryIn
  <2>2. QED
    BY <1>4, <1>8, <1>9, <2>1, QueriesCloned DEF QueryShaped
<1>11. PICK L2 : L2 = Under(S2, rank2, r)
  OBVIOUS
<1>12. L1 \subseteq L2 /\ HeapOver(ctes.h, S2, rank2)
  BY <1>7, <1>10, <1>11 DEF Extends, Under
<1>13. QueryIn(L2, b) /\ QueriesIn(L2, sets.qs) /\ QueriesIn(L2, ctes.qs)
  <2>1. L \subseteq L2
    BY <1>8, <1>12
  <2>2. QueriesIn(L1, sets.qs) /\ QueriesIn(L2, ctes.qs)
    BY <1>6, <1>7, <1>10, <1>11
  <2>3. QED
    BY <1>4, <1>12, <2>1, <2>2, QueryInMore, InMore
<1>14. Extends(h, S, rank, ctes.h, S2, rank2)
  BY <1>6, <1>10, ExtendsOn
<1>15. PICK b1, b2 : b1 = [b EXCEPT !.setOps = sets.qs] /\ b2 = [b1 EXCEPT !.ctes = ctes.qs]
  OBVIOUS
<1>16. CloneOf(h, id) = CloneFrom(ctes.h, b2)
  BY <1>1, <1>5, <1>9, <1>15 DEF CloneOf, CloneSetOps, CloneCtes
<1>17. QueryShaped(b2) /\ QueryIn(L2, b2) /\ b2.from = b.from
  <2>1. PICK sq, cq : sq = sets.qs /\ cq = ctes.qs
    OBVIOUS
  <2>2. Rewired(b, sq, cq, b2)
    BY <1>15, <2>1 DEF Rewired
  <2>3. /\ QueriesIn(L2, sq) /\ QueriesIn(L2, cq)
        /\ \A j \in DOMAIN sq : "q" \in DOMAIN sq[j]
        /\ \A j \in DOMAIN cq : "q" \in DOMAIN cq[j]
    BY <1>6, <1>10, <1>13, <2>1
  <2>4. QED
    BY <1>4, <1>13, <2>2, <2>3, RewiredLists
<1>18. CASE b.from.k = "sub"
  <2>1. Sub(b.from.id) \in L
    BY <1>4, <1>18 DEF QueryIn
  <2>2. PICK q : q = Sub(b.from.id)
    OBVIOUS
  <2>3. q \in L2 /\ q \in S2 /\ rank2[q] < r
    BY <1>8, <1>11, <1>12, <2>1, <2>2 DEF Under
  <2>4. PICK c : c = CloneBuilder(ctes.h, b.from.id)
    OBVIOUS
  <2>5. HasClone(ctes.h, S2, rank2, c, rank2[q])
    BY <1>12, <2>2, <2>3, <2>4 DEF ClonesBelow
  <2>6. PICK S3, rank3 : /\ Extends(ctes.h, S2, rank2, c.h, S3, rank3)
                         /\ Sub(c.id) \in S3 /\ rank3[Sub(c.id)] = rank2[q]
    BY <2>5 DEF HasClone
  <2>7. PICK L3 : L3 = Under(S3, rank3, r)
    OBVIOUS
  <2>8. L2 \subseteq L3 /\ HeapOver(c.h, S3, rank3) /\ Sub(c.id) \in L3
    BY <1>11, <2>3, <2>6, <2>7 DEF Extends, Under
  <2>9. QueryIn(L3, b2)
    BY <1>17, <2>8, QueryInMore
  <2>10. PICK b3 : b3 = [b2 EXCEPT !.from.id = c.id]
    OBVIOUS
  <2>11. QueryShaped(b3) /\ QueryIn(L3, b3)
    <3>1. PICK i : i = c.id
      OBVIOUS
    <3>2. b2.from.k = "sub" /\ b3 = [b2 EXCEPT !.from.id = i] /\ Sub(i) \in L3
      BY <1>17, <1>18, <2>8, <2>10, <3>1
    <3>3. QED
      BY <1>17, <2>9, <3>2, RewiredFrom
  <2>12. HasClone(c.h, S3, rank3, Added(c.h, b3), r)
    BY <2>7, <2>8, <2>11, AddedExtends
  <2>13. CloneFrom(ctes.h, b2) = Added(c.h, b3)
    BY <1>17, <1>18, <2>4, <2>10 DEF CloneFrom
  <2>14. Extends(h, S, rank, c.h, S3, rank3)
    BY <1>14, <2>6, ExtendsOn
  <2>15. QED
    BY <1>16, <2>12, <2>13, <2>14, ExtendsOn DEF HasClone
<1>19. CASE b.from.k # "sub"
  <2>2. HasClone(ctes.h, S2, rank2, Added(ctes.h, b2), r)
    BY <1>11, <1>12, <1>17, AddedExtends
  <2>3. CloneFrom(ctes.h, b2) = Added(ctes.h, b2)
    BY <1>17, <1>19 DEF CloneFrom
  <2>4. QED
    BY <1>14, <1>16, <2>2, <2>3, ExtendsOn DEF HasClone
<1>20. QED
  BY <1>18, <1>19

(* CloneBuilder is the recursion it is meant to be, where it ends. *)
CloneIsRecursion ==
    \A h, S, rank, id :
        HeapOver(h, S, rank) /\ Sub(id) \in S => CloneBuilder(h, id) = CloneOf(h, id)

(* Clone adds builders to the heap and changes none that is there: the      *)
(* clone is a query that ends where the one it is of does, over the same    *)
(* expressions (select.go, Clone).                                          *)
THEOREM ClonesExtend ==
    ASSUME CloneIsRecursion, NEW h, NEW S, NEW rank, HeapOver(h, S, rank),
           NEW id, Sub(id) \in S
    PROVE  HasClone(h, S, rank, CloneBuilder(h, id), rank[Sub(id)])
<1> DEFINE Bad == {n \in Nat : ~ClonesBelow(n)}
<1>1. ASSUME NEW n \in Bad, \A m \in Bad : n <= m
      PROVE  FALSE
  <2>1. n \in Nat /\ ~ClonesBelow(n)
    OBVIOUS
  <2>2. PICK g, T, rk, i :
           /\ HeapOver(g, T, rk) /\ Sub(i) \in T /\ rk[Sub(i)] < n
           /\ ~HasClone(g, T, rk, CloneBuilder(g, i), rk[Sub(i)])
    BY <2>1 DEF ClonesBelow
  <2>3. PICK r \in Nat : r = rk[Sub(i)]
    BY <2>2 DEF HeapOver, Ranked
  <2>4. r \notin Bad
    BY <1>1, <2>1, <2>2, <2>3
  <2>5. ClonesBelow(r)
    BY <2>4
  <2>6. HasClone(g, T, rk, CloneOf(g, i), r)
    BY <2>2, <2>3, <2>5, CloneOfIs
  <2>7. CloneBuilder(g, i) = CloneOf(g, i)
    BY <2>2 DEF CloneIsRecursion
  <2>8. QED
    BY <2>2, <2>3, <2>6, <2>7
<1>2. Bad = {}
  <2>1. Bad \in SUBSET Nat
    OBVIOUS
  <2> HIDE DEF Bad
  <2>2. QED
    BY <1>1, <2>1, LeastNumber
<1>3. PICK r \in Nat : r = rank[Sub(id)]
  BY DEF HeapOver, Ranked
<1>4. r + 1 \in Nat /\ r < r + 1
  OBVIOUS
<1>5. ClonesBelow(r + 1)
  BY <1>2, <1>4
<1>6. QED
  BY <1>3, <1>4, <1>5 DEF ClonesBelow

-----------------------------------------------------------------------------
(* Chunks. *)

(* The least of a set of numbers is Min. *)
LEMMA MinOf ==
    ASSUME NEW N \in SUBSET Nat, N # {}
    PROVE  Min(N) \in N /\ \A m \in N : Min(N) <= m
<1>1. \E n \in N : \A m \in N : n <= m
  BY LeastNumber
<1>2. QED
  BY <1>1 DEF Min

(* A set of numbers that has a bound has a greatest, and Max gives it. *)
LEMMA MaxOf ==
    ASSUME NEW n \in Nat, NEW N \in SUBSET (1 .. n), N # {}
    PROVE  Max(N) \in N /\ \A m \in N : m <= Max(N)
<1> DEFINE D == {n - m : m \in N}
<1>1. D \in SUBSET Nat /\ D # {}
  <2>1. \A m \in N : n - m \in Nat
    OBVIOUS
  <2>2. PICK m : m \in N
    OBVIOUS
  <2>3. n - m \in D
    BY <2>2
  <2>4. QED
    BY <2>1, <2>3
<1>2. PICK d \in D : \A e \in D : d <= e
  <2> HIDE DEF D
  <2>1. QED
    BY <1>1, LeastNumber
<1>3. PICK m \in N : d = n - m
  OBVIOUS
<1>4. ASSUME NEW k \in N
      PROVE  m >= k
  <2>1. n - k \in D
    OBVIOUS
  <2>2. n - m <= n - k
    BY <1>2, <1>3, <2>1
  <2>3. QED
    BY <2>2
<1>5. \E x \in N : \A y \in N : x >= y
  BY <1>4
<1>6. Max(N) \in N /\ \A y \in N : Max(N) >= y
  BY <1>5 DEF Max
<1>7. QED
  BY <1>6

(* Max of the first k numbers is k, and the rest are the k - 1 before. *)
LEMMA MaxOfInterval ==
    ASSUME NEW k \in Nat, k >= 1
    PROVE  Max(1 .. k) = k /\ (1 .. k) \ {k} = 1 .. k - 1
<1>1. k \in 1 .. k /\ 1 .. k # {} /\ 1 .. k \in SUBSET (1 .. k)
  OBVIOUS
<1>2. Max(1 .. k) \in 1 .. k /\ k <= Max(1 .. k)
  BY <1>1, MaxOf
<1>3. (1 .. k) \ {k} = 1 .. k - 1
  OBVIOUS
<1>4. QED
  BY <1>2, <1>3

(* Quotient and remainder. *)
LEMMA Divided ==
    ASSUME NEW n \in Nat, NEW b \in Nat, b > 0
    PROVE  n \div b \in Nat /\ (n % b) \in 0 .. b - 1 /\ n = b * (n \div b) + (n % b)
  OBVIOUS

(* There is only one of each. *)
LEMMA DividedOnce ==
    ASSUME NEW n \in Nat, NEW b \in Nat, b > 0, NEW q \in Nat, NEW r \in 0 .. b - 1,
           n = b * q + r
    PROVE  n \div b = q /\ (n % b) = r
  OBVIOUS

(* Multiples of b are in the order of what they are multiples by. *)
LEMMA TimesGrows ==
    ASSUME NEW b \in Nat, b > 0, NEW p \in Nat, NEW q \in Nat
    PROVE  /\ b * p \in Nat /\ b * (p + 1) = b * p + b
           /\ p <= q => b * p <= b * q
           /\ b * p < b * q => p < q
<1>1. b * p \in Nat /\ b * (p + 1) = b * p + b
  OBVIOUS
<1>2. ASSUME p <= q PROVE b * p <= b * q
  <2>1. PICK d \in Nat : q = p + d
    BY <1>2
  <2>2. b * d \in Nat /\ b * q = b * p + b * d
    BY <2>1
  <2>3. QED
    BY <1>1, <2>2
<1>3. ASSUME b * p < b * q PROVE p < q
  <2>1. CASE q <= p
    <3>1. PICK d \in Nat : p = q + d
      BY <2>1
    <3>2. b * d \in Nat /\ b * q \in Nat /\ b * p = b * q + b * d
      BY <3>1
    <3>3. QED
      BY <1>3, <3>2
  <2>2. QED
    BY <2>1
<1>4. QED
  BY <1>1, <1>2, <1>3
-----------------------------------------------------------------------------
(* The places of the rows in some chunks, and chunks with the same rows.    *)

Places(chunks) == UNION {{c} \X DOMAIN chunks[c] : c \in DOMAIN chunks}
At(chunks, p)  == chunks[p[1]][p[2]]

(* f takes every place of a to a place of b with the same row, and every    *)
(* place of b is taken once.                                                *)
Moves(f, a, b) ==
    /\ f \in [Places(a) -> Places(b)]
    /\ \A p, q \in Places(a) : f[p] = f[q] => p = q
    /\ \A q \in Places(b) : \E p \in Places(a) : f[p] = q
    /\ \A p \in Places(a) : At(b, f[p]) = At(a, p)
SameRows(a, b) == \E f : Moves(f, a, b)

(* A place is a chunk and a position in it. *)
LEMMA PlaceIs ==
    ASSUME NEW a
    PROVE  /\ \A c \in DOMAIN a : \A i \in DOMAIN a[c] : <<c, i>> \in Places(a)
           /\ \A p \in Places(a) : /\ p = <<p[1], p[2]>>
                                   /\ p[1] \in DOMAIN a /\ p[2] \in DOMAIN a[p[1]]
  BY DEF Places

(* Chunks have the same rows as themselves, *)
LEMMA SameAsItself ==
    ASSUME NEW a
    PROVE  SameRows(a, a)
<1>1. Moves([p \in Places(a) |-> p], a, a)
  BY DEF Moves
<1>2. QED
  BY <1>1 DEF SameRows

(* and as what has the same rows as others that have the same rows. *)
LEMMA SameAsOthers ==
    ASSUME NEW a, NEW b, NEW c, SameRows(a, b), SameRows(b, c)
    PROVE  SameRows(a, c)
<1>1. PICK f : Moves(f, a, b)
  BY DEF SameRows
<1>2. PICK g : Moves(g, b, c)
  BY DEF SameRows
<1> DEFINE h == [p \in Places(a) |-> g[f[p]]]
<1>3. h \in [Places(a) -> Places(c)]
  BY <1>1, <1>2 DEF Moves
<1>4. \A p, q \in Places(a) : h[p] = h[q] => p = q
  BY <1>1, <1>2 DEF Moves
<1>5. ASSUME NEW q \in Places(c)
      PROVE  \E p \in Places(a) : h[p] = q
  <2>1. PICK r \in Places(b) : g[r] = q
    BY <1>2 DEF Moves
  <2>2. PICK p \in Places(a) : f[p] = r
    BY <1>1 DEF Moves
  <2>3. QED
    BY <2>1, <2>2
<1>6. \A p \in Places(a) : At(c, h[p]) = At(a, p)
  BY <1>1, <1>2 DEF Moves
<1>7. Moves(h, a, c)
  <2> HIDE DEF h
  <2>1. QED
    BY <1>3, <1>4, <1>5, <1>6 DEF Moves
<1>8. QED
  BY <1>7 DEF SameRows

(* The places of chunks one after the other. *)
LEMMA PlacesJoined ==
    ASSUME NEW R, NEW a \in Seq(Seq(R)), NEW b \in Seq(Seq(R))
    PROVE  /\ \A c \in DOMAIN a : \A i \in DOMAIN a[c] :
                 <<c, i>> \in Places(a \o b) /\ (a \o b)[c] = a[c]
           /\ \A c \in DOMAIN b : \A i \in DOMAIN b[c] :
                 <<c + Len(a), i>> \in Places(a \o b) /\ (a \o b)[c + Len(a)] = b[c]
           /\ \A p \in Places(a \o b) :
                 \/ p[1] <= Len(a) /\ p \in Places(a)
                 \/ p[1] > Len(a) /\ <<p[1] - Len(a), p[2]>> \in Places(b)
<1>1. /\ Len(a) \in Nat /\ Len(b) \in Nat /\ DOMAIN a = 1 .. Len(a) /\ DOMAIN b = 1 .. Len(b)
      /\ DOMAIN (a \o b) = 1 .. Len(a) + Len(b)
  OBVIOUS
<1>2. \A c \in DOMAIN a : c \in DOMAIN (a \o b) /\ (a \o b)[c] = a[c]
  BY <1>1
<1>3. \A c \in DOMAIN b : c + Len(a) \in DOMAIN (a \o b) /\ (a \o b)[c + Len(a)] = b[c]
  BY <1>1
<1>4. PICK ab : ab = a \o b
  OBVIOUS
<1>5. ASSUME NEW p \in Places(ab)
      PROVE  \/ p[1] <= Len(a) /\ p \in Places(a)
             \/ p[1] > Len(a) /\ <<p[1] - Len(a), p[2]>> \in Places(b)
  <2>1. p = <<p[1], p[2]>> /\ p[1] \in DOMAIN ab /\ p[2] \in DOMAIN ab[p[1]]
    BY PlaceIs
  <2>2. CASE p[1] <= Len(a)
    <3>1. p[1] \in DOMAIN a /\ ab[p[1]] = a[p[1]]
      BY <1>1, <1>2, <1>4, <2>1, <2>2
    <3>2. <<p[1], p[2]>> \in Places(a)
      BY <2>1, <3>1, PlaceIs
    <3>3. QED
      BY <2>1, <2>2, <3>2
  <2>3. CASE p[1] > Len(a)
    <3>1. p[1] - Len(a) \in DOMAIN b /\ (p[1] - Len(a)) + Len(a) = p[1]
      BY <1>1, <1>4, <2>1, <2>3
    <3>2. ab[p[1]] = b[p[1] - Len(a)]
      BY <1>3, <1>4, <3>1
    <3>3. <<p[1] - Len(a), p[2]>> \in Places(b)
      BY <2>1, <3>1, <3>2, PlaceIs
    <3>4. QED
      BY <2>3, <3>3
  <2>4. QED
    BY <1>1, <1>4, <2>1, <2>2, <2>3
<1>6. QED
  BY <1>2, <1>3, <1>4, <1>5, PlaceIs

(* A place of the first, *)
LEMMA PlaceBefore ==
    ASSUME NEW R, NEW a \in Seq(Seq(R)), NEW b \in Seq(Seq(R)),
           NEW c \in DOMAIN a, NEW i \in DOMAIN a[c]
    PROVE  <<c, i>> \in Places(a \o b) /\ (a \o b)[c] = a[c]
  BY PlacesJoined

(* and of the second. *)
LEMMA PlaceAfter ==
    ASSUME NEW R, NEW a \in Seq(Seq(R)), NEW b \in Seq(Seq(R)),
           NEW c \in DOMAIN b, NEW i \in DOMAIN b[c]
    PROVE  <<c + Len(a), i>> \in Places(a \o b) /\ (a \o b)[c + Len(a)] = b[c]
  BY PlacesJoined

(* Chunks one after the other have the rows of both. *)
LEMMA SameJoined ==
    ASSUME NEW R, NEW a \in Seq(Seq(R)), NEW b \in Seq(Seq(R)),
           NEW c \in Seq(Seq(R)), NEW d \in Seq(Seq(R)), SameRows(a, c), SameRows(b, d)
    PROVE  SameRows(a \o b, c \o d)
<1>1. PICK f : Moves(f, a, c)
  BY DEF SameRows
<1>2. PICK g : Moves(g, b, d)
  BY DEF SameRows
<1> DEFINE back(p) == <<p[1] - Len(a), p[2]>>
           over(x) == <<x[1] + Len(a), x[2]>>
           to(q) == <<q[1] + Len(c), q[2]>>
           h == [p \in Places(a \o b) |-> IF p[1] <= Len(a) THEN f[p] ELSE to(g[back(p)])]
<1>3. Len(a) \in Nat /\ Len(c) \in Nat
  OBVIOUS
<1>4. ASSUME NEW p \in Places(a)
      PROVE  /\ p \in Places(a \o b) /\ h[p] = f[p] /\ f[p] \in Places(c)
             /\ f[p] \in Places(c \o d) /\ f[p][1] <= Len(c)
             /\ At(c \o d, h[p]) = At(a \o b, p)
  <2>1. p = <<p[1], p[2]>> /\ p[1] \in DOMAIN a /\ p[2] \in DOMAIN a[p[1]]
    BY PlaceIs
  <2>2. p \in Places(a \o b) /\ (a \o b)[p[1]] = a[p[1]]
    BY <2>1, PlaceBefore
  <2>3. p[1] <= Len(a) /\ h[p] = f[p]
    BY <2>1, <2>2
  <2>4. f[p] \in Places(c) /\ At(c, f[p]) = At(a, p)
    BY <1>1 DEF Moves
  <2>5. PICK q : q = f[p]
    OBVIOUS
  <2>6. q = <<q[1], q[2]>> /\ q[1] \in DOMAIN c /\ q[2] \in DOMAIN c[q[1]]
    BY <2>4, <2>5, PlaceIs
  <2>7. q \in Places(c \o d) /\ (c \o d)[q[1]] = c[q[1]]
    BY <2>6, PlaceBefore
  <2>8. q[1] <= Len(c)
    BY <2>6
  <2>9. At(c \o d, q) = At(a \o b, p)
    BY <2>2, <2>4, <2>5, <2>7 DEF At
  <2>10. QED
    BY <2>2, <2>3, <2>4, <2>5, <2>7, <2>8, <2>9
<1>5. ASSUME NEW x \in Places(b)
      PROVE  /\ over(x) \in Places(a \o b) /\ h[over(x)] = to(g[x]) /\ g[x] \in Places(d)
             /\ to(g[x]) \in Places(c \o d) /\ ~(to(g[x])[1] <= Len(c))
             /\ At(c \o d, h[over(x)]) = At(a \o b, over(x))
  <2> DEFINE p == over(x)
  <2>1. x = <<x[1], x[2]>> /\ x[1] \in DOMAIN b /\ x[2] \in DOMAIN b[x[1]]
    BY PlaceIs
  <2>2. p \in Places(a \o b) /\ (a \o b)[x[1] + Len(a)] = b[x[1]]
    <3>1. PICK k, i : k = x[1] /\ i = x[2]
      OBVIOUS
    <3>2. k \in DOMAIN b /\ i \in DOMAIN b[k]
      BY <2>1, <3>1
    <3>3. <<k + Len(a), i>> \in Places(a \o b) /\ (a \o b)[k + Len(a)] = b[k]
      BY <3>2, PlaceAfter
    <3>4. QED
      BY <3>1, <3>3
  <2>3. x[1] \in Nat /\ x[1] > 0
    BY <2>1
  <2>4. ~(p[1] <= Len(a)) /\ back(p) = x
    BY <1>3, <2>1, <2>3
  <2>5. h[p] = to(g[x])
    BY <2>2, <2>4
  <2>6. g[x] \in Places(d) /\ At(d, g[x]) = At(b, x)
    BY <1>2 DEF Moves
  <2>7. PICK q : q = g[x]
    OBVIOUS
  <2>8. q = <<q[1], q[2]>> /\ q[1] \in DOMAIN d /\ q[2] \in DOMAIN d[q[1]]
    BY <2>6, <2>7, PlaceIs
  <2>9. to(q) \in Places(c \o d) /\ (c \o d)[q[1] + Len(c)] = d[q[1]]
    <3>1. PICK k, i : k = q[1] /\ i = q[2]
      OBVIOUS
    <3>2. k \in DOMAIN d /\ i \in DOMAIN d[k]
      BY <2>8, <3>1
    <3>3. <<k + Len(c), i>> \in Places(c \o d) /\ (c \o d)[k + Len(c)] = d[k]
      BY <3>2, PlaceAfter
    <3>4. QED
      BY <3>1, <3>3
  <2>10. ~(to(q)[1] <= Len(c))
    BY <1>3, <2>8
  <2>11. At(c \o d, to(q)) = At(a \o b, p)
    BY <2>2, <2>6, <2>7, <2>9 DEF At
  <2>12. QED
    BY <2>2, <2>5, <2>6, <2>7, <2>9, <2>10, <2>11
<1>6. ASSUME NEW p \in Places(a \o b), p \notin Places(a)
      PROVE  \E x \in Places(b) : p = over(x)
  <2>1. p = <<p[1], p[2]>> /\ p[1] \in DOMAIN (a \o b)
    BY PlaceIs
  <2>2. p[1] \in Nat
    BY <2>1
  <2>3. (p[1] - Len(a)) + Len(a) = p[1]
    BY <1>3, <2>2
  <2>4. back(p) \in Places(b)
    BY <1>6, PlacesJoined
  <2>5. p = over(back(p))
    BY <2>1, <2>3
  <2>6. QED
    BY <2>4, <2>5
<1>7. ASSUME NEW q \in Places(c \o d), q \notin Places(c)
      PROVE  \E r \in Places(d) : q = to(r)
  <2> DEFINE r == <<q[1] - Len(c), q[2]>>
  <2>1. q = <<q[1], q[2]>> /\ q[1] \in DOMAIN (c \o d)
    BY PlaceIs
  <2>2. q[1] \in Nat
    BY <2>1
  <2>3. (q[1] - Len(c)) + Len(c) = q[1]
    BY <1>3, <2>2
  <2>4. r \in Places(d)
    BY <1>7, PlacesJoined
  <2>5. q = to(r)
    BY <2>1, <2>3
  <2>6. QED
    BY <2>4, <2>5
<1>8. ASSUME NEW u \in Places(d), NEW v \in Places(d), to(u) = to(v)
      PROVE  u = v
  <2>1. /\ u = <<u[1], u[2]>> /\ u[1] \in DOMAIN d
        /\ v = <<v[1], v[2]>> /\ v[1] \in DOMAIN d
    BY PlaceIs
  <2>2. u[1] \in Nat /\ v[1] \in Nat
    BY <2>1
  <2>3. u[1] + Len(c) = v[1] + Len(c) /\ u[2] = v[2]
    BY <1>8
  <2>4. u[1] = v[1]
    BY <1>3, <2>2, <2>3
  <2>5. QED
    BY <2>1, <2>3, <2>4
<1>9. DOMAIN h = Places(a \o b) /\ h = [p \in Places(a \o b) |-> h[p]]
  OBVIOUS
<1> HIDE DEF h, over, to, back
<1>10. ASSUME NEW p \in Places(a \o b)
       PROVE  h[p] \in Places(c \o d) /\ At(c \o d, h[p]) = At(a \o b, p)
  <2>1. CASE p \in Places(a)
    BY <1>4, <2>1
  <2>2. CASE p \notin Places(a)
    <3>1. PICK x \in Places(b) : p = over(x)
      BY <1>6, <2>2
    <3>2. QED
      BY <1>5, <3>1
  <2>3. QED
    BY <2>1, <2>2
<1>11. h \in [Places(a \o b) -> Places(c \o d)]
  BY <1>9, <1>10
<1>12. ASSUME NEW p \in Places(a), NEW x \in Places(b), h[p] = h[over(x)]
       PROVE  FALSE
  BY <1>4, <1>5, <1>12
<1>13. ASSUME NEW p \in Places(a \o b), NEW q \in Places(a \o b), h[p] = h[q]
       PROVE  p = q
  <2>1. CASE p \in Places(a) /\ q \in Places(a)
    <3>1. f[p] = f[q]
      BY <1>4, <1>13, <2>1
    <3>2. QED
      BY <1>1, <2>1, <3>1 DEF Moves
  <2>2. CASE p \in Places(a) /\ q \notin Places(a)
    <3>1. PICK x \in Places(b) : q = over(x)
      BY <1>6, <2>2
    <3>2. QED
      BY <1>12, <1>13, <2>2, <3>1
  <2>3. CASE p \notin Places(a) /\ q \in Places(a)
    <3>1. PICK x \in Places(b) : p = over(x)
      BY <1>6, <2>3
    <3>2. h[q] = h[over(x)]
      BY <1>13, <3>1
    <3>3. QED
      BY <1>12, <2>3, <3>2
  <2>4. CASE p \notin Places(a) /\ q \notin Places(a)
    <3>1. PICK x \in Places(b) : p = over(x)
      BY <1>6, <2>4
    <3>2. PICK y \in Places(b) : q = over(y)
      BY <1>6, <2>4
    <3>3. to(g[x]) = to(g[y]) /\ g[x] \in Places(d) /\ g[y] \in Places(d)
      BY <1>5, <1>13, <3>1, <3>2
    <3>4. g[x] = g[y]
      BY <1>8, <3>3
    <3>5. QED
      BY <1>2, <3>1, <3>2, <3>4 DEF Moves
  <2>5. QED
    BY <2>1, <2>2, <2>3, <2>4
<1>14. ASSUME NEW q \in Places(c \o d)
       PROVE  \E p \in Places(a \o b) : h[p] = q
  <2>1. CASE q \in Places(c)
    <3>1. PICK p \in Places(a) : f[p] = q
      BY <1>1, <2>1 DEF Moves
    <3>2. QED
      BY <1>4, <3>1
  <2>2. CASE q \notin Places(c)
    <3>1. PICK r \in Places(d) : q = to(r)
      BY <1>7, <2>2
    <3>2. PICK p \in Places(b) : g[p] = r
      BY <1>2, <3>1 DEF Moves
    <3>3. QED
      BY <1>5, <3>1, <3>2
  <2>3. QED
    BY <2>1, <2>2
<1>15. Moves(h, a \o b, c \o d)
  BY <1>10, <1>11, <1>13, <1>14 DEF Moves
<1>16. QED
  BY <1>15 DEF SameRows
-----------------------------------------------------------------------------
(* The groups.  groupInsertRows is a fold, a function of sets of positions  *)
(* that satisfies an equation; one is built from smaller sets to larger.    *)

GroupsOf(rows, g, s) == IF s = {} THEN <<>> ELSE AddRow(g[s \ {Max(s)}], rows[Max(s)])
IsFold(rows, S, g) == g = [s \in SUBSET S |-> GroupsOf(rows, g, s)]

(* The groups are what such a function makes of all positions. *)
LEMMA GroupsAreFold ==
    ASSUME NEW rows
    PROVE  groupInsertRows(rows) = (CHOOSE g : IsFold(rows, DOMAIN rows, g))[DOMAIN rows]
  BY DEF groupInsertRows, FoldLeft, MapThenFoldSet, IsFold, GroupsOf

(* g satisfies the equation for the sets of at most m positions. *)
FoldsUpTo(rows, S, g, m) ==
    \A s \in SUBSET S : Cardinality(s) <= m => g[s] = GroupsOf(rows, g, s)

(* There is such a function. *)
LEMMA FoldExists ==
    ASSUME NEW rows, NEW n \in Nat
    PROVE  \E g : IsFold(rows, 1 .. n, g)
<1> DEFINE S == 1 .. n
           Bad == {m \in Nat : ~\E g : FoldsUpTo(rows, S, g, m)}
<1>1. IsFiniteSet(S) /\ Cardinality(S) = n
  BY FS_Interval
<1>2. \A s \in SUBSET S : IsFiniteSet(s) /\ Cardinality(s) \in Nat /\ Cardinality(s) <= n
  BY <1>1, FS_Subset, FS_CardinalityType
<1>3. ASSUME NEW m \in Bad, \A k \in Bad : m <= k
      PROVE  FALSE
  <2>1. CASE m = 0
    <3>1. FoldsUpTo(rows, S, [s \in SUBSET S |-> <<>>], 0)
      <4>1. \A s \in SUBSET S : Cardinality(s) <= 0 => s = {}
        BY <1>2, FS_EmptySet
      <4>2. QED
        BY <4>1 DEF FoldsUpTo, GroupsOf
    <3>2. QED
      BY <2>1, <3>1
  <2>2. CASE m # 0
    <3>1. m - 1 \in Nat /\ m - 1 \notin Bad
      BY <1>3, <2>2
    <3>2. PICK g : FoldsUpTo(rows, S, g, m - 1)
      BY <3>1
    <3> DEFINE h == [s \in SUBSET S |-> GroupsOf(rows, g, s)]
    <3>3. ASSUME NEW s \in SUBSET S, Cardinality(s) <= m
          PROVE  h[s] = GroupsOf(rows, h, s)
      <4>1. CASE s = {}
        BY <4>1 DEF GroupsOf
      <4>2. CASE s # {}
        <5>1. Max(s) \in s
          BY <4>2, MaxOf
        <5>2. PICK x : x = Max(s)
          OBVIOUS
        <5>3. PICK t : t = s \ {x}
          OBVIOUS
        <5>4. t \in SUBSET S /\ Cardinality(t) <= m - 1
          <6>1. IsFiniteSet(s) /\ Cardinality(s) \in Nat /\ x \in s
            BY <1>2, <5>1, <5>2
          <6>2. Cardinality(t) = Cardinality(s) - 1
            BY <5>3, <6>1, FS_RemoveElement
          <6>3. Cardinality(s) - 1 <= m - 1
            BY <3>1, <3>3, <6>1
          <6>4. QED
            BY <5>3, <6>2, <6>3
        <5>5. g[t] = h[t]
          BY <3>2, <5>4 DEF FoldsUpTo
        <5>6. h[s] = AddRow(g[t], rows[x])
          BY <4>2, <5>2, <5>3 DEF GroupsOf
        <5>7. GroupsOf(rows, h, s) = AddRow(h[t], rows[x])
          BY <4>2, <5>2, <5>3 DEF GroupsOf
        <5>8. QED
          BY <5>5, <5>6, <5>7
      <4>3. QED
        BY <4>1, <4>2
    <3>4. FoldsUpTo(rows, S, h, m)
      <4> HIDE DEF h
      <4>1. QED
        BY <3>3 DEF FoldsUpTo
    <3>5. QED
      BY <3>4
  <2>3. QED
    BY <2>1, <2>2
<1>4. Bad = {}
  <2> HIDE DEF Bad
  <2>1. Bad \in SUBSET Nat
    BY DEF Bad
  <2>2. QED
    BY <1>3, <2>1, LeastNumber
<1>5. PICK g : FoldsUpTo(rows, S, g, n)
  BY <1>4
<1> DEFINE h == [s \in SUBSET S |-> GroupsOf(rows, g, s)]
<1>6. ASSUME NEW s \in SUBSET S
      PROVE  h[s] = g[s]
  BY <1>2, <1>5 DEF FoldsUpTo
<1>7. ASSUME NEW s \in SUBSET S
      PROVE  GroupsOf(rows, h, s) = GroupsOf(rows, g, s)
  <2>1. s \ {Max(s)} \in SUBSET S
    OBVIOUS
  <2>2. h[s \ {Max(s)}] = g[s \ {Max(s)}]
    BY <1>6, <2>1
  <2>3. QED
    BY <2>2 DEF GroupsOf
<1>8. IsFold(rows, S, h)
  <2>1. \A s \in SUBSET S : h[s] = GroupsOf(rows, h, s)
    BY <1>7
  <2>2. h = [s \in SUBSET S |-> h[s]]
    OBVIOUS
  <2> HIDE DEF h
  <2>3. QED
    BY <2>1, <2>2 DEF IsFold
<1>9. QED
  BY <1>8

(* The groups after each of the rows. *)
Grows(rows, P) ==
    /\ P[0] = <<>>
    /\ \A k \in DOMAIN rows : P[k] = AddRow(P[k - 1], rows[k])
    /\ P[Len(rows)] = groupInsertRows(rows)

(* The groups of all rows are those after the last. *)
LEMMA RowByRow ==
    ASSUME NEW R, NEW rows \in Seq(R)
    PROVE  \E P : Grows(rows, P)
<1> DEFINE n == Len(rows)
<1>1. n \in Nat /\ DOMAIN rows = 1 .. n
  OBVIOUS
<1> HIDE DEF n
<1>2. \E g : IsFold(rows, 1 .. n, g)
  BY <1>1, FoldExists
<1>3. PICK g : g = CHOOSE f : IsFold(rows, 1 .. n, f)
  OBVIOUS
<1>4. IsFold(rows, 1 .. n, g)
  BY <1>2, <1>3
<1>5. groupInsertRows(rows) = g[1 .. n]
  BY <1>1, <1>3, GroupsAreFold
<1>6. \A s \in SUBSET (1 .. n) : g[s] = GroupsOf(rows, g, s)
  BY <1>4 DEF IsFold
<1> DEFINE P == [k \in 0 .. n |-> g[1 .. k]]
<1>7. P[0] = <<>>
  <2>1. 1 .. 0 = {}
    OBVIOUS
  <2>2. P[0] = g[{}]
    BY <1>1, <2>1
  <2>3. {} \in SUBSET (1 .. n)
    OBVIOUS
  <2>4. g[{}] = GroupsOf(rows, g, {})
    BY <1>6, <2>3
  <2>5. QED
    BY <2>2, <2>4 DEF GroupsOf
<1>8. ASSUME NEW k \in 1 .. n
      PROVE  P[k] = AddRow(P[k - 1], rows[k])
  <2>1. k \in Nat /\ k >= 1 /\ k <= n
    BY <1>1
  <2>2. 1 .. k \in SUBSET (1 .. n) /\ 1 .. k # {}
    BY <1>1, <2>1
  <2>3. PICK s : s = 1 .. k
    OBVIOUS
  <2>4. Max(s) = k /\ s \ {k} = 1 .. k - 1
    BY <2>1, <2>3, MaxOfInterval
  <2>5. g[s] = AddRow(g[s \ {k}], rows[k])
    BY <1>6, <2>2, <2>3, <2>4 DEF GroupsOf
  <2>6. k \in 0 .. n /\ k - 1 \in 0 .. n
    BY <1>1, <2>1
  <2>7. QED
    BY <2>3, <2>4, <2>5, <2>6
<1>9. P[n] = g[1 .. n]
  BY <1>1
<1>10. Grows(rows, P)
  <2> HIDE DEF P
  <2>1. QED
    BY <1>1, <1>5, <1>7, <1>8, <1>9 DEF Grows, n
<1>11. QED
  BY <1>10

(* The same rows are so in both directions. *)
LEMMA SameBack ==
    ASSUME NEW a, NEW b, SameRows(a, b)
    PROVE  SameRows(b, a)
<1>1. PICK f : Moves(f, a, b)
  BY DEF SameRows
<1> DEFINE g == [q \in Places(b) |-> CHOOSE p \in Places(a) : f[p] = q]
<1>2. \A q \in Places(b) : g[q] \in Places(a) /\ f[g[q]] = q
  BY <1>1 DEF Moves
<1>3. g \in [Places(b) -> Places(a)]
  <2>1. \A q \in Places(b) : (CHOOSE p \in Places(a) : f[p] = q) \in Places(a)
    BY <1>1 DEF Moves
  <2>2. QED
    BY <2>1
<1> HIDE DEF g
<1>4. \A p, q \in Places(b) : g[p] = g[q] => p = q
  BY <1>2
<1>5. ASSUME NEW p \in Places(a)
      PROVE  \E q \in Places(b) : g[q] = p
  <2>1. f[p] \in Places(b)
    BY <1>1 DEF Moves
  <2>2. g[f[p]] = p
    BY <1>1, <1>2, <2>1 DEF Moves
  <2>3. QED
    BY <2>1, <2>2
<1>6. \A q \in Places(b) : At(a, g[q]) = At(b, q)
  BY <1>1, <1>2 DEF Moves
<1>7. Moves(g, b, a)
  BY <1>3, <1>4, <1>5, <1>6 DEF Moves
<1>8. QED
  BY <1>7 DEF SameRows

(* The row at the end of group k. *)
PutInto(groups, k, row) == [groups EXCEPT ![k] = Append(@, row)]

(* next has the row at the end of group k, and is as groups elsewhere. *)
IsPut(next, groups, k, row) ==
    /\ DOMAIN next = DOMAIN groups
    /\ next[k] = Append(groups[k], row)
    /\ \A c \in DOMAIN groups : c # k => next[c] = groups[c]

(* PutInto does that. *)
LEMMA PutKeeps ==
    ASSUME NEW R, NEW groups \in Seq(Seq(R)), NEW k \in DOMAIN groups, NEW row \in R
    PROVE  /\ PutInto(groups, k, row) \in Seq(Seq(R))
           /\ IsPut(PutInto(groups, k, row), groups, k, row)
<1>1. groups[k] \in Seq(R)
  OBVIOUS
<1>2. Append(groups[k], row) \in Seq(R)
  BY <1>1
<1>3. QED
  BY <1>2 DEF PutInto, IsPut

(* A row in a chunk of its own is the same row put into a group. *)
LEMMA SameWhenPut ==
    ASSUME NEW R, NEW groups \in Seq(Seq(R)), NEW k \in DOMAIN groups, NEW row \in R
    PROVE  SameRows(groups \o << <<row>> >>, PutInto(groups, k, row))
<1>1. PICK new : new = << <<row>> >>
  OBVIOUS
<1>2. PICK next : next = PutInto(groups, k, row)
  OBVIOUS
<1>3. /\ next \in Seq(Seq(R)) /\ DOMAIN next = DOMAIN groups
      /\ next[k] = Append(groups[k], row)
      /\ \A c \in DOMAIN groups : c # k => next[c] = groups[c]
  <2>1. next \in Seq(Seq(R)) /\ IsPut(next, groups, k, row)
    BY <1>2, PutKeeps
  <2>2. QED
    BY <2>1 DEF IsPut
<1>4. PICK all : all = groups \o new
  OBVIOUS
<1>5. new \in Seq(Seq(R)) /\ DOMAIN new = {1} /\ DOMAIN new[1] = {1} /\ new[1][1] = row
  BY <1>1
<1>6. PICK n \in Nat : n = Len(groups) /\ DOMAIN groups = 1 .. n
  OBVIOUS
<1>7. PICK l \in Nat : l = Len(groups[k]) /\ DOMAIN groups[k] = 1 .. l /\ groups[k] \in Seq(R)
  OBVIOUS
<1>8. /\ DOMAIN next[k] = 1 .. l + 1 /\ next[k][l + 1] = row
      /\ \A i \in 1 .. l : next[k][i] = groups[k][i]
  BY <1>3, <1>7
<1> DEFINE old == <<n + 1, 1>>
           end == <<k, l + 1>>
           f == [p \in Places(all) |-> IF p = old THEN end ELSE p]
<1>9. old \in Places(all) /\ At(all, old) = row
  <2>0. \A c \in DOMAIN new : \A i \in DOMAIN new[c] :
           <<c + Len(groups), i>> \in Places(groups \o new) /\ (groups \o new)[c + Len(groups)] = new[c]
    BY <1>5, PlacesJoined
  <2>1. <<1 + Len(groups), 1>> \in Places(all) /\ all[1 + Len(groups)] = new[1]
    BY <1>4, <1>5, <2>0
  <2>2. 1 + Len(groups) = n + 1
    BY <1>6
  <2>3. QED
    BY <1>5, <2>1, <2>2 DEF At
<1>10. ASSUME NEW p \in Places(groups)
       PROVE  /\ p \in Places(all) /\ p # old /\ p \in Places(next) /\ p # end
              /\ At(all, p) = At(groups, p) /\ At(next, p) = At(groups, p)
  <2>1. p = <<p[1], p[2]>> /\ p[1] \in DOMAIN groups /\ p[2] \in DOMAIN groups[p[1]]
    BY PlaceIs
  <2>2. p \in Places(all) /\ all[p[1]] = groups[p[1]]
    BY <1>4, <1>5, <2>1, PlacesJoined
  <2>3. p[1] # n + 1
    BY <1>6, <2>1
  <2>4. p[1] = k => p[2] \in 1 .. l
    BY <1>7, <2>1
  <2>5. p[2] \in DOMAIN next[p[1]] /\ next[p[1]][p[2]] = groups[p[1]][p[2]]
    <3>1. CASE p[1] = k
      <4>1. p[2] \in 1 .. l /\ p[2] \in 1 .. l + 1
        BY <2>4, <3>1
      <4>2. QED
        BY <1>8, <3>1, <4>1
    <3>2. CASE p[1] # k
      BY <1>3, <2>1, <3>2
    <3>3. QED
      BY <3>1, <3>2
  <2>6. p \in Places(next)
    BY <1>3, <2>1, <2>5, PlaceIs
  <2>7. p # end
    <3>1. l + 1 \notin 1 .. l
      OBVIOUS
    <3>2. QED
      BY <2>4, <3>1
  <2>8. QED
    BY <2>2, <2>3, <2>5, <2>6, <2>7 DEF At
<1>11. end \in Places(next) /\ At(next, end) = row
  <2>1. l + 1 \in DOMAIN next[k]
    BY <1>8
  <2>2. QED
    BY <1>3, <1>8, <2>1, PlaceIs DEF At
<1>12. ASSUME NEW p \in Places(all), p # old
       PROVE  p \in Places(groups)
  <2>1. p = <<p[1], p[2]>> /\ p[1] \in DOMAIN all
    BY PlaceIs
  <2>2. p[1] \in Nat
    BY <1>4, <1>5, <2>1
  <2>3. CASE <<p[1] - n, p[2]>> \in Places(new)
    <3>1. PICK x : x = <<p[1] - n, p[2]>>
      OBVIOUS
    <3>2. x[1] \in DOMAIN new /\ x[2] \in DOMAIN new[x[1]]
      BY <2>3, <3>1, PlaceIs
    <3>3. p[1] - n = 1 /\ p[2] = 1
      BY <1>5, <3>1, <3>2
    <3>4. p[1] = n + 1
      BY <2>2, <3>3
    <3>5. QED
      BY <1>12, <2>1, <3>3, <3>4
  <2>4. QED
    BY <1>4, <1>5, <1>6, <2>3, PlacesJoined
<1>13. ASSUME NEW q \in Places(next), q # end
       PROVE  q \in Places(groups)
  <2>1. q = <<q[1], q[2]>> /\ q[1] \in DOMAIN groups /\ q[2] \in DOMAIN next[q[1]]
    BY <1>3, PlaceIs
  <2>2. q[2] \in DOMAIN groups[q[1]]
    <3>1. CASE q[1] = k
      <4>1. q[2] \in 1 .. l + 1 /\ q[2] # l + 1
        BY <1>8, <1>13, <2>1, <3>1
      <4>2. q[2] \in 1 .. l
        BY <4>1
      <4>3. QED
        BY <1>7, <3>1, <4>2
    <3>2. CASE q[1] # k
      BY <1>3, <2>1, <3>2
    <3>3. QED
      BY <3>1, <3>2
  <2>3. QED
    BY <2>1, <2>2, PlaceIs
<1>14. /\ f = [p \in Places(all) |-> f[p]] /\ f[old] = end
       /\ \A p \in Places(groups) : f[p] = p
  BY <1>9, <1>10
<1> HIDE DEF f, old, end
<1>15. \A p \in Places(all) : p = old \/ p \in Places(groups)
  BY <1>12
<1>16. \A p \in Places(all) : f[p] \in Places(next) /\ At(next, f[p]) = At(all, p)
  BY <1>9, <1>10, <1>11, <1>14, <1>15
<1>17. \A p, q \in Places(all) : f[p] = f[q] => p = q
  BY <1>10, <1>14, <1>15
<1>18. \A q \in Places(next) : \E p \in Places(all) : f[p] = q
  BY <1>9, <1>10, <1>13, <1>14
<1>19. Moves(f, all, next)
  BY <1>14, <1>16, <1>17, <1>18 DEF Moves
<1>20. QED
  BY <1>1, <1>2, <1>4, <1>19 DEF SameRows

(* No group is empty, and its rows have the columns of its first; two       *)
(* groups have different columns.                                           *)
Uniform(chunk)   == chunk # <<>> /\ \A i \in DOMAIN chunk : ColumnSet(chunk[i]) = ColumnSet(chunk[1])
Apart(groups)    == \A c, d \in DOMAIN groups :
                        ColumnSet(groups[c][1]) = ColumnSet(groups[d][1]) => c = d
AllGrouped(groups)  == Apart(groups) /\ \A c \in DOMAIN groups : Uniform(groups[c])

(* A row more is in a group more or in one of those there are. *)
LEMMA AddRowIs ==
    ASSUME NEW R, NEW groups \in Seq(Seq(R)), NEW row \in R
    PROVE  \/ /\ AddRow(groups, row) = groups \o << <<row>> >>
              /\ \A c \in DOMAIN groups : ColumnSet(groups[c][1]) # ColumnSet(row)
           \/ \E k \in DOMAIN groups :
                 /\ AddRow(groups, row) = PutInto(groups, k, row)
                 /\ ColumnSet(groups[k][1]) = ColumnSet(row)
<1> DEFINE same == {k \in DOMAIN groups : ColumnSet(groups[k][1]) = ColumnSet(row)}
<1>1. CASE same = {}
  <2>1. AddRow(groups, row) = Append(groups, <<row>>)
    BY <1>1 DEF AddRow
  <2>2. Append(groups, <<row>>) = groups \o << <<row>> >>
    OBVIOUS
  <2>3. QED
    BY <1>1, <2>1, <2>2
<1>2. CASE same # {}
  <2>1. same \in SUBSET Nat
    OBVIOUS
  <2>2. Min(same) \in same
    <3> HIDE DEF same
    <3>1. QED
      BY <1>2, <2>1, MinOf
  <2>3. AddRow(groups, row) = PutInto(groups, Min(same), row)
    BY <1>2 DEF AddRow, PutInto
  <2>4. QED
    BY <2>2, <2>3
<1>3. QED
  BY <1>1, <1>2

(* With the row the groups have the rows so far, each group of one column set. *)
LEMMA AddRowKeeps ==
    ASSUME NEW R, NEW groups \in Seq(Seq(R)), NEW row \in R, NEW s \in Seq(R),
           SameRows(<<s>>, groups), AllGrouped(groups)
    PROVE  LET next == AddRow(groups, row) IN
           next \in Seq(Seq(R)) /\ SameRows(<<Append(s, row)>>, next) /\ AllGrouped(next)
<1>1. PICK new : new = << <<row>> >>
  OBVIOUS
<1>2. new \in Seq(Seq(R)) /\ <<s>> \in Seq(Seq(R)) /\ <<row>> \in Seq(R)
  BY <1>1
<1>3. SameRows(<<Append(s, row)>>, groups \o new)
  <2>1. PutInto(<<s>>, 1, row) = <<Append(s, row)>>
    BY DEF PutInto
  <2>2. SameRows(<<s>> \o new, <<Append(s, row)>>)
    <3>1. 1 \in DOMAIN <<s>>
      OBVIOUS
    <3>2. QED
      BY <1>1, <1>2, <2>1, <3>1, SameWhenPut
  <2>3. SameRows(<<s>> \o new, groups \o new)
    BY <1>2, SameAsItself, SameJoined
  <2>4. QED
    BY <2>2, <2>3, SameBack, SameAsOthers
<1>4. CASE /\ AddRow(groups, row) = groups \o << <<row>> >>
           /\ \A c \in DOMAIN groups : ColumnSet(groups[c][1]) # ColumnSet(row)
  <2>1. PICK next : next = groups \o new
    OBVIOUS
  <2>2. AddRow(groups, row) = next /\ next \in Seq(Seq(R))
    BY <1>1, <1>2, <1>4, <2>1
  <2>3. PICK n \in Nat : n = Len(groups) /\ DOMAIN groups = 1 .. n
    OBVIOUS
  <2>4. /\ DOMAIN next = 1 .. n + 1 /\ next[n + 1] = <<row>>
        /\ \A c \in 1 .. n : next[c] = groups[c]
    BY <1>1, <1>2, <2>1, <2>3
  <2>5. \A c \in DOMAIN next : c = n + 1 \/ c \in DOMAIN groups
    BY <2>3, <2>4
  <2>6. <<row>> # <<>> /\ DOMAIN <<row>> = {1} /\ <<row>>[1] = row
    OBVIOUS
  <2>7. \A c \in DOMAIN next : Uniform(next[c])
    BY <2>3, <2>4, <2>5, <2>6 DEF AllGrouped, Uniform
  <2>8. Apart(next)
    BY <1>4, <2>3, <2>4, <2>5, <2>6 DEF AllGrouped, Apart
  <2>9. QED
    BY <1>3, <2>1, <2>2, <2>7, <2>8 DEF AllGrouped
<1>5. ASSUME NEW k \in DOMAIN groups, AddRow(groups, row) = PutInto(groups, k, row),
             ColumnSet(groups[k][1]) = ColumnSet(row)
      PROVE  LET next == AddRow(groups, row) IN
             next \in Seq(Seq(R)) /\ SameRows(<<Append(s, row)>>, next) /\ AllGrouped(next)
  <2>1. PICK next : next = PutInto(groups, k, row)
    OBVIOUS
  <2>2. /\ next \in Seq(Seq(R)) /\ DOMAIN next = DOMAIN groups
        /\ next[k] = Append(groups[k], row)
        /\ \A c \in DOMAIN groups : c # k => next[c] = groups[c]
    <3>1. next \in Seq(Seq(R)) /\ IsPut(next, groups, k, row)
      BY <2>1, PutKeeps
    <3>2. QED
      BY <3>1 DEF IsPut
  <2>3. SameRows(groups \o new, next)
    BY <1>1, <2>1, SameWhenPut
  <2>4. groups[k] # <<>> /\ \A i \in DOMAIN groups[k] : ColumnSet(groups[k][i]) = ColumnSet(row)
    BY <1>5 DEF AllGrouped, Uniform
  <2>5. PICK l \in Nat : l = Len(groups[k]) /\ DOMAIN groups[k] = 1 .. l /\ groups[k] \in Seq(R)
    OBVIOUS
  <2>6. l > 0
    BY <2>4, <2>5
  <2>7. /\ DOMAIN next[k] = 1 .. l + 1 /\ next[k][l + 1] = row
        /\ \A i \in 1 .. l : next[k][i] = groups[k][i]
    BY <2>2, <2>5
  <2>8. next[k] # <<>> /\ \A i \in DOMAIN next[k] : ColumnSet(next[k][i]) = ColumnSet(row)
    <3>1. \A i \in 1 .. l + 1 : i = l + 1 \/ i \in 1 .. l
      OBVIOUS
    <3>2. next[k] # <<>>
      <4>1. 1 \in DOMAIN next[k]
        BY <2>7
      <4>2. QED
        BY <4>1
    <3>3. QED
      BY <2>4, <2>5, <2>7, <3>1, <3>2
  <2>9. 1 \in DOMAIN next[k] /\ ColumnSet(next[k][1]) = ColumnSet(groups[k][1])
    BY <1>5, <2>7, <2>8
  <2>10. \A c \in DOMAIN next : Uniform(next[c])
    BY <2>2, <2>8, <2>9 DEF AllGrouped, Uniform
  <2>11. Apart(next)
    <3>1. \A c \in DOMAIN groups : ColumnSet(next[c][1]) = ColumnSet(groups[c][1])
      BY <2>2, <2>9
    <3>2. QED
      BY <2>2, <3>1 DEF AllGrouped, Apart
  <2>12. QED
    <3>1. groups \o new \in Seq(Seq(R))
      BY <1>2
    <3>2. SameRows(<<Append(s, row)>>, next)
      BY <1>3, <2>3, SameAsOthers
    <3>3. QED
      BY <1>5, <2>1, <2>2, <2>10, <2>11, <3>2 DEF AllGrouped
<1>6. QED
  BY <1>4, <1>5, AddRowIs

(* The first rows, and one more. *)
LEMMA FirstRows ==
    ASSUME NEW R, NEW rows \in Seq(R), NEW k \in DOMAIN rows
    PROVE  /\ SubSeq(rows, 1, k - 1) \in Seq(R)
           /\ SubSeq(rows, 1, k) = Append(SubSeq(rows, 1, k - 1), rows[k])
<1>1. /\ k \in 1 .. Len(rows) /\ 1 \in 1 .. Len(rows) /\ k \in 1 .. Len(rows)
      /\ k - 1 \in Int /\ \A i \in 1 .. k - 1 : rows[i] \in R
  OBVIOUS
<1>2. PICK s : s = SubSeq(rows, 1, k - 1)
  OBVIOUS
<1>3. s \in Seq(R)
  BY <1>1, <1>2, SubSeqProperties
<1>4. SubSeq(rows, 1, k) = s \o <<rows[k]>>
  BY <1>1, <1>2, SubSeqRecursiveSecond
<1>5. rows[k] \in R
  OBVIOUS
<1>6. s \o <<rows[k]>> = Append(s, rows[k])
  BY <1>3, <1>5
<1>7. QED
  BY <1>2, <1>3, <1>4, <1>6

(* The groups have the rows they were made from. *)
LEMMA GroupsKeepRows ==
    ASSUME NEW R, NEW rows \in Seq(R)
    PROVE  /\ groupInsertRows(rows) \in Seq(Seq(R))
           /\ SameRows(<<rows>>, groupInsertRows(rows))
           /\ AllGrouped(groupInsertRows(rows))
<1>1. PICK n \in Nat : n = Len(rows) /\ DOMAIN rows = 1 .. n
  OBVIOUS
<1>2. PICK P : Grows(rows, P)
  BY RowByRow
<1> DEFINE Good(k) == /\ P[k] \in Seq(Seq(R)) /\ SameRows(<<SubSeq(rows, 1, k)>>, P[k])
                      /\ AllGrouped(P[k])
           Bad == {k \in 0 .. n : ~Good(k)}
<1>3. ASSUME NEW k \in Bad, \A j \in Bad : k <= j
      PROVE  FALSE
  <2>1. CASE k = 0
    <3>1. P[0] = <<>>
      BY <1>2 DEF Grows
    <3>2. SubSeq(rows, 1, 0) = <<>>
      OBVIOUS
    <3>3. Places(<< <<>> >>) = {} /\ Places(<<>>) = {}
      BY DEF Places
    <3>4. SameRows(<< <<>> >>, <<>>)
      <4>1. PICK a : a = << <<>> >>
        OBVIOUS
      <4>2. PICK b : b = <<>>
        OBVIOUS
      <4>3. Moves([p \in {} |-> p], a, b)
        BY <3>3, <4>1, <4>2 DEF Moves
      <4>4. QED
        BY <4>1, <4>2, <4>3 DEF SameRows
    <3>5. <<>> \in Seq(Seq(R)) /\ AllGrouped(<<>>)
      BY DEF AllGrouped, Apart
    <3>6. Good(0)
      BY <3>1, <3>2, <3>4, <3>5
    <3>7. QED
      BY <2>1, <3>6
  <2>2. CASE k # 0
    <3>1. k \in DOMAIN rows /\ k - 1 \in 0 .. n /\ k - 1 \notin Bad
      <4>1. k \in 0 .. n
        OBVIOUS
      <4> HIDE DEF Bad
      <4>2. k \in DOMAIN rows /\ k - 1 \in 0 .. n
        BY <1>1, <2>2, <4>1
      <4>3. k - 1 \notin Bad
        BY <1>3, <4>1
      <4>4. QED
        BY <4>2, <4>3
    <3>2. Good(k - 1)
      BY <3>1
    <3>3. PICK s : s = SubSeq(rows, 1, k - 1)
      OBVIOUS
    <3>4. PICK groups : groups = P[k - 1]
      OBVIOUS
    <3>5. PICK row : row = rows[k]
      OBVIOUS
    <3>6. s \in Seq(R) /\ SubSeq(rows, 1, k) = Append(s, row)
      BY <3>1, <3>3, <3>5, FirstRows
    <3>7. groups \in Seq(Seq(R)) /\ SameRows(<<s>>, groups) /\ AllGrouped(groups)
      BY <3>2, <3>3, <3>4
    <3>8. row \in R
      BY <3>1, <3>5
    <3>9. P[k] = AddRow(groups, row)
      BY <1>2, <3>1, <3>4, <3>5 DEF Grows
    <3>10. PICK next : next = AddRow(groups, row)
      OBVIOUS
    <3>11. next \in Seq(Seq(R)) /\ SameRows(<<Append(s, row)>>, next) /\ AllGrouped(next)
      BY <3>6, <3>7, <3>8, <3>10, AddRowKeeps
    <3>12. Good(k)
      BY <3>6, <3>9, <3>10, <3>11
    <3>13. QED
      BY <1>3, <3>12
  <2>3. QED
    BY <2>1, <2>2
<1>4. Bad = {}
  <2>1. Bad \in SUBSET Nat
    OBVIOUS
  <2> HIDE DEF Bad
  <2>2. QED
    BY <1>3, <2>1, LeastNumber
<1>5. Good(n)
  <2>1. n \in 0 .. n
    OBVIOUS
  <2>2. QED
    BY <1>4, <2>1
<1>6. P[n] = groupInsertRows(rows)
  BY <1>1, <1>2 DEF Grows
<1>7. SubSeq(rows, 1, n) = rows
  BY <1>1
<1>8. QED
  BY <1>5, <1>6, <1>7

(* Rows that have the same columns make one group. *)
LEMMA OneGroup ==
    ASSUME NEW R, NEW chunk \in Seq(R), Uniform(chunk)
    PROVE  groupInsertRows(chunk) = <<chunk>>
<1>1. PICK n \in Nat : n = Len(chunk) /\ DOMAIN chunk = 1 .. n /\ n > 0
  BY DEF Uniform
<1>2. PICK P : Grows(chunk, P)
  BY RowByRow
<1> DEFINE Good(k) == P[k] = <<SubSeq(chunk, 1, k)>>
           Bad == {k \in 1 .. n : ~Good(k)}
<1>3. ASSUME NEW k \in Bad, \A j \in Bad : k <= j
      PROVE  FALSE
  <2>1. k \in 1 .. n /\ k \in DOMAIN chunk /\ ~Good(k)
    BY <1>1
  <2>2. PICK row : row = chunk[k]
    OBVIOUS
  <2>3. P[k] = AddRow(P[k - 1], row)
    BY <1>2, <2>1, <2>2 DEF Grows
  <2>4. PICK s : s = SubSeq(chunk, 1, k - 1)
    OBVIOUS
  <2>5. s \in Seq(R) /\ SubSeq(chunk, 1, k) = Append(s, row)
    BY <2>1, <2>2, <2>4, FirstRows
  <2>6. CASE k = 1
    <3>1. P[1] = AddRow(<<>>, row)
      BY <1>2, <2>3, <2>6 DEF Grows
    <3>2. AddRow(<<>>, row) = << <<row>> >>
      BY DEF AddRow
    <3>3. s = <<>>
      BY <2>4, <2>6
    <3>4. Append(<<>>, row) = <<row>>
      OBVIOUS
    <3>5. SubSeq(chunk, 1, k) = <<row>>
      BY <2>5, <3>3, <3>4
    <3>6. P[k] = << <<row>> >>
      BY <2>6, <3>1, <3>2
    <3>7. QED
      BY <2>1, <3>5, <3>6
  <2>7. CASE k # 1
    <3>1. k - 1 \in 1 .. n /\ k - 1 \notin Bad
      BY <1>3, <2>1, <2>7
    <3>2. P[k - 1] = <<s>>
      BY <2>4, <3>1
    <3>3. s[1] = chunk[1]
      BY <1>1, <2>1, <2>4, <3>1
    <3>4. ColumnSet(s[1]) = ColumnSet(row)
      BY <2>1, <2>2, <3>3 DEF Uniform
    <3>5. AddRow(<<s>>, row) = <<Append(s, row)>>
      <4>1. {c \in DOMAIN <<s>> : ColumnSet(<<s>>[c][1]) = ColumnSet(row)} = {1}
        BY <3>4
      <4>2. Min({1}) = 1
        <5>1. PICK N : N = {1}
          OBVIOUS
        <5>2. N \in SUBSET Nat /\ N # {}
          BY <5>1
        <5>3. Min(N) \in N
          BY <5>2, MinOf
        <5>4. QED
          BY <5>1, <5>3
      <4>3. AddRow(<<s>>, row) = [<<s>> EXCEPT ![1] = Append(@, row)]
        BY <4>1, <4>2 DEF AddRow
      <4>4. PICK t : t = Append(s, row)
        OBVIOUS
      <4>5. AddRow(<<s>>, row) = [<<s>> EXCEPT ![1] = t]
        BY <4>3, <4>4
      <4>6. [<<s>> EXCEPT ![1] = t] = <<t>>
        OBVIOUS
      <4>7. QED
        BY <4>4, <4>5, <4>6
    <3>6. QED
      BY <2>1, <2>3, <2>5, <3>2, <3>5
  <2>8. QED
    BY <2>6, <2>7
<1>4. Bad = {}
  <2>1. Bad \in SUBSET Nat
    OBVIOUS
  <2> HIDE DEF Bad
  <2>2. QED
    BY <1>3, <2>1, LeastNumber
<1>5. Good(n)
  BY <1>1, <1>4
<1>6. P[n] = groupInsertRows(chunk)
  BY <1>1, <1>2 DEF Grows
<1>7. SubSeq(chunk, 1, n) = chunk
  BY <1>1
<1>8. QED
  BY <1>5, <1>6, <1>7
-----------------------------------------------------------------------------
(* The pieces of a group. *)

Pieces(n, b)    == (n + b - 1) \div b
Before(b, c)    == (c - 1) * b
Through(n, b, c) == Min({c * b, n})

(* A piece begins where the one before it ends, has a row and at most b. *)
LEMMA PieceBounds ==
    ASSUME NEW n \in Nat, n > 0, NEW b \in Nat, b > 0
    PROVE  /\ Pieces(n, b) \in Nat /\ n <= b * Pieces(n, b)
           /\ \A c \in 1 .. Pieces(n, b) :
                 /\ Before(b, c) \in Nat /\ Through(n, b, c) \in Nat
                 /\ Before(b, c) < Through(n, b, c) /\ Through(n, b, c) <= n
                 /\ Through(n, b, c) <= Before(b, c) + b
                 /\ Through(n, b, c) = n \/ Through(n, b, c) = Before(b, c) + b
<1>1. n + b - 1 \in Nat
  OBVIOUS
<1>2. PICK m : m = (n + b - 1) \div b
  OBVIOUS
<1>3. PICK r : r = ((n + b - 1) % b)
  OBVIOUS
<1>4. m \in Nat /\ r \in 0 .. b - 1 /\ n + b - 1 = b * m + r
  BY <1>1, <1>2, <1>3, Divided
<1>5. b * m \in Nat
  BY <1>4
<1>6. n <= b * m /\ b * m <= n + b - 1
  BY <1>4, <1>5
<1>7. ASSUME NEW c \in 1 .. m
      PROVE  /\ Before(b, c) \in Nat /\ Through(n, b, c) \in Nat
             /\ Before(b, c) < Through(n, b, c) /\ Through(n, b, c) <= n
             /\ Through(n, b, c) <= Before(b, c) + b
             /\ Through(n, b, c) = n \/ Through(n, b, c) = Before(b, c) + b
  <2>1. c \in Nat /\ c - 1 \in Nat /\ c <= m /\ m - 1 \in Nat /\ c - 1 <= m - 1
    BY <1>4
  <2>2. PICK k : k = Before(b, c)
    OBVIOUS
  <2>3. k = b * (c - 1)
    BY <2>1, <2>2 DEF Before
  <2>4. k \in Nat /\ c * b = k + b
    <3>1. PICK p \in Nat : p = c - 1
      BY <2>1
    <3>2. b * p \in Nat /\ b * (p + 1) = b * p + b
      BY <3>1, TimesGrows
    <3>3. p + 1 = c
      BY <2>1, <3>1
    <3>4. b * c = c * b
      BY <2>1
    <3>5. QED
      BY <2>3, <3>1, <3>2, <3>3, <3>4
  <2>5. k < n
    <3>1. PICK q \in Nat : q = m - 1
      BY <2>1
    <3>2. b * (c - 1) <= b * q
      BY <2>1, <3>1, TimesGrows
    <3>3. b * (q + 1) = b * q + b /\ b * q \in Nat
      BY <3>1, TimesGrows
    <3>4. q + 1 = m
      BY <1>4, <3>1
    <3>5. b * q + b <= n + b - 1
      BY <1>6, <3>3, <3>4
    <3>6. QED
      BY <2>3, <2>4, <3>2, <3>3, <3>5
  <2>6. PICK N : N = {c * b, n}
    OBVIOUS
  <2>7. N \in SUBSET Nat /\ N # {} /\ k + b \in N /\ n \in N
    BY <2>4, <2>6
  <2>8. Min(N) \in N /\ Min(N) <= n /\ Min(N) <= k + b
    BY <2>7, MinOf
  <2>9. PICK e : e = Min(N)
    OBVIOUS
  <2>10. e \in Nat /\ (e = n \/ e = k + b) /\ e <= n /\ e <= k + b
    BY <2>4, <2>6, <2>7, <2>8, <2>9
  <2>11. k < e
    BY <2>4, <2>5, <2>10
  <2>12. Through(n, b, c) = e
    BY <2>6, <2>9 DEF Through
  <2>13. QED
    BY <2>2, <2>4, <2>10, <2>11, <2>12
<1>8. Pieces(n, b) = m
  BY <1>2 DEF Pieces
<1>9. QED
  BY <1>4, <1>6, <1>7, <1>8

(* The rows of s after the first k and up to e. *)
IsPiece(piece, s, k, e) ==
    DOMAIN piece = 1 .. e - k /\ \A i \in DOMAIN piece : piece[i] = s[k + i]

(* Cut as a sequence of pieces. *)
LEMMA CutIs ==
    ASSUME NEW R, NEW s \in Seq(R), s # <<>>, NEW b \in Nat, b > 0
    PROVE  /\ Cut(s, b) \in Seq(Seq(R)) /\ DOMAIN Cut(s, b) = 1 .. Pieces(Len(s), b)
           /\ \A c \in 1 .. Pieces(Len(s), b) :
                 IsPiece(Cut(s, b)[c], s, Before(b, c), Through(Len(s), b, c))
<1>0. PICK n \in Nat : n = Len(s) /\ n > 0
  OBVIOUS
<1>1. PICK m : m = Pieces(n, b)
  OBVIOUS
<1>2. m \in Nat
  BY <1>0, <1>1, PieceBounds
<1>3. Cut(s, b) = [c \in 1 .. m |-> SubSeq(s, Before(b, c) + 1, Through(n, b, c))]
  BY <1>0, <1>1 DEF Cut, Pieces, Before, Through
<1>4. ASSUME NEW c \in 1 .. m
      PROVE  LET piece == SubSeq(s, Before(b, c) + 1, Through(n, b, c)) IN
             piece \in Seq(R) /\ IsPiece(piece, s, Before(b, c), Through(n, b, c))
  <2>1. PICK k : k = Before(b, c)
    OBVIOUS
  <2>2. PICK e : e = Through(n, b, c)
    OBVIOUS
  <2>3. k \in Nat /\ e \in Nat /\ k < e /\ e <= n
    BY <1>0, <1>1, <2>1, <2>2, PieceBounds
  <2>4. PICK piece : piece = SubSeq(s, k + 1, e)
    OBVIOUS
  <2>5. k + 1 \in Int /\ e \in Int /\ k + 1 <= e /\ \A i \in k + 1 .. e : s[i] \in R
    <3>1. \A i \in k + 1 .. e : i \in 1 .. Len(s)
      BY <1>0, <2>3
    <3>2. \A i \in 1 .. Len(s) : s[i] \in R
      OBVIOUS
    <3>3. QED
      BY <2>3, <3>1, <3>2
  <2>6. /\ piece \in Seq(R) /\ Len(piece) = e - (k + 1) + 1
        /\ \A i \in 1 .. e - (k + 1) + 1 : piece[i] = s[k + 1 + i - 1]
    BY <2>4, <2>5, SubSeqProperties
  <2>7. e - (k + 1) + 1 = e - k
    BY <2>3
  <2>8. DOMAIN piece = 1 .. e - k
    BY <2>6, <2>7
  <2>9. \A i \in 1 .. e - k : piece[i] = s[k + i]
    <3>1. \A i \in 1 .. e - k : k + 1 + i - 1 = k + i
      BY <2>3
    <3>2. QED
      BY <2>6, <2>7, <3>1
  <2>10. QED
    BY <2>1, <2>2, <2>4, <2>6, <2>8, <2>9 DEF IsPiece
<1>5. PICK cut : cut = Cut(s, b)
  OBVIOUS
<1>6. DOMAIN cut = 1 .. m
  BY <1>3, <1>5
<1>7. ASSUME NEW c \in 1 .. m
      PROVE  cut[c] \in Seq(R) /\ IsPiece(cut[c], s, Before(b, c), Through(n, b, c))
  <2>1. cut[c] = SubSeq(s, Before(b, c) + 1, Through(n, b, c))
    BY <1>3, <1>5
  <2>2. QED
    BY <1>4, <2>1
<1>8. cut \in Seq(Seq(R))
  <2>1. cut = [c \in 1 .. m |-> cut[c]]
    BY <1>3, <1>5
  <2>2. QED
    BY <1>2, <1>7, <2>1
<1>9. QED
  BY <1>0, <1>1, <1>5, <1>6, <1>7, <1>8

(* The pieces of a group have its rows. *)
LEMMA CutKeepsRows ==
    ASSUME NEW R, NEW s \in Seq(R), s # <<>>, NEW b \in Nat, b > 0
    PROVE  SameRows(<<s>>, Cut(s, b))
<1>1. PICK n \in Nat : n = Len(s) /\ DOMAIN s = 1 .. n /\ n > 0
  OBVIOUS
<1>2. PICK m : m = Pieces(n, b)
  OBVIOUS
<1>3. PICK cut : cut = Cut(s, b)
  OBVIOUS
<1>4. PICK one : one = <<s>>
  OBVIOUS
<1>5. m \in Nat /\ n <= b * m
  BY <1>1, <1>2, PieceBounds
<1>6. \A c \in 1 .. m :
         /\ Before(b, c) \in Nat /\ Through(n, b, c) \in Nat
         /\ Before(b, c) < Through(n, b, c) /\ Through(n, b, c) <= n
         /\ Through(n, b, c) <= Before(b, c) + b
         /\ Through(n, b, c) = n \/ Through(n, b, c) = Before(b, c) + b
  BY <1>1, <1>2, PieceBounds
<1>7. /\ DOMAIN cut = 1 .. m
      /\ \A c \in 1 .. m :
            /\ DOMAIN cut[c] = 1 .. Through(n, b, c) - Before(b, c)
            /\ \A i \in DOMAIN cut[c] : cut[c][i] = s[Before(b, c) + i]
  <2>1. /\ DOMAIN cut = 1 .. m
        /\ \A c \in 1 .. m : IsPiece(cut[c], s, Before(b, c), Through(n, b, c))
    BY <1>1, <1>2, <1>3, CutIs
  <2>2. QED
    BY <2>1 DEF IsPiece
<1> DEFINE chunk(i) == (i - 1) \div b
           rest(i)  == ((i - 1) % b)
           to(i)    == <<chunk(i) + 1, rest(i) + 1>>
           f == [p \in Places(one) |-> to(p[2])]
<1>8. ASSUME NEW i \in 1 .. n
      PROVE  /\ chunk(i) \in Nat /\ rest(i) \in 0 .. b - 1 /\ i - 1 = b * chunk(i) + rest(i)
             /\ to(i) \in Places(cut) /\ At(cut, to(i)) = s[i]
  <2>1. i - 1 \in Nat
    BY <1>1
  <2>2. PICK q : q = (i - 1) \div b
    OBVIOUS
  <2>3. PICK r : r = ((i - 1) % b)
    OBVIOUS
  <2>4. q \in Nat /\ r \in 0 .. b - 1 /\ i - 1 = b * q + r
    BY <2>1, <2>2, <2>3, Divided
  <2>5. b * q \in Nat
    BY <2>4
  <2>6. b * q < b * m
    BY <1>1, <1>5, <2>4, <2>5
  <2>7. q < m
    BY <1>5, <2>4, <2>6, TimesGrows
  <2>8. q + 1 \in 1 .. m
    BY <1>5, <2>4, <2>7
  <2>9. Before(b, q + 1) = b * q
    BY <2>4 DEF Before
  <2>10. PICK e : e = Through(n, b, q + 1)
    OBVIOUS
  <2>11. e \in Nat /\ (e = n \/ e = b * q + b)
    BY <1>6, <2>8, <2>9, <2>10
  <2>12. r + 1 \in 1 .. e - b * q /\ b * q + (r + 1) = i
    <3>1. b * q + (r + 1) = i
      BY <2>1, <2>4, <2>5
    <3>2. r + 1 <= e - b * q
      BY <1>1, <2>4, <2>5, <2>11, <3>1
    <3>3. QED
      BY <2>4, <2>5, <2>11, <3>1, <3>2
  <2>13. r + 1 \in DOMAIN cut[q + 1] /\ cut[q + 1][r + 1] = s[i]
    BY <1>7, <2>8, <2>9, <2>10, <2>12
  <2>14. <<q + 1, r + 1>> \in Places(cut) /\ At(cut, <<q + 1, r + 1>>) = s[i]
    BY <1>7, <2>8, <2>13, PlaceIs DEF At
  <2>15. QED
    BY <2>2, <2>3, <2>4, <2>14
<1>9. ASSUME NEW q \in Places(cut)
      PROVE  \E i \in 1 .. n : to(i) = q
  <2>1. q = <<q[1], q[2]>> /\ q[1] \in 1 .. m /\ q[2] \in DOMAIN cut[q[1]]
    BY <1>7, PlaceIs
  <2>2. PICK c \in 1 .. m : c = q[1]
    BY <2>1
  <2>3. PICK j : j = q[2]
    OBVIOUS
  <2>4. PICK k : k = Before(b, c)
    OBVIOUS
  <2>5. PICK e : e = Through(n, b, c)
    OBVIOUS
  <2>6. k \in Nat /\ e \in Nat /\ k < e /\ e <= n /\ e <= k + b
    BY <1>6, <2>4, <2>5
  <2>7. j \in 1 .. e - k
    BY <1>7, <2>1, <2>2, <2>3, <2>4, <2>5
  <2>8. j \in Nat /\ j > 0 /\ j <= b /\ k + j <= n /\ k + j \in 1 .. n
    BY <1>1, <2>6, <2>7
  <2>9. c \in Nat /\ c - 1 \in Nat /\ k = b * (c - 1)
    BY <1>5, <2>4 DEF Before
  <2>10. k + j - 1 \in Nat /\ j - 1 \in 0 .. b - 1 /\ k + j - 1 = b * (c - 1) + (j - 1)
    BY <2>6, <2>8, <2>9
  <2>11. PICK x : x = k + j - 1
    OBVIOUS
  <2>12. PICK y : y = j - 1
    OBVIOUS
  <2>13. PICK z : z = c - 1
    OBVIOUS
  <2>14. x \div b = z /\ (x % b) = y
    BY <2>9, <2>10, <2>11, <2>12, <2>13, DividedOnce
  <2>15. (k + j) - 1 = x
    BY <2>6, <2>8, <2>11
  <2>16. to(k + j) = <<z + 1, y + 1>>
    BY <2>14, <2>15
  <2>17. z + 1 = c /\ y + 1 = j
    BY <2>8, <2>9, <2>12, <2>13
  <2>18. to(k + j) = q
    BY <2>1, <2>2, <2>3, <2>16, <2>17
  <2>19. QED
    BY <2>8, <2>18
<1>10. ASSUME NEW i \in 1 .. n, NEW j \in 1 .. n, to(i) = to(j)
       PROVE  i = j
  <2>1. chunk(i) + 1 = chunk(j) + 1 /\ rest(i) + 1 = rest(j) + 1
    BY <1>10
  <2>2. PICK q : q = chunk(i)
    OBVIOUS
  <2>3. PICK r : r = rest(i)
    OBVIOUS
  <2>4. PICK u : u = chunk(j)
    OBVIOUS
  <2>5. PICK v : v = rest(j)
    OBVIOUS
  <2>6. /\ q \in Nat /\ r \in 0 .. b - 1 /\ i - 1 = b * q + r
        /\ u \in Nat /\ v \in 0 .. b - 1 /\ j - 1 = b * u + v
    BY <1>8, <2>2, <2>3, <2>4, <2>5
  <2>7. q + 1 = u + 1 /\ r + 1 = v + 1
    BY <2>1, <2>2, <2>3, <2>4, <2>5
  <2>8. q = u /\ r = v
    BY <2>6, <2>7
  <2>9. i - 1 = j - 1
    BY <2>6, <2>8
  <2>10. QED
    BY <1>1, <2>9
<1>11. /\ \A p \in Places(one) : p = <<1, p[2]>> /\ p[2] \in 1 .. n /\ At(one, p) = s[p[2]]
       /\ \A i \in 1 .. n : <<1, i>> \in Places(one)
  <2>1. DOMAIN one = {1} /\ one[1] = s
    BY <1>4
  <2>2. QED
    BY <1>1, <2>1, PlaceIs DEF At
<1>12. f = [p \in Places(one) |-> f[p]] /\ \A p \in Places(one) : f[p] = to(p[2])
  OBVIOUS
<1> HIDE DEF to, f
<1>13. \A p \in Places(one) : f[p] \in Places(cut) /\ At(cut, f[p]) = At(one, p)
  BY <1>8, <1>11, <1>12
<1>14. \A p, q \in Places(one) : f[p] = f[q] => p = q
  <2>1. ASSUME NEW p \in Places(one), NEW q \in Places(one), f[p] = f[q]
        PROVE  p = q
    <3>1. p[2] = q[2]
      BY <1>10, <1>11, <1>12, <2>1
    <3>2. QED
      BY <1>11, <3>1
  <2>2. QED
    BY <2>1
<1>15. \A q \in Places(cut) : \E p \in Places(one) : f[p] = q
  <2>1. ASSUME NEW q \in Places(cut)
        PROVE  \E p \in Places(one) : f[p] = q
    <3>1. PICK i \in 1 .. n : to(i) = q
      BY <1>9
    <3>2. PICK p \in Places(one) : p = <<1, i>>
      BY <1>11
    <3>3. f[p] = q
      BY <1>12, <3>1, <3>2
    <3>4. QED
      BY <3>3
  <2>2. QED
    BY <2>1
<1>16. Moves(f, one, cut)
  BY <1>12, <1>13, <1>14, <1>15 DEF Moves
<1>17. QED
  BY <1>3, <1>4, <1>16 DEF SameRows

(* A chunk that can be one INSERT. *)
Fits(chunk, b) == Uniform(chunk) /\ (b > 0 => Len(chunk) <= b)

(* The pieces of a group can. *)
LEMMA PiecesFit ==
    ASSUME NEW R, NEW s \in Seq(R), Uniform(s), NEW b \in Nat, b > 0
    PROVE  \A c \in DOMAIN Cut(s, b) : Fits(Cut(s, b)[c], b)
<1>1. s # <<>> /\ \A i \in DOMAIN s : ColumnSet(s[i]) = ColumnSet(s[1])
  BY DEF Uniform
<1>2. PICK n \in Nat : n = Len(s) /\ DOMAIN s = 1 .. n /\ n > 0
  BY <1>1
<1>3. PICK cut : cut = Cut(s, b)
  OBVIOUS
<1>4. PICK m : m = Pieces(n, b)
  OBVIOUS
<1>5. /\ cut \in Seq(Seq(R)) /\ DOMAIN cut = 1 .. m
      /\ \A c \in 1 .. m : IsPiece(cut[c], s, Before(b, c), Through(n, b, c))
  BY <1>1, <1>2, <1>3, <1>4, CutIs
<1>6. ASSUME NEW c \in 1 .. m
      PROVE  Fits(cut[c], b)
  <2>1. PICK k : k = Before(b, c)
    OBVIOUS
  <2>2. PICK e : e = Through(n, b, c)
    OBVIOUS
  <2>3. k \in Nat /\ e \in Nat /\ k < e /\ e <= n /\ e <= k + b
    BY <1>2, <1>4, <2>1, <2>2, PieceBounds
  <2>4. cut[c] \in Seq(R)
    <3>1. \A all \in Seq(Seq(R)) : \A i \in DOMAIN all : all[i] \in Seq(R)
      OBVIOUS
    <3>2. cut \in Seq(Seq(R)) /\ c \in DOMAIN cut
      BY <1>5, <1>6
    <3>3. QED
      BY <3>1, <3>2
  <2>5. PICK piece \in Seq(R) : piece = cut[c]
    BY <2>4
  <2>6. DOMAIN piece = 1 .. e - k /\ \A i \in DOMAIN piece : piece[i] = s[k + i]
    BY <1>5, <2>1, <2>2, <2>5 DEF IsPiece
  <2>7. \A i \in 1 .. e - k : k + i \in DOMAIN s
    BY <1>2, <2>3
  <2>8. 1 \in 1 .. e - k
    BY <2>3
  <2>9. \A i \in DOMAIN piece : ColumnSet(piece[i]) = ColumnSet(piece[1])
    BY <1>1, <2>6, <2>7, <2>8
  <2>10. Len(piece) = e - k
    BY <2>3, <2>6
  <2>11. piece # <<>>
    BY <2>3, <2>10
  <2>12. QED
    BY <2>3, <2>5, <2>9, <2>10, <2>11 DEF Fits, Uniform
<1>7. QED
  BY <1>3, <1>5, <1>6

(* FlattenSeq, a function of positions that satisfies an equation. *)
FlatAt(seqs, f, i)  == IF i = 1 THEN seqs[i] ELSE f[i - 1] \o seqs[i]
IsFlat(seqs, n, f)  == f = [i \in 1 .. n |-> FlatAt(seqs, f, i)]
FlatUpTo(seqs, n, f, m) == \A i \in 1 .. n : i <= m => f[i] = FlatAt(seqs, f, i)

(* FlattenSeq is the last value of such a function. *)
LEMMA FlattenIs ==
    ASSUME NEW seqs, Len(seqs) # 0
    PROVE  FlattenSeq(seqs) = (CHOOSE f : IsFlat(seqs, Len(seqs), f))[Len(seqs)]
  BY DEF FlattenSeq, IsFlat, FlatAt

(* There is one. *)
LEMMA FlatExists ==
    ASSUME NEW seqs, NEW n \in Nat
    PROVE  \E f : IsFlat(seqs, n, f)
<1> DEFINE Bad == {m \in Nat : ~\E f : FlatUpTo(seqs, n, f, m)}
<1>1. ASSUME NEW m \in Bad, \A k \in Bad : m <= k
      PROVE  FALSE
  <2>1. CASE m = 0
    <3>1. FlatUpTo(seqs, n, <<>>, 0)
      BY DEF FlatUpTo
    <3>2. QED
      BY <2>1, <3>1
  <2>2. CASE m # 0
    <3>1. m - 1 \in Nat /\ m - 1 \notin Bad
      BY <1>1, <2>2
    <3>2. PICK f : FlatUpTo(seqs, n, f, m - 1)
      BY <3>1
    <3> DEFINE g == [i \in 1 .. n |-> FlatAt(seqs, f, i)]
    <3>3. ASSUME NEW i \in 1 .. n, i <= m
          PROVE  g[i] = FlatAt(seqs, g, i)
      <4>1. CASE i = 1
        BY <4>1 DEF FlatAt
      <4>2. CASE i # 1
        <5>1. i - 1 \in 1 .. n /\ i - 1 <= m - 1
          BY <3>1, <3>3, <4>2
        <5>2. f[i - 1] = g[i - 1]
          BY <3>2, <5>1 DEF FlatUpTo
        <5> HIDE DEF g
        <5>3. g[i] = FlatAt(seqs, f, i)
          BY DEF g
        <5>4. QED
          BY <4>2, <5>2, <5>3 DEF FlatAt
      <4>3. QED
        BY <4>1, <4>2
    <3>4. FlatUpTo(seqs, n, g, m)
      <4> HIDE DEF g
      <4>1. QED
        BY <3>3 DEF FlatUpTo
    <3>5. QED
      BY <3>4
  <2>3. QED
    BY <2>1, <2>2
<1>2. Bad = {}
  <2> HIDE DEF Bad
  <2>1. Bad \in SUBSET Nat
    BY DEF Bad
  <2>2. QED
    BY <1>1, <2>1, LeastNumber
<1>3. PICK f : FlatUpTo(seqs, n, f, n)
  BY <1>2
<1> DEFINE g == [i \in 1 .. n |-> FlatAt(seqs, f, i)]
<1>4. ASSUME NEW i \in 1 .. n
      PROVE  g[i] = f[i]
  BY <1>3 DEF FlatUpTo
<1>5. ASSUME NEW i \in 1 .. n
      PROVE  FlatAt(seqs, g, i) = FlatAt(seqs, f, i)
  <2>1. CASE i = 1
    BY <2>1 DEF FlatAt
  <2>2. CASE i # 1
    <3>1. i - 1 \in 1 .. n
      BY <2>2
    <3>2. g[i - 1] = f[i - 1]
      BY <1>4, <3>1
    <3> HIDE DEF g
    <3>3. QED
      BY <3>2 DEF FlatAt
  <2>3. QED
    BY <2>1, <2>2
<1>6. IsFlat(seqs, n, g)
  <2>1. \A i \in 1 .. n : g[i] = FlatAt(seqs, g, i)
    BY <1>5
  <2>2. g = [i \in 1 .. n |-> g[i]]
    OBVIOUS
  <2> HIDE DEF g
  <2>3. QED
    BY <2>1, <2>2 DEF IsFlat
<1>7. QED
  BY <1>6

(* The groups, each cut into pieces, have the rows they had. *)
LEMMA CutsKeepRows ==
    ASSUME NEW R, NEW groups \in Seq(Seq(R)), AllGrouped(groups), NEW b \in Nat, b > 0
    PROVE  LET chunks == FlattenSeq([i \in DOMAIN groups |-> Cut(groups[i], b)]) IN
           /\ chunks \in Seq(Seq(R)) /\ SameRows(groups, chunks)
           /\ \A c \in DOMAIN chunks : Fits(chunks[c], b)
<1>1. PICK n \in Nat : n = Len(groups) /\ DOMAIN groups = 1 .. n
  OBVIOUS
<1>2. PICK cuts : cuts = [i \in DOMAIN groups |-> Cut(groups[i], b)]
  OBVIOUS
<1>3. ASSUME NEW i \in 1 .. n
      PROVE  /\ cuts[i] \in Seq(Seq(R)) /\ SameRows(<<groups[i]>>, cuts[i])
             /\ \A c \in DOMAIN cuts[i] : Fits(cuts[i][c], b)
  <2>1. PICK s : s = groups[i]
    OBVIOUS
  <2>2. s \in Seq(R) /\ Uniform(s) /\ s # <<>>
    BY <1>1, <2>1 DEF AllGrouped, Uniform
  <2>3. cuts[i] = Cut(s, b)
    BY <1>1, <1>2, <2>1
  <2>4. Cut(s, b) \in Seq(Seq(R))
    BY <2>2, CutIs
  <2>5. SameRows(<<s>>, Cut(s, b))
    BY <2>2, CutKeepsRows
  <2>6. \A c \in DOMAIN Cut(s, b) : Fits(Cut(s, b)[c], b)
    BY <2>2, PiecesFit
  <2>7. QED
    BY <2>1, <2>3, <2>4, <2>5, <2>6
<1>4. Len(cuts) = n
  BY <1>1, <1>2
<1>5. CASE n = 0
  <2>1. groups = <<>> /\ cuts = <<>>
    BY <1>1, <1>2, <1>5
  <2>2. FlattenSeq(cuts) = cuts
    BY <1>4, <1>5 DEF FlattenSeq
  <2>3. FlattenSeq([i \in DOMAIN groups |-> Cut(groups[i], b)]) = groups
    BY <1>2, <2>1, <2>2
  <2>4. SameRows(groups, groups)
    BY SameAsItself
  <2>5. DOMAIN groups = {}
    BY <1>1, <1>5
  <2>6. \A c \in DOMAIN groups : Fits(groups[c], b)
    BY <2>5
  <2>7. QED
    BY <2>3, <2>4, <2>6
<1>6. CASE n # 0
  <2>1. \E f : IsFlat(cuts, n, f)
    BY FlatExists
  <2>2. PICK F : F = CHOOSE f : IsFlat(cuts, n, f)
    OBVIOUS
  <2>3. IsFlat(cuts, n, F)
    BY <2>1, <2>2
  <2>4. FlattenSeq(cuts) = F[n]
    BY <1>4, <1>6, <2>2, FlattenIs
  <2>5. \A i \in 1 .. n : F[i] = FlatAt(cuts, F, i)
    BY <2>3 DEF IsFlat
  <2> DEFINE Good(i) == /\ F[i] \in Seq(Seq(R)) /\ SameRows(SubSeq(groups, 1, i), F[i])
                        /\ \A c \in DOMAIN F[i] : Fits(F[i][c], b)
             Bad == {i \in 1 .. n : ~Good(i)}
  <2>6. ASSUME NEW i \in Bad, \A j \in Bad : i <= j
        PROVE  FALSE
    <3>1. i \in 1 .. n /\ i \in DOMAIN groups
      BY <1>1
    <3>2. PICK s : s = groups[i]
      OBVIOUS
    <3>3. PICK new : new = cuts[i]
      OBVIOUS
    <3>4. PICK old : old = SubSeq(groups, 1, i - 1)
      OBVIOUS
    <3>5. old \in Seq(Seq(R)) /\ SubSeq(groups, 1, i) = Append(old, s)
      BY <3>1, <3>2, <3>4, FirstRows
    <3>6. s \in Seq(R) /\ <<s>> \in Seq(Seq(R)) /\ Append(old, s) = old \o <<s>>
      BY <3>1, <3>2, <3>5
    <3>7. /\ new \in Seq(Seq(R)) /\ SameRows(<<s>>, new)
          /\ \A c \in DOMAIN new : Fits(new[c], b)
      BY <1>3, <3>1, <3>2, <3>3
    <3>8. CASE i = 1
      <4>1. F[i] = new
        BY <2>5, <3>1, <3>3, <3>8 DEF FlatAt
      <4>2. old = <<>>
        BY <3>4, <3>8
      <4>3. Append(old, s) = <<s>>
        BY <4>2
      <4>4. SameRows(SubSeq(groups, 1, i), F[i])
        BY <3>5, <3>7, <4>1, <4>3
      <4>5. Good(i)
        BY <3>7, <4>1, <4>4
      <4>6. QED
        BY <4>5
    <3>9. CASE i # 1
      <4>1. i - 1 \in 1 .. n /\ i - 1 \notin Bad
        BY <2>6, <3>1, <3>9
      <4>2. Good(i - 1)
        BY <4>1
      <4>3. PICK before : before = F[i - 1]
        OBVIOUS
      <4>4. /\ before \in Seq(Seq(R)) /\ SameRows(old, before)
            /\ \A c \in DOMAIN before : Fits(before[c], b)
        BY <3>4, <4>2, <4>3
      <4>5. F[i] = before \o new
        BY <2>5, <3>1, <3>3, <3>9, <4>3 DEF FlatAt
      <4>6. SameRows(old \o <<s>>, before \o new)
        BY <3>5, <3>6, <3>7, <4>4, SameJoined
      <4>7. PICK all : all = before \o new
        OBVIOUS
      <4>8. ASSUME NEW c \in DOMAIN all
            PROVE  Fits(all[c], b)
        <5>1. \/ c \in DOMAIN before /\ all[c] = before[c]
              \/ c - Len(before) \in DOMAIN new /\ all[c] = new[c - Len(before)]
          BY <3>7, <4>4, <4>7
        <5>2. QED
          BY <3>7, <4>4, <5>1
      <4>9. all \in Seq(Seq(R))
        BY <3>7, <4>4, <4>7
      <4>10. SameRows(SubSeq(groups, 1, i), all)
        BY <3>5, <3>6, <4>6, <4>7
      <4>11. Good(i)
        BY <4>5, <4>7, <4>8, <4>9, <4>10
      <4>12. QED
        BY <4>11
    <3>10. QED
      BY <3>8, <3>9
  <2>7. Bad = {}
    <3>1. Bad \in SUBSET Nat
      OBVIOUS
    <3> HIDE DEF Bad
    <3>2. QED
      BY <2>6, <3>1, LeastNumber
  <2>8. n \in 1 .. n
    BY <1>6
  <2>9. Good(n)
    BY <2>7, <2>8
  <2>10. SubSeq(groups, 1, n) = groups
    BY <1>1
  <2>11. QED
    BY <1>2, <2>4, <2>9, <2>10
<1>7. QED
  BY <1>5, <1>6
-----------------------------------------------------------------------------
(* The chunks have the rows, and each can be one INSERT. *)
LEMMA Chunked ==
    ASSUME NEW R, NEW rows \in Seq(R), NEW batch \in Int
    PROVE  LET chunks == splitInsertChunks(rows, batch) IN
           SameRows(<<rows>>, chunks) /\ \A c \in DOMAIN chunks :
                 chunks[c] \in Seq(R) /\ Fits(chunks[c], batch)
<1>1. PICK groups : groups = groupInsertRows(rows)
  OBVIOUS
<1>2. groups \in Seq(Seq(R)) /\ SameRows(<<rows>>, groups) /\ AllGrouped(groups)
  BY <1>1, GroupsKeepRows
<1>3. CASE batch <= 0
  <2>1. splitInsertChunks(rows, batch) = groups
    BY <1>1, <1>3 DEF splitInsertChunks
  <2>2. \A c \in DOMAIN groups : groups[c] \in Seq(R) /\ Fits(groups[c], batch)
    BY <1>2, <1>3 DEF AllGrouped, Fits
  <2>3. QED
    BY <1>2, <2>1, <2>2
<1>4. CASE ~(batch <= 0)
  <2>1. batch \in Nat /\ batch > 0
    BY <1>4
  <2>2. PICK chunks : chunks = FlattenSeq([i \in DOMAIN groups |-> Cut(groups[i], batch)])
    OBVIOUS
  <2>3. splitInsertChunks(rows, batch) = chunks
    BY <1>1, <1>4, <2>2 DEF splitInsertChunks
  <2>4. /\ chunks \in Seq(Seq(R)) /\ SameRows(groups, chunks)
        /\ \A c \in DOMAIN chunks : Fits(chunks[c], batch)
    BY <1>2, <2>1, <2>2, CutsKeepRows
  <2>5. SameRows(<<rows>>, chunks)
    BY <1>2, <2>4, SameAsOthers
  <2>6. QED
    BY <2>3, <2>4, <2>5
<1>5. QED
  BY <1>3, <1>4

(* Whatever rows with whatever columns, in whatever order, and whatever     *)
(* Batch: the places in the chunks are those of the rows, each once, so     *)
(* none is written twice and none left out (dml_exec.go:128-172).           *)
THEOREM EachRowInOneChunk ==
    ASSUME NEW R, NEW rows \in Seq(R), NEW batch \in Int
    PROVE  LET chunks == splitInsertChunks(rows, batch) IN
           \E f \in Bijection(DOMAIN rows, Places(chunks)) :
              \A i \in DOMAIN rows : At(chunks, f[i]) = rows[i]
<1>1. PICK chunks : chunks = splitInsertChunks(rows, batch)
  OBVIOUS
<1>2. SameRows(<<rows>>, chunks)
  BY <1>1, Chunked
<1>3. PICK one : one = <<rows>>
  OBVIOUS
<1>4. PICK g : Moves(g, one, chunks)
  BY <1>2, <1>3 DEF SameRows
<1>5. /\ \A p \in Places(one) : p = <<1, p[2]>> /\ p[2] \in DOMAIN rows
      /\ \A i \in DOMAIN rows : <<1, i>> \in Places(one) /\ At(one, <<1, i>>) = rows[i]
  <2>1. DOMAIN one = {1} /\ one[1] = rows
    BY <1>3
  <2>2. QED
    BY <2>1, PlaceIs DEF At
<1> DEFINE f == [i \in DOMAIN rows |-> g[<<1, i>>]]
<1>6. \A i \in DOMAIN rows : f[i] = g[<<1, i>>] /\ f[i] \in Places(chunks)
  BY <1>4, <1>5 DEF Moves
<1>7. f \in [DOMAIN rows -> Places(chunks)]
  BY <1>6
<1> HIDE DEF f
<1>8. ASSUME NEW i \in DOMAIN rows, NEW j \in DOMAIN rows, f[i] = f[j]
      PROVE  i = j
  <2>1. PICK p : p = <<1, i>>
    OBVIOUS
  <2>2. PICK q : q = <<1, j>>
    OBVIOUS
  <2>3. p \in Places(one) /\ q \in Places(one)
    BY <1>5, <2>1, <2>2
  <2>4. g[p] = g[q]
    BY <1>6, <1>8, <2>1, <2>2
  <2>5. p = q
    BY <1>4, <2>3, <2>4 DEF Moves
  <2>6. QED
    BY <2>1, <2>2, <2>5
<1>9. ASSUME NEW q \in Places(chunks)
      PROVE  \E i \in DOMAIN rows : f[i] = q
  <2>1. PICK p \in Places(one) : g[p] = q
    BY <1>4 DEF Moves
  <2>2. PICK i \in DOMAIN rows : p = <<1, i>>
    BY <1>5
  <2>3. QED
    BY <1>6, <2>1, <2>2
<1>10. f \in Bijection(DOMAIN rows, Places(chunks))
  <2>1. f \in Injection(DOMAIN rows, Places(chunks))
    BY <1>7, <1>8 DEF Injection, IsInjective
  <2>2. f \in Surjection(DOMAIN rows, Places(chunks))
    BY <1>7, <1>9 DEF Surjection
  <2>3. QED
    BY <2>1, <2>2 DEF Bijection
<1>11. \A i \in DOMAIN rows : At(chunks, f[i]) = rows[i]
  BY <1>4, <1>5, <1>6 DEF Moves
<1>12. QED
  BY <1>1, <1>10, <1>11

(* No chunk is refused for having no rows or rows with different columns    *)
(* (dml_render.go:107-119), and none has more rows than Batch.              *)
THEOREM EachChunkIsOneInsert ==
    ASSUME NEW R, NEW rows \in Seq(R), NEW batch \in Int
    PROVE  LET chunks == splitInsertChunks(rows, batch) IN
           \A c \in DOMAIN chunks :
              /\ chunks[c] # <<>> /\ groupInsertRows(chunks[c]) = <<chunks[c]>>
              /\ batch > 0 => Len(chunks[c]) <= batch
<1>1. PICK chunks : chunks = splitInsertChunks(rows, batch)
  OBVIOUS
<1>2. ASSUME NEW c \in DOMAIN chunks
      PROVE  /\ chunks[c] # <<>> /\ groupInsertRows(chunks[c]) = <<chunks[c]>>
             /\ batch > 0 => Len(chunks[c]) <= batch
  <2>1. chunks[c] \in Seq(R) /\ Fits(chunks[c], batch)
    BY <1>1, Chunked
  <2>2. Uniform(chunks[c]) /\ (batch > 0 => Len(chunks[c]) <= batch)
    BY <2>1 DEF Fits
  <2>3. groupInsertRows(chunks[c]) = <<chunks[c]>>
    BY <2>1, <2>2, OneGroup
  <2>4. chunks[c] # <<>>
    BY <2>2 DEF Uniform
  <2>5. QED
    BY <2>2, <2>3, <2>4
<1>3. QED
  BY <1>1, <1>2

-----------------------------------------------------------------------------
(* Nodes. *)

(* A node with children. *)
HasKids(n, t, a, kids) == n = Node(t, a, kids) /\ Sequence(kids) /\ Len(kids) > 0

(* Two children. *)
LEMMA TwoKids ==
    ASSUME NEW t, NEW a, NEW k1, NEW k2
    PROVE  HasKids(Node(t, a, <<k1, k2>>), t, a, <<k1, k2>>)
<1>1. PICK n \in Nat : n = 2
  OBVIOUS
<1>2. PICK s : s = <<k1, k2>>
  OBVIOUS
<1>3. s = [i \in 1 .. n |-> s[i]] /\ Len(s) = n
  BY <1>1, <1>2
<1>4. Sequence(s) /\ Len(s) > 0
  BY <1>1, <1>3 DEF Sequence
<1>5. QED
  BY <1>2, <1>4 DEF HasKids

-----------------------------------------------------------------------------
(* Predicates as the database evaluates them. *)

(* Eval stands for a recursion, too. *)
EvalIsRecursion ==
    \A n, env, q : n.t \in {"ph", "col", "auto", "where"} => Eval(n, env, q) = EvalNode(n, env, q)

(* Truth values. *)
Boolean3 == {0, 1, Null}

(* AND and OR give truth values; AND is true when all parts are.            *)
LEMMA Logic ==
    ASSUME NEW vs
    PROVE  /\ AllOf(vs) \in Boolean3 /\ AnyOf(vs) \in Boolean3
           /\ (AllOf(vs) = 1 => 0 \notin vs /\ Null \notin vs)
           /\ (AnyOf(vs) = 1 => 1 \in vs)
  BY NullAssumption DEF AllOf, AnyOf, Boolean3

(* What is chosen of a sequence are its elements at those places.           *)
LEMMA ChosenFrom ==
    ASSUME NEW s, Sequence(s), NEW is \in SUBSET DOMAIN s
    PROVE  /\ Sequence(Chosen(s, is))
           /\ \A k \in DOMAIN Chosen(s, is) : \E i \in is : Chosen(s, is)[k] = s[i]
           /\ \A i \in is : \E k \in DOMAIN Chosen(s, is) : Chosen(s, is)[k] = s[i]
<1>1. PICK n \in Nat : DOMAIN s = 1 .. n
  BY SequenceOf DEF IsList
<1>2. PICK m \in Nat : m = Cardinality(is)
  BY <1>1, ChosenAre
<1>3. PICK c : c = Chosen(s, is)
  OBVIOUS
<1>4. /\ DOMAIN c = 1 .. m /\ c = [k \in 1 .. m |-> c[k]]
      /\ \A k \in 1 .. m : \E i \in is : UpTo(is, i) = k /\ c[k] = s[i]
      /\ \A i \in is : UpTo(is, i) \in 1 .. m /\ c[UpTo(is, i)] = s[i]
  BY <1>1, <1>2, <1>3, ChosenAre
<1>5. Sequence(c)
  BY <1>4 DEF Sequence
<1>6. QED
  BY <1>3, <1>4, <1>5

(* The parts that are there are parts.                                      *)
LEMMA PresentFrom ==
    ASSUME NEW ns, Sequence(ns)
    PROVE  /\ Sequence(Present(ns))
           /\ \A k \in DOMAIN Present(ns) : \E i \in DOMAIN ns : Present(ns)[k] = ns[i]
           /\ \A i \in DOMAIN ns : ~IsEmpty(ns[i]) => \E k \in DOMAIN Present(ns) : Present(ns)[k] = ns[i]
<1>1. PICK is : is = {i \in DOMAIN ns : ~IsEmpty(ns[i])}
  OBVIOUS
<1>2. is \in SUBSET DOMAIN ns /\ Present(ns) = Chosen(ns, is)
  BY <1>1 DEF Present, Filter
<1>3. PICK c : c = Chosen(ns, is)
  OBVIOUS
<1>4. /\ Sequence(c) /\ \A k \in DOMAIN c : \E i \in is : c[k] = ns[i]
      /\ \A i \in is : \E k \in DOMAIN c : c[k] = ns[i]
  BY <1>2, <1>3, ChosenFrom
<1>5. \A i \in DOMAIN ns : ~IsEmpty(ns[i]) => i \in is
  BY <1>1
<1>6. QED
  BY <1>2, <1>3, <1>4, <1>5

AndPart(x, acc, n) == AndNext(acc, n, x.env, x.q)
(* A conjunction that has come to a part that is not true is not true.      *)
NotTrueFrom(x, i, acc) ==
    /\ DOMAIN acc = {"or", "and"} /\ acc.or = 0 /\ acc.and \in Boolean3
    /\ x.place <= i => acc.and # 1
AndFold == INSTANCE FoldLemmas WITH Step <- AndPart, Inv <- NotTrueFrom

(* No part is a bare text, and the part at one place is not true.           *)
LEMMA AndTextFalse ==
    ASSUME NEW ns, Sequence(ns), \A i \in DOMAIN ns : ns[i].t # "raw",
           NEW env, NEW q, NEW g \in DOMAIN ns, Eval(ns[g], env, q) \in {0, Null}
    PROVE  AndText(ns, env, q) # 1
<1>1. PICK x : x = [ns |-> ns, env |-> env, q |-> q, place |-> g]
  OBVIOUS
<1>2. PICK n \in Nat : DOMAIN ns = 1 .. n
  BY SequenceOf DEF IsList
<1>3. PICK base : base = [or |-> 0, and |-> 1]
  OBVIOUS
<1>4. NotTrueFrom(x, 0, base)
  BY <1>1, <1>2, <1>3 DEF NotTrueFrom, Boolean3
<1>5. ASSUME NEW i \in 1 .. n, NEW a, NotTrueFrom(x, i - 1, a)
      PROVE  NotTrueFrom(x, i, AndPart(x, a, ns[i]))
  <2>1. PICK v, w : v = Eval(ns[i], env, q) /\ w = AllOf({a.and, v})
    OBVIOUS
  <2>2. AndPart(x, a, ns[i]) = [a EXCEPT !.and = w]
    BY <1>1, <1>2, <2>1 DEF AndPart, AndNext
  <2>3. w \in Boolean3 /\ (w = 1 => a.and # 0 /\ a.and # Null /\ v # 0 /\ v # Null)
    BY <2>1, Logic
  <2>4. ASSUME g <= i
        PROVE  w # 1
    <3>1. g <= i - 1 \/ g = i
      BY <1>2, <2>4
    <3>2. CASE g <= i - 1
      BY <1>1, <1>5, <2>3, <3>2 DEF NotTrueFrom, Boolean3
    <3>3. CASE g = i
      BY <2>1, <2>3, <3>3
    <3>4. QED
      BY <3>1, <3>2, <3>3
  <2>5. QED
    BY <1>1, <1>5, <2>2, <2>3, <2>4 DEF NotTrueFrom
<1>6. NotTrueFrom(x, n, AndFold!Folded(x, base, ns))
  BY <1>2, <1>4, <1>5, LeastNumber, AndFold!FoldInduction DEF AndFold!LeastNumber
<1>7. PICK r : r = AndFold!Folded(x, base, ns)
  OBVIOUS
<1>8. AndText(ns, env, q) = Either(r)
  BY <1>1, <1>3, <1>7 DEF AndText, AndFold!Folded, AndPart, FoldLeft, MapThenFoldSet, Max, AndFold!Last
<1>9. r.or = 0 /\ r.and # 1
  BY <1>1, <1>2, <1>6, <1>7 DEF NotTrueFrom
<1>10. QED
  BY <1>8, <1>9, Logic DEF Either

-----------------------------------------------------------------------------
(* A tenant's predicate. *)

(* A placeholder for one of some values. *)
Ph(n, v) == n.t = "ph" /\ n.a.v = v

(* The library's predicate that a table's tenant is one of ids.             *)
TenantIs(n, prefix, ids) ==
    /\ n.t = "auto" /\ n.a = "tenant" /\ Sequence(n.kids) /\ Len(n.kids) > 0
    /\ n.kids[1].t = "col" /\ n.kids[1].a.prefix = prefix /\ n.kids[1].a.col = "tid"
    /\ \A i \in 2 .. Len(n.kids) : \E j \in DOMAIN ids : Ph(n.kids[i], ids[j])

(* A row of the table read under a name, before what it is joined with.     *)
Leads(env, as, r) ==
    /\ Sequence(env) /\ Len(env) > 0
    /\ env[1].as = as /\ env[1].cols = Cols /\ env[1].vals = r

(* A row a name may stand for. *)
Reads(env, prefix, r) == \E as : Leads(env, as, r) /\ (prefix = as \/ Len(env) = 1)

(* A name stands for the row, or for nothing.                               *)
LEMMA LookupTid ==
    ASSUME NEW env, NEW as, NEW r, Leads(env, as, r), NEW prefix, prefix = as \/ Len(env) = 1
    PROVE  Lookup(env, prefix, "tid") \in {r[2], Null}
<1>1. PICK named : named = {i \in DOMAIN env : env[i].as = prefix}
  OBVIOUS
<1>2. DOMAIN env = 1 .. Len(env) /\ Len(env) \in Nat /\ Len(env) > 0
  BY SequenceOf DEF Leads
<1>3. CASE named = {}
  BY <1>1, <1>3 DEF Lookup
<1>4. CASE named # {}
  <2>1. 1 \in named
    <3>0. 1 \in DOMAIN env
      BY <1>2
    <3>1. CASE prefix = as
      BY <1>1, <3>0, <3>1 DEF Leads
    <3>2. CASE Len(env) = 1
      <4>1. DOMAIN env = {1}
        BY <1>2, <3>2
      <4>2. QED
        BY <1>1, <1>4, <4>1
    <3>3. QED
      BY <3>1, <3>2
  <2>2. Min(named) = 1
    <3>1. named \in SUBSET Nat /\ \A i \in named : i >= 1
      BY <1>1, <1>2
    <3>2. PICK m : m = Min(named)
      OBVIOUS
    <3>3. m \in named /\ m <= 1
      BY <2>1, <3>1, <3>2, MinOf
    <3>4. m \in Nat /\ m >= 1
      BY <3>1, <3>3
    <3>5. QED
      BY <3>2, <3>3, <3>4
  <2>3. PICK b, col : b = env[1] /\ col = "tid"
    OBVIOUS
  <2>4. b.cols = Cols /\ b.vals = r
    BY <2>3 DEF Leads
  <2>5. PICK is : is = {i \in DOMAIN b.cols : b.cols[i] = col}
    OBVIOUS
  <2>6. is = {2}
    BY <2>3, <2>4, <2>5 DEF Cols, TableColumns
  <2>7. Min(is) = 2
    BY <2>6, MinOf
  <2>8. Lookup(env, prefix, col) = r[2]
    BY <1>1, <1>4, <2>2, <2>3, <2>4, <2>5, <2>6, <2>7 DEF Lookup
  <2>9. QED
    BY <2>3, <2>8
<1>5. QED
  BY <1>3, <1>4

(* Equal values that are there.                                             *)
LEMMA CompareEqual ==
    ASSUME NEW v, NEW w, Compare("=", v, w) = 1
    PROVE  v # Null /\ v = w
  BY NullAssumption DEF Compare, Truth

(* Placeholders and columns.                                                *)
LEMMA EvalLeaf ==
    ASSUME EvalIsRecursion, NEW n, NEW env, NEW q
    PROVE  /\ n.t = "ph" => Eval(n, env, q) = n.a.v
           /\ n.t = "col" => Eval(n, env, q) = Lookup(env, n.a.prefix, n.a.col)
           /\ n.t = "where" => Eval(n, env, q) = AndText(n.kids, env, q)
<1>1. CASE n.t = "ph"
  <2>1. Eval(n, env, q) = EvalNode(n, env, q)
    BY <1>1 DEF EvalIsRecursion
  <2>2. EvalNode(n, env, q) = n.a.v
    BY <1>1 DEF EvalNode
  <2>3. QED
    BY <1>1, <2>1, <2>2
<1>2. CASE n.t = "col"
  <2>1. Eval(n, env, q) = EvalNode(n, env, q)
    BY <1>2 DEF EvalIsRecursion
  <2>2. EvalNode(n, env, q) = Lookup(env, n.a.prefix, n.a.col)
    BY <1>2 DEF EvalNode
  <2>3. QED
    BY <1>2, <2>1, <2>2
<1>3. CASE n.t = "where"
  <2>1. Eval(n, env, q) = EvalNode(n, env, q)
    BY <1>3 DEF EvalIsRecursion
  <2>2. EvalNode(n, env, q) = AndText(n.kids, env, q)
    BY <1>3 DEF EvalNode
  <2>3. QED
    BY <1>3, <2>1, <2>2
<1>4. QED
  BY <1>1, <1>2, <1>3

(* It is true of rows of those tenants only, and of no others.              *)
LEMMA TenantPredicateHolds ==
    ASSUME EvalIsRecursion, NEW n, NEW prefix, NEW ids, TenantIs(n, prefix, ids),
           NEW env, NEW r, Reads(env, prefix, r), NEW q, ~q.view
    PROVE  /\ Eval(n, env, q) \in Boolean3
           /\ Eval(n, env, q) = 1 => \E j \in DOMAIN ids : ids[j] = r[2]
<1>1. PICK v : v = Eval(n.kids[1], env, q)
  OBVIOUS
<1>2. v \in {r[2], Null}
  <2>1. v = Lookup(env, n.kids[1].a.prefix, n.kids[1].a.col)
    BY <1>1, EvalLeaf DEF TenantIs
  <2>2. QED
    BY <2>1, LookupTid DEF TenantIs, Reads
<1>3. PICK ws : ws = {Eval(n.kids[i], env, q) : i \in 2 .. Len(n.kids)}
  OBVIOUS
<1>4. PICK cs : cs = {Compare("=", v, w) : w \in ws}
  OBVIOUS
<1>5. Eval(n, env, q) = AnyOf(cs)
  <2>1. Eval(n, env, q) = EvalNode(n, env, q)
    BY DEF TenantIs, EvalIsRecursion
  <2>2. EvalNode(n, env, q) = AnyOf({Compare("=", v, w) : w \in ws})
    BY <1>1, <1>3 DEF TenantIs, EvalNode
  <2>3. QED
    BY <1>4, <2>1, <2>2
<1>6. ASSUME Eval(n, env, q) = 1
      PROVE  \E j \in DOMAIN ids : ids[j] = r[2]
  <2>1. PICK w \in ws : Compare("=", v, w) = 1
    BY <1>4, <1>5, <1>6, Logic
  <2>2. PICK i \in 2 .. Len(n.kids) : w = Eval(n.kids[i], env, q)
    BY <1>3
  <2>3. PICK j \in DOMAIN ids : Ph(n.kids[i], ids[j])
    BY DEF TenantIs
  <2>4. w = ids[j]
    BY <2>2, <2>3, EvalLeaf DEF Ph
  <2>5. QED
    BY <1>2, <2>1, <2>4, CompareEqual
<1>7. QED
  BY <1>5, <1>6, Logic

(* A WHERE with that predicate among its parts.                             *)
Guards(n, prefix, ids) ==
    /\ n.t = "where" /\ Sequence(n.kids)
    /\ \A i \in DOMAIN n.kids : n.kids[i].t # "raw"
    /\ \E i \in DOMAIN n.kids : TenantIs(n.kids[i], prefix, ids)

(* It passes rows of those tenants only.                                    *)
LEMMA GuardHolds ==
    ASSUME EvalIsRecursion, NEW n, NEW prefix, NEW ids, Guards(n, prefix, ids),
           NEW env, NEW r, Reads(env, prefix, r), NEW q, ~q.view, Eval(n, env, q) = 1
    PROVE  \E j \in DOMAIN ids : ids[j] = r[2]
<1>1. PICK g \in DOMAIN n.kids : TenantIs(n.kids[g], prefix, ids)
  BY DEF Guards
<1>2. Eval(n, env, q) = AndText(n.kids, env, q)
  BY EvalLeaf DEF Guards
<1>3. Eval(n.kids[g], env, q) \notin {0, Null}
  BY <1>2, AndTextFalse DEF Guards
<1>4. PICK m : m = n.kids[g]
  OBVIOUS
<1>5. TenantIs(m, prefix, ids) /\ Eval(m, env, q) \notin {0, Null}
  BY <1>1, <1>3, <1>4
<1>6. Eval(m, env, q) \in Boolean3 /\ (Eval(m, env, q) = 1 => \E j \in DOMAIN ids : ids[j] = r[2])
  BY <1>5, TenantPredicateHolds
<1>7. QED
  BY <1>5, <1>6 DEF Boolean3

-----------------------------------------------------------------------------
(* Joined rows. *)

(* What is flattened has the elements of its sequences.                     *)
LEMMA FlattenIn ==
    ASSUME NEW T, NEW ss, Sequence(ss), \A i \in DOMAIN ss : ss[i] \in Seq(T)
    PROVE  FlattenSeq(ss) \in Seq(T)
<1>1. PICK n \in Nat : n = Len(ss) /\ DOMAIN ss = 1 .. n
  BY SequenceOf
<1>2. CASE n = 0
  <2>1. ss \in [1 .. 0 -> Seq(T)]
    BY <1>1, <1>2, SequenceOf
  <2>2. FlattenSeq(ss) = ss
    BY <1>1, <1>2 DEF FlattenSeq
  <2>3. QED
    BY <1>1, <1>2, <2>1, <2>2
<1>3. CASE n # 0
  <2>1. PICK f : f = CHOOSE g : IsFlat(ss, n, g)
    OBVIOUS
  <2>2. IsFlat(ss, n, f)
    BY <2>1, FlatExists
  <2>3. FlattenSeq(ss) = f[n]
    BY <1>1, <1>3, <2>1, FlattenIs
  <2>4. ASSUME NEW i \in 1 .. n
        PROVE  f[i] = FlatAt(ss, f, i)
    BY <2>2 DEF IsFlat
  <2> DEFINE Bad == {i \in 1 .. n : f[i] \notin Seq(T)}
  <2>5. ASSUME NEW i \in Bad, \A k \in Bad : i <= k
        PROVE  FALSE
    <3>1. CASE i = 1
      BY <1>1, <2>4, <2>5, <3>1 DEF FlatAt
    <3>2. CASE i # 1
      <4>1. i - 1 \in 1 .. n /\ i - 1 \notin Bad
        BY <2>5, <3>2
      <4>2. f[i - 1] \in Seq(T) /\ ss[i] \in Seq(T)
        BY <1>1, <2>5, <4>1
      <4>3. f[i] = f[i - 1] \o ss[i]
        BY <2>4, <2>5, <3>2 DEF FlatAt
      <4>4. f[i] \in Seq(T)
        BY <4>2, <4>3
      <4>5. QED
        BY <2>5, <4>4
    <3>3. QED
      BY <3>1, <3>2
  <2>6. Bad = {}
    <3>1. Bad \in SUBSET Nat
      OBVIOUS
    <3> HIDE DEF Bad
    <3>2. QED
      BY <2>5, <3>1, LeastNumber
  <2>7. QED
    BY <1>3, <2>3, <2>6
<1>4. QED
  BY <1>2, <1>3

(* Each is an element of one of them.                                       *)
LEMMA FlattenFrom ==
    ASSUME NEW ss, Sequence(ss), \A i \in DOMAIN ss : Sequence(ss[i])
    PROVE  /\ Sequence(FlattenSeq(ss))
           /\ \A k \in DOMAIN FlattenSeq(ss) : \E i \in DOMAIN ss : \E j \in DOMAIN ss[i] :
                 FlattenSeq(ss)[k] = ss[i][j]
<1>1. PICK T : T = UNION {{ss[i][j] : j \in DOMAIN ss[i]} : i \in DOMAIN ss}
  OBVIOUS
<1>2. ASSUME NEW i \in DOMAIN ss
      PROVE  ss[i] \in Seq(T)
  <2>1. PICK s, U : s = ss[i] /\ U = {s[j] : j \in DOMAIN s}
    OBVIOUS
  <2>2. s \in Seq(U)
    BY <2>1, SequenceOf
  <2>3. U \subseteq T
    BY <1>1, <2>1
  <2>4. QED
    BY <2>1, <2>2, <2>3, SeqMonotonic
<1>3. PICK f : f = FlattenSeq(ss)
  OBVIOUS
<1>4. f \in Seq(T)
  BY <1>2, <1>3, FlattenIn
<1>5. \A k \in DOMAIN f : f[k] \in T
  BY <1>4
<1>6. QED
  BY <1>1, <1>3, <1>4, <1>5, ToSequence

(* The rows joined to one row all start with it.                            *)
BindingLists(rows) == Sequence(rows) /\ \A i \in DOMAIN rows : Sequence(rows[i])
AllLead(rows, as, r) == Sequence(rows) /\ \A i \in DOMAIN rows : Leads(rows[i], as, r)

(* One binding and no more.                                                 *)
LEMMA OneBinding ==
    ASSUME NEW e
    PROVE  /\ Sequence(<<e>>) /\ Len(<<e>>) = 1 /\ DOMAIN <<e>> = {1} /\ <<e>>[1] = e
<1>1. PICK s : s = <<e>>
  OBVIOUS
<1>2. s \in Seq({e}) /\ Len(s) = 1 /\ DOMAIN s = {1} /\ s[1] = e
  BY <1>1
<1>3. QED
  BY <1>1, <1>2, ToSequence

(* What follows does not change what leads.                                 *)
LEMMA LeadsOn ==
    ASSUME NEW e, NEW as, NEW r, Leads(e, as, r), NEW m, Sequence(m)
    PROVE  Leads(e \o m, as, r)
<1>1. PICK T, U : T = {e[i] : i \in DOMAIN e} /\ U = {m[i] : i \in DOMAIN m}
  OBVIOUS
<1>2. e \in Seq(T) /\ m \in Seq(U) /\ Len(e) > 0
  BY <1>1, SequenceOf DEF Leads
<1>3. PICK V : V = T \cup U
  OBVIOUS
<1>4. e \in Seq(V) /\ m \in Seq(V)
  BY <1>2, <1>3, SeqMonotonic
<1>5. PICK s : s = e \o m
  OBVIOUS
<1>6. s \in Seq(V) /\ Len(s) = Len(e) + Len(m) /\ s[1] = e[1]
  BY <1>2, <1>4, <1>5
<1>7. Len(s) > 0
  BY <1>2, <1>4, <1>6
<1>8. Sequence(s)
  BY <1>6, ToSequence
<1>9. QED
  BY <1>5, <1>6, <1>7, <1>8 DEF Leads

(* Tables are lists of rows; over such tables a query is answered with one. *)
TablesAreLists(data) == \A name \in DOMAIN data : IsList(data[name])
AnswersAreLists == \A n, env, q : n.t = "select" /\ TablesAreLists(q.db) => IsList(Eval(n, env, q))

(* What may be read in a FROM.                                              *)
TableNode(n) ==
    \/ n.t \in {"scan", "cteRef"}
    \/ n.t = "derived" /\ n.kids[1].t = "select"

(* Each row of a list as one binding.                                       *)
LEMMA SingleTuples ==
    ASSUME NEW rows, IsList(rows), NEW b, NEW out, out = [i \in DOMAIN rows |-> <<b[i]>>]
    PROVE  BindingLists(out)
<1>1. PICK n \in Nat : DOMAIN rows = 1 .. n
  BY DEF IsList
<1>2. out = [i \in 1 .. n |-> out[i]] /\ DOMAIN out = 1 .. n
  BY <1>1
<1>3. Sequence(out)
  BY <1>2 DEF Sequence
<1>4. QED
  BY <1>1, <1>3, OneBinding DEF BindingLists

(* A table's rows are such a list.                                          *)
LEMMA TableTuples ==
    ASSUME AnswersAreLists, NEW n, TableNode(n), NEW env, NEW q, ~q.view, TablesAreLists(q.db)
    PROVE  BindingLists(EvalTable(n, env, q))
<1>1. \A name : IsList(Stored(q.db, name))
  <2>1. IsList(<<>>)
    BY DEF IsList
  <2>2. QED
    BY <2>1 DEF Stored, TablesAreLists
<1>2. ASSUME NEW as, NEW rows, IsList(rows)
      PROVE  BindingLists(Bound(as, rows))
  <2>1. PICK b : b = [i \in DOMAIN rows |-> [as |-> <<"as", as>>, cols |-> rows[i].cols, vals |-> rows[i].vals]]
    OBVIOUS
  <2>2. Bound(as, rows) = [i \in DOMAIN rows |-> <<b[i]>>]
    BY <2>1 DEF Bound
  <2>3. QED
    BY <1>2, <2>2, SingleTuples
<1>3. CASE n.t = "scan"
  <2>1. PICK rows : rows = Stored(q.db, n.a.name)
    OBVIOUS
  <2>2. PICK b : b = [i \in DOMAIN rows |-> [as |-> n.a.as, cols |-> Cols, vals |-> rows[i]]]
    OBVIOUS
  <2>3. EvalTable(n, env, q) = ScanRows(n.a, rows)
    BY <1>3, <2>1 DEF EvalTable, Seen
  <2>4. ScanRows(n.a, rows) = [i \in DOMAIN rows |-> <<b[i]>>]
    BY <2>2 DEF ScanRows
  <2>5. QED
    BY <1>1, <2>1, <2>3, <2>4, SingleTuples
<1>4. CASE n.t = "cteRef"
  <2>1. EvalTable(n, env, q) = Bound(n.a, Stored(q.db, <<"cte", n.a>>))
    BY <1>4 DEF EvalTable
  <2>2. QED
    BY <1>1, <1>2, <2>1
<1>5. CASE n.t = "derived" /\ n.kids[1].t = "select"
  <2>1. EvalTable(n, env, q) = Bound(n.a, Eval(n.kids[1], env, q))
    BY <1>5 DEF EvalTable
  <2>2. IsList(Eval(n.kids[1], env, q))
    BY <1>5 DEF AnswersAreLists
  <2>3. QED
    BY <1>2, <2>1, <2>2
<1>6. QED
  BY <1>3, <1>4, <1>5 DEF TableNode

(* What passes a test of some rows that lead.                               *)
LEMMA FilterLeads ==
    ASSUME NEW rows, NEW as, NEW r, AllLead(rows, as, r), NEW is \in SUBSET DOMAIN rows
    PROVE  AllLead(Chosen(rows, is), as, r)
<1>1. PICK c : c = Chosen(rows, is)
  OBVIOUS
<1>2. Sequence(c) /\ \A k \in DOMAIN c : \E i \in is : c[k] = rows[i]
  BY <1>1, ChosenFrom DEF AllLead
<1>3. QED
  BY <1>1, <1>2 DEF AllLead

(* A row joined with the rows of a table, of those that match.              *)
LEMMA JoinPairsLead ==
    ASSUME NEW e, NEW as, NEW r, Leads(e, as, r), NEW right, BindingLists(right), NEW on, NEW env, NEW q
    PROVE  AllLead(JoinPairs(e, right, on, env, q), as, r)
<1>1. PICK all : all = [i \in DOMAIN right |-> e \o right[i]]
  OBVIOUS
<1>2. PICK n \in Nat : DOMAIN right = 1 .. n
  BY SequenceOf DEF BindingLists
<1>3. DOMAIN all = 1 .. n /\ all = [i \in 1 .. n |-> all[i]]
  BY <1>1, <1>2
<1>4. Sequence(all)
  BY <1>3 DEF Sequence
<1>5. ASSUME NEW i \in DOMAIN all
      PROVE  Leads(all[i], as, r)
  <2>1. all[i] = e \o right[i] /\ Sequence(right[i])
    BY <1>1 DEF BindingLists
  <2>2. QED
    BY <2>1, LeadsOn
<1>6. AllLead(all, as, r)
  BY <1>4, <1>5 DEF AllLead
<1>7. PICK is : is = {i \in DOMAIN all : Eval(on, all[i] \o env, q) = 1}
  OBVIOUS
<1>8. JoinPairs(e, right, on, env, q) = Chosen(all, is) /\ is \in SUBSET DOMAIN all
  BY <1>1, <1>7 DEF JoinPairs, Filter
<1>9. QED
  BY <1>6, <1>8, FilterLeads

(* The bindings that stand for a row that is not there.                     *)
LEMMA BlankIs ==
    ASSUME NEW t
    PROVE  Sequence(Blank(t))
<1>1. ASSUME NEW b
      PROVE  Sequence(Padded(<<b>>))
  <2>1. PICK s : s = <<b>> /\ DOMAIN s = 1 .. 1
    <3>1. 1 .. 1 = {1}
      OBVIOUS
    <3>2. QED
      BY <3>1, OneBinding
  <2>2. PICK p : p = Padded(s)
    OBVIOUS
  <2>3. p = [i \in 1 .. 1 |-> p[i]]
    BY <2>1, <2>2 DEF Padded
  <2>4. QED
    BY <2>1, <2>2, <2>3 DEF Sequence
<1>2. QED
  BY <1>1 DEF Blank

(* The parts of a join of an UPDATE or a DELETE: its table and its ON.      *)
JoinNode(j) == TableNode(j.kids[1])
JoinNodes(joins) == Sequence(joins) /\ \A i \in DOMAIN joins : JoinNode(joins[i])

(* One row joined.                                                          *)
LEMMA JoinRowLeads ==
    ASSUME AnswersAreLists, NEW e, NEW as, NEW r, Leads(e, as, r), NEW j, JoinNode(j),
           NEW env, NEW q, ~q.view, TablesAreLists(q.db)
    PROVE  AllLead(JoinRow(e, j, env, q), as, r)
<1>1. PICK around : around = IF IsLateral(j.a) THEN e \o env ELSE env
  OBVIOUS
<1>2. PICK right : right = EvalTable(j.kids[1], around, q)
  OBVIOUS
<1>3. BindingLists(right)
  BY <1>2, TableTuples DEF JoinNode
<1>4. PICK pairs : pairs = JoinPairs(e, right, j.kids[2], env, q)
  OBVIOUS
<1>5. AllLead(pairs, as, r)
  BY <1>3, <1>4, JoinPairsLead
<1>6. AllLead(<<e \o Blank(j.kids[1])>>, as, r)
  <2>1. PICK x : x = e \o Blank(j.kids[1])
    OBVIOUS
  <2>2. Leads(x, as, r)
    BY <2>1, BlankIs, LeadsOn
  <2>3. PICK s : s = <<x>>
    OBVIOUS
  <2>4. Sequence(s) /\ DOMAIN s = {1} /\ s[1] = x
    BY <2>3, OneBinding
  <2>5. QED
    BY <2>1, <2>2, <2>3, <2>4 DEF AllLead
<1>7. JoinRow(e, j, env, q) = PaddedIfOuter(e, j, pairs)
  BY <1>1, <1>2, <1>4 DEF JoinRow
<1>8. PaddedIfOuter(e, j, pairs) \in {pairs, <<e \o Blank(j.kids[1])>>}
  BY DEF PaddedIfOuter
<1>9. QED
  BY <1>5, <1>6, <1>7, <1>8

(* All of them.                                                             *)
LEMMA EvalJoinLeads ==
    ASSUME AnswersAreLists, NEW left, NEW as, NEW r, AllLead(left, as, r), NEW j, JoinNode(j),
           NEW env, NEW q, ~q.view, TablesAreLists(q.db)
    PROVE  AllLead(EvalJoin(left, j, env, q), as, r)
<1>1. PICK ss : ss = [i \in DOMAIN left |-> JoinRow(left[i], j, env, q)]
  OBVIOUS
<1>2. PICK n \in Nat : DOMAIN left = 1 .. n
  BY SequenceOf DEF AllLead
<1>3. ss = [i \in 1 .. n |-> ss[i]] /\ DOMAIN ss = 1 .. n
  BY <1>1, <1>2
<1>4. Sequence(ss)
  BY <1>3 DEF Sequence
<1>5. ASSUME NEW i \in DOMAIN ss
      PROVE  AllLead(ss[i], as, r)
  BY <1>1, JoinRowLeads DEF AllLead
<1>6. \A i \in DOMAIN ss : Sequence(ss[i])
  BY <1>5 DEF AllLead
<1>7. PICK f : f = FlattenSeq(ss)
  OBVIOUS
<1>8. Sequence(f) /\ \A k \in DOMAIN f : \E i \in DOMAIN ss : \E m \in DOMAIN ss[i] : f[k] = ss[i][m]
  BY <1>4, <1>6, <1>7, FlattenFrom
<1>9. AllLead(f, as, r)
  BY <1>5, <1>8 DEF AllLead
<1>10. EvalJoin(left, j, env, q) = f
  BY <1>1, <1>7 DEF EvalJoin
<1>11. QED
  BY <1>9, <1>10

(* A sequence with no places is empty.                                      *)
LEMMA NotNothing ==
    ASSUME NEW s, Sequence(s), s # <<>>
    PROVE  DOMAIN s # {}
<1>1. PICK n \in Nat : s = [i \in 1 .. n |-> s[i]]
  BY DEF Sequence
<1>2. CASE n = 0
  <2>1. s \in [1 .. 0 -> {}]
    BY <1>1, <1>2
  <2>2. s = <<>>
    BY <2>1
  <2>3. QED
    BY <2>2
<1>3. CASE n # 0
  BY <1>1, <1>3
<1>4. QED
  BY <1>2, <1>3

JoinMore(x, left, j) == EvalJoin(left, j, x.env, x.q)
LedSoFar(x, i, acc) == AllLead(acc, x.as, x.r)
MoreFold == INSTANCE FoldLemmas WITH Step <- JoinMore, Inv <- LedSoFar

(* One of the rows so joined that passes a condition.                       *)
SomeMatch(rows, as, r, joins, where, env, q) ==
    \E e : /\ Leads(e, as, r) /\ Eval(where, e \o env, q) = 1
           /\ (joins = <<>> => \E i \in DOMAIN rows : e = rows[i])

(* Rows joined with table after table that pass a condition.                *)
LEMMA MatchingLeads ==
    ASSUME AnswersAreLists, NEW rows, NEW as, NEW r, AllLead(rows, as, r),
           NEW joins, JoinNodes(joins),
           NEW where, NEW env, NEW q, ~q.view, TablesAreLists(q.db),
           Matching(rows, joins, where, env, q) # <<>>
    PROVE  SomeMatch(rows, as, r, joins, where, env, q)
<1>1. PICK x : x = [env |-> env, q |-> q, as |-> as, r |-> r]
  OBVIOUS
<1>2. PICK n \in Nat : DOMAIN joins = 1 .. n
  BY SequenceOf DEF IsList, JoinNodes
<1>3. LedSoFar(x, 0, rows)
  BY <1>1 DEF LedSoFar
<1>4. ASSUME NEW i \in 1 .. n, NEW a, LedSoFar(x, i - 1, a)
      PROVE  LedSoFar(x, i, JoinMore(x, a, joins[i]))
  <2>1. AllLead(a, as, r) /\ JoinNode(joins[i])
    BY <1>1, <1>2, <1>4 DEF LedSoFar, JoinNodes
  <2>2. AllLead(EvalJoin(a, joins[i], env, q), as, r)
    BY <2>1, EvalJoinLeads
  <2>3. QED
    BY <1>1, <2>2 DEF LedSoFar, JoinMore
<1>5. LedSoFar(x, n, MoreFold!Folded(x, rows, joins))
  BY <1>2, <1>3, <1>4, LeastNumber, MoreFold!FoldInduction DEF MoreFold!LeastNumber
<1>6. PICK all : all = FoldLeft(LAMBDA left, j : EvalJoin(left, j, env, q), rows, joins)
  OBVIOUS
<1>7. all = MoreFold!Folded(x, rows, joins)
  BY <1>1, <1>6 DEF MoreFold!Folded, JoinMore, FoldLeft, MapThenFoldSet, Max, MoreFold!Last
<1>8. AllLead(all, as, r)
  BY <1>1, <1>5, <1>7 DEF LedSoFar
<1>9. joins = <<>> => all = rows
  <2>1. joins = <<>> => DOMAIN joins = {}
    OBVIOUS
  <2>2. QED
    BY <1>6, <2>1 DEF FoldLeft, MapThenFoldSet
<1>10. PICK is : is = {i \in DOMAIN all : Eval(where, all[i] \o env, q) = 1}
  OBVIOUS
<1>11. Matching(rows, joins, where, env, q) = Chosen(all, is) /\ is \in SUBSET DOMAIN all
  BY <1>6, <1>10 DEF Matching, Filter
<1>12. PICK c : c = Chosen(all, is)
  OBVIOUS
<1>13. Sequence(c) /\ \A m \in DOMAIN c : \E i \in is : c[m] = all[i]
  BY <1>8, <1>11, <1>12, ChosenFrom DEF AllLead
<1>14. PICK i \in is : TRUE
  <2>1. DOMAIN c # {}
    BY <1>11, <1>12, <1>13, NotNothing
  <2>2. QED
    BY <1>13, <2>1
<1>15. Leads(all[i], as, r) /\ Eval(where, all[i] \o env, q) = 1 /\ i \in DOMAIN all
  BY <1>8, <1>10, <1>14 DEF AllLead
<1>16. QED
  BY <1>9, <1>15 DEF SomeMatch

(* An UPDATE or a DELETE whose rows are of the tenants ids only.            *)
Confined(n, prefix, ids) ==
    /\ Guards(Part(n, "where"), prefix, ids)
    /\ Sequence(Part(n, "joins").kids)
    /\ \A i \in DOMAIN Part(n, "joins").kids : JoinNode(Part(n, "joins").kids[i])
    /\ Sequence(Part(n, "from").kids)
    /\ \A i \in DOMAIN Part(n, "from").kids : TableNode(Part(n, "from").kids[i])
    /\ \/ prefix = n.kids[1].a.as
       \/ Part(n, "joins").kids = <<>> /\ Part(n, "from").kids = <<>>

(* The joins of one and the tables of the other.                            *)
InnerJoins(using) == [i \in DOMAIN using |-> Node("join", "inner", <<using[i], Empty>>)]
AllOfThem(joins, using, all) == all = joins \o InnerJoins(using)

(* They are joins.                                                          *)
LEMMA AllJoins ==
    ASSUME NEW joins, Sequence(joins), \A i \in DOMAIN joins : JoinNode(joins[i]),
           NEW using, Sequence(using), \A i \in DOMAIN using : TableNode(using[i]),
           NEW all, AllOfThem(joins, using, all)
    PROVE  /\ JoinNodes(all)
           /\ joins = <<>> /\ using = <<>> => all = <<>>
<1>1. PICK m \in Nat : DOMAIN using = 1 .. m
  BY SequenceOf DEF IsList
<1>2. PICK inner : inner = InnerJoins(using)
  OBVIOUS
<1>3. DOMAIN inner = 1 .. m /\ inner = [i \in 1 .. m |-> inner[i]]
  BY <1>1, <1>2 DEF InnerJoins
<1>4. Sequence(inner)
  BY <1>3 DEF Sequence
<1>5. ASSUME NEW i \in DOMAIN inner
      PROVE  JoinNode(inner[i])
  BY <1>2, TwoKids DEF InnerJoins, JoinNode, Node, HasKids
<1>6. PICK T, U : T = {joins[i] : i \in DOMAIN joins} /\ U = {inner[i] : i \in DOMAIN inner}
  OBVIOUS
<1>7. joins \in Seq(T) /\ inner \in Seq(U)
  BY <1>4, <1>6, SequenceOf
<1>8. PICK V : V = T \cup U
  OBVIOUS
<1>9. joins \in Seq(V) /\ inner \in Seq(V)
  BY <1>7, <1>8, SeqMonotonic
<1>10. all = joins \o inner
  BY <1>2 DEF AllOfThem
<1>11. all \in Seq(V)
  BY <1>9, <1>10
<1>12. \A v \in V : JoinNode(v)
  BY <1>5, <1>6, <1>8
<1>13. \A i \in DOMAIN all : JoinNode(all[i])
  BY <1>11, <1>12
<1>14. ASSUME joins = <<>>, using = <<>>
       PROVE  all = <<>>
  <2>1. m = 0
    BY <1>1, <1>14
  <2>2. inner \in [1 .. 0 -> U]
    BY <1>3, <1>6, <2>1
  <2>3. inner = <<>>
    BY <2>2
  <2>4. QED
    BY <1>10, <1>14, <2>3
<1>15. QED
  BY <1>11, <1>13, <1>14, ToSequence DEF JoinNodes

(* A row that is hit is a row of those tenants.                             *)
LEMMA HitsAreOwn ==
    ASSUME EvalIsRecursion, AnswersAreLists, NEW n, NEW prefix, NEW ids, Confined(n, prefix, ids),
           NEW q, ~q.view, TablesAreLists(q.db), NEW rows, NEW i \in DOMAIN rows,
           HitsOf(n, q, rows)[i] # <<>>
    PROVE  \E j \in DOMAIN ids : ids[j] = rows[i][2]
<1>1. PICK joins, using : joins = Part(n, "joins").kids /\ using = Part(n, "from").kids
  OBVIOUS
<1>2. PICK all : AllOfThem(joins, using, all)
  BY DEF AllOfThem
<1>3. /\ JoinNodes(all)
      /\ joins = <<>> /\ using = <<>> => all = <<>>
  BY <1>1, <1>2, AllJoins DEF Confined
<1>4. PICK where, as, r : where = Part(n, "where") /\ as = n.kids[1].a.as /\ r = rows[i]
  OBVIOUS
<1>5. PICK b : b = [as |-> as, cols |-> Cols, vals |-> r]
  OBVIOUS
<1>6. PICK e0 : e0 = <<b>>
  OBVIOUS
<1>7. Sequence(e0) /\ Len(e0) = 1 /\ e0[1] = b
  BY <1>6, OneBinding
<1>8. Leads(e0, as, r)
  BY <1>5, <1>7 DEF Leads
<1>9. PICK start : start = <<e0>>
  OBVIOUS
<1>10. Sequence(start) /\ DOMAIN start = {1} /\ start[1] = e0
  BY <1>9, OneBinding
<1>11. AllLead(start, as, r)
  BY <1>8, <1>10 DEF AllLead
<1>12. HitsOf(n, q, rows)[i] = Matching(start, all, where, <<>>, q)
  <2>1. HitsOf(n, q, rows)[i] = Hits(n, all, r, q)
    BY <1>1, <1>2, <1>4 DEF HitsOf, AllOfThem, InnerJoins
  <2>2. Hits(n, all, r, q) = Matching(start, all, where, <<>>, q)
    BY <1>4, <1>5, <1>6, <1>9 DEF Hits
  <2>3. QED
    BY <2>1, <2>2
<1>13. PICK e : /\ Leads(e, as, r) /\ Eval(where, e \o <<>>, q) = 1
                /\ (all = <<>> => \E k \in DOMAIN start : e = start[k])
  <2>1. PICK env : env = <<>>
    OBVIOUS
  <2>2. Matching(start, all, where, env, q) # <<>>
    BY <1>12, <2>1
  <2>3. SomeMatch(start, as, r, all, where, env, q)
    BY <1>3, <1>11, <2>2, MatchingLeads
  <2>4. QED
    BY <2>1, <2>3 DEF SomeMatch
<1>14. e \o <<>> = e
  <2>1. PICK T : T = {e[k] : k \in DOMAIN e}
    OBVIOUS
  <2>2. e \in Seq(T)
    BY <1>13, <2>1, SequenceOf DEF Leads
  <2>3. QED
    BY <2>2
<1>15. Reads(e, prefix, r)
  <2>1. CASE prefix = as
    BY <1>13, <2>1 DEF Reads
  <2>2. CASE joins = <<>> /\ using = <<>>
    <3>1. e = e0
      BY <1>3, <1>10, <1>13, <2>2
    <3>2. QED
      BY <1>7, <1>13, <3>1 DEF Reads
  <2>3. QED
    BY <1>1, <1>4, <2>1, <2>2 DEF Confined
<1>16. Guards(where, prefix, ids)
  BY <1>4 DEF Confined
<1>17. \E j \in DOMAIN ids : ids[j] = r[2]
  BY <1>13, <1>14, <1>15, <1>16, GuardHolds
<1>18. QED
  BY <1>4, <1>17

-----------------------------------------------------------------------------
(* Changed rows. *)

(* Assignments that give the tenant's column, under any spelling, the one   *)
(* tenant in force.                                                         *)
SetKeeps(s, d, ids) == 2 \in Position(d, s.a) => \E v : ids = <<v>> /\ Ph(s.kids[1], v)
SetsKeep(sets, d, ids) == Sequence(sets) /\ \A i \in DOMAIN sets : SetKeeps(sets[i], d, ids)

(* A row has a tenant, one of ids.                                          *)
HasTid(row) == 2 \in DOMAIN row
OwnRow(row, ids) == HasTid(row) /\ \E j \in DOMAIN ids : ids[j] = row[2]

(* The row after one assignment.                                            *)
IsAssigned(after, row, s, env, new, q) == after = Assign(row, s, ValueOf(s.kids[1], env, new, q), q)
IsSet(d, s) == Position(d, s.a) # {}

(* It has the tenant it had.                                                *)
LEMMA AssignKeeps ==
    ASSUME EvalIsRecursion, NEW s, NEW ids, NEW q, SetKeeps(s, q.d, ids), IsSet(q.d, s),
           NEW row, OwnRow(row, ids), NEW env, NEW new, NEW after,
           IsAssigned(after, row, s, env, new, q)
    PROVE  HasTid(after) /\ after[2] = row[2]
<1>1. PICK k, v : k = Min(Position(q.d, s.a)) /\ v = ValueOf(s.kids[1], env, new, q)
  OBVIOUS
<1>2. k \in Position(q.d, s.a)
  <2>1. PICK places : places = Position(q.d, s.a)
    OBVIOUS
  <2>2. places \in SUBSET Nat
    BY <2>1 DEF Position, Cols, TableColumns
  <2>3. QED
    BY <1>1, <2>1, <2>2, MinOf DEF IsSet
<1>3. after = [row EXCEPT ![k] = v]
  BY <1>1 DEF Assign, IsAssigned
<1>5. HasTid(after)
  BY <1>3 DEF HasTid, OwnRow
<1>6. after[2] = row[2]
  <2>1. CASE k # 2
    BY <1>3, <2>1 DEF OwnRow, HasTid
  <2>2. CASE k = 2
    <3>1. PICK u : ids = <<u>> /\ Ph(s.kids[1], u)
      BY <1>2, <2>2 DEF SetKeeps
    <3>2. v = u
      <4>1. v = Eval(s.kids[1], env, q)
        BY <1>1, <3>1 DEF ValueOf, Ph
      <4>2. QED
        BY <3>1, <4>1, EvalLeaf DEF Ph
    <3>3. row[2] = u
      <4>1. DOMAIN ids = {1} /\ ids[1] = u
        BY <3>1, OneBinding
      <4>2. QED
        BY <4>1 DEF OwnRow
    <3>4. QED
      BY <1>3, <2>2, <3>2, <3>3 DEF OwnRow, HasTid
  <2>3. QED
    BY <2>1, <2>2
<1>7. QED
  BY <1>5, <1>6

AssignMore(x, row, s) == Assign(row, s, ValueOf(s.kids[1], x.env, x.new, x.q), x.q)
TidSoFar(x, i, row) == OwnRow(row, x.ids) /\ row[2] = x.tid
SetFold == INSTANCE FoldLemmas WITH Step <- AssignMore, Inv <- TidSoFar

(* The columns that are set are columns.                                    *)
LEMMA KnownSets ==
    ASSUME NEW sets, NEW d, KnownColumns(d, SetColumns(sets)), NEW i \in DOMAIN sets
    PROVE  IsSet(d, sets[i])
<1>1. PICK cs : cs = SetColumns(sets)
  OBVIOUS
<1>2. DOMAIN cs = DOMAIN sets /\ cs[i] = sets[i].a
  BY <1>1 DEF SetColumns
<1>3. QED
  BY <1>1, <1>2 DEF KnownColumns, IsSet

(* All of them leave a row its tenant.                                      *)
LEMMA AssignedKeeps ==
    ASSUME EvalIsRecursion, NEW sets, NEW ids, NEW q, SetsKeep(sets, q.d, ids),
           KnownColumns(q.d, SetColumns(sets)), NEW row, OwnRow(row, ids), NEW env, NEW new
    PROVE  HasTid(Assigned(row, sets, env, new, q)) /\ Assigned(row, sets, env, new, q)[2] = row[2]
<1>1. PICK x : x = [env |-> env, new |-> new, q |-> q, ids |-> ids, tid |-> row[2]]
  OBVIOUS
<1>2. PICK n \in Nat : DOMAIN sets = 1 .. n
  BY SequenceOf DEF IsList, SetsKeep
<1>3. TidSoFar(x, 0, row)
  BY <1>1 DEF TidSoFar
<1>4. ASSUME NEW i \in 1 .. n, NEW r, TidSoFar(x, i - 1, r)
      PROVE  TidSoFar(x, i, AssignMore(x, r, sets[i]))
  <2>1. PICK s : s = sets[i]
    OBVIOUS
  <2>2. SetKeeps(s, q.d, ids) /\ IsSet(q.d, s) /\ OwnRow(r, ids) /\ r[2] = row[2]
    BY <1>1, <1>2, <1>4, <2>1, KnownSets DEF SetsKeep, TidSoFar
  <2>3. PICK after : IsAssigned(after, r, s, env, new, q)
    BY DEF IsAssigned
  <2>4. HasTid(after) /\ after[2] = r[2]
    BY <2>2, <2>3, AssignKeeps
  <2>5. OwnRow(after, ids)
    BY <2>2, <2>4 DEF OwnRow
  <2>6. AssignMore(x, r, s) = after
    BY <1>1, <2>3 DEF AssignMore, IsAssigned
  <2>7. QED
    BY <1>1, <2>1, <2>2, <2>4, <2>5, <2>6 DEF TidSoFar
<1>5. TidSoFar(x, n, SetFold!Folded(x, row, sets))
  BY <1>2, <1>3, <1>4, LeastNumber, SetFold!FoldInduction DEF SetFold!LeastNumber
<1>6. PICK all : all = SetFold!Folded(x, row, sets)
  OBVIOUS
<1>7. Assigned(row, sets, env, new, q) = all
  BY <1>1, <1>6 DEF Assigned, SetFold!Folded, AssignMore, FoldLeft, MapThenFoldSet, Max, SetFold!Last
<1>8. QED
  BY <1>1, <1>5, <1>6, <1>7 DEF TidSoFar, OwnRow

-----------------------------------------------------------------------------
(* Tables. *)

(* A table of rows with tenants.                                            *)
TidTable(rows) == Sequence(rows) /\ \A i \in DOMAIN rows : HasTid(rows[i])
TidTables(data) == \A name \in DOMAIN data : TidTable(data[name])

(* rows are old ones with more of one tenant; or fewer; or as many, with    *)
(* the tenants they had.                                                    *)
Grown(ids, old, rows) ==
    /\ Len(old) <= Len(rows)
    /\ \A i \in 1 .. Len(old) : rows[i][2] = old[i][2]
    /\ \A i \in Len(old) + 1 .. Len(rows) : ids = <<rows[i][2]>>
Shrunk(old, rows) ==
    /\ Len(rows) <= Len(old)
    /\ Len(rows) = Len(old) => \A i \in 1 .. Len(old) : rows[i][2] = old[i][2]

(* One after another.                                                       *)
LEMMA GrownOn ==
    ASSUME NEW ids, NEW a, NEW b, NEW c, TidTable(a), TidTable(b), TidTable(c),
           Grown(ids, a, b), Grown(ids, b, c)
    PROVE  Grown(ids, a, c)
<1>1. Len(a) \in Nat /\ Len(b) \in Nat /\ Len(c) \in Nat
  BY SequenceOf DEF TidTable
<1>2. ASSUME NEW i \in Len(a) + 1 .. Len(c)
      PROVE  ids = <<c[i][2]>>
  <2>1. CASE i <= Len(b)
    BY <1>1, <2>1 DEF Grown
  <2>2. CASE ~(i <= Len(b))
    BY <1>1, <2>2 DEF Grown
  <2>3. QED
    BY <2>1, <2>2
<1>3. QED
  BY <1>1, <1>2 DEF Grown

(* The same for the other.                                                  *)
LEMMA ShrunkOn ==
    ASSUME NEW a, NEW b, NEW c, TidTable(a), TidTable(b), TidTable(c), Shrunk(a, b), Shrunk(b, c)
    PROVE  Shrunk(a, c)
<1>1. Len(a) \in Nat /\ Len(b) \in Nat /\ Len(c) \in Nat
  BY SequenceOf DEF TidTable
<1>2. QED
  BY <1>1 DEF Shrunk

(* Nothing done is either.                                                  *)
LEMMA AsItWas ==
    ASSUME NEW a, TidTable(a), NEW ids
    PROVE  Grown(ids, a, a) /\ Shrunk(a, a)
  BY SequenceOf DEF TidTable, Grown, Shrunk

(* All places are the places up to their number.                            *)
LEMMA AllPlaces ==
    ASSUME NEW n \in Nat, NEW is \in SUBSET (1 .. n)
    PROVE  /\ Cardinality(is) <= n
           /\ Cardinality(is) = n => is = 1 .. n /\ \A i \in 1 .. n : UpTo(is, i) = i
<1>1. IsFiniteSet(1 .. n) /\ Cardinality(1 .. n) = n
  BY FS_Interval
<1>2. Cardinality(is) <= n /\ (Cardinality(is) = n => is = 1 .. n)
  BY <1>1, FS_Subset
<1>3. ASSUME is = 1 .. n, NEW i \in 1 .. n
      PROVE  UpTo(is, i) = i
  <2>1. {j \in is : j <= i} = 1 .. i
    BY <1>3
  <2>2. Cardinality(1 .. i) = i
    BY FS_Interval
  <2>3. QED
    BY <2>1, <2>2 DEF UpTo
<1>4. QED
  BY <1>2, <1>3

(* Rows that are left, and the rest of a table.                             *)
LEMMA SurvivorsShrink ==
    ASSUME NEW rows, TidTable(rows), NEW hits, NEW left, left = Survivors(rows, hits)
    PROVE  TidTable(left) /\ Shrunk(rows, left)
<1>1. PICK n \in Nat : n = Len(rows) /\ DOMAIN rows = 1 .. n
  BY SequenceOf DEF TidTable
<1>2. PICK places : places = [i \in 1 .. n |-> i]
  OBVIOUS
<1>3. PICK is : is = {i \in DOMAIN places : hits[places[i]] = <<>>}
  OBVIOUS
<1>4. is \in SUBSET (1 .. n)
  BY <1>2, <1>3
<1>5. PICK kept : kept = Chosen(places, is)
  OBVIOUS
<1>6. PICK m \in Nat : m = Cardinality(is)
  BY <1>4, ChosenAre
<1>7. /\ DOMAIN kept = 1 .. m
      /\ \A k \in 1 .. m : \E i \in is : UpTo(is, i) = k /\ kept[k] = places[i]
  BY <1>4, <1>5, <1>6, ChosenAre
<1>8. \A k \in 1 .. m : \E i \in 1 .. n : UpTo(is, i) = k /\ kept[k] = i
  BY <1>2, <1>4, <1>7
<1>9. left = [k \in 1 .. m |-> rows[kept[k]]]
  <2>1. Filter([i \in DOMAIN rows |-> i], LAMBDA i : hits[i] = <<>>) = kept
    BY <1>1, <1>2, <1>3, <1>5 DEF Filter
  <2>2. QED
    BY <1>7, <2>1 DEF Survivors
<1>10. left = [k \in 1 .. m |-> left[k]]
  BY <1>9
<1>11. Sequence(left)
  BY <1>10 DEF Sequence
<1>12. TidTable(left)
  BY <1>1, <1>8, <1>9, <1>11 DEF TidTable
<1>13. Len(left) = m
  <2>1. DOMAIN left = 1 .. m /\ DOMAIN left = 1 .. Len(left) /\ Len(left) \in Nat
    BY <1>9, <1>11, SequenceOf
  <2>2. QED
    BY <2>1
<1>14. m <= n /\ (m = n => \A k \in 1 .. n : UpTo(is, k) = k)
  BY <1>4, <1>6, AllPlaces
<1>15. ASSUME m = n, NEW k \in 1 .. n
       PROVE  left[k] = rows[k]
  <2>1. PICK i \in 1 .. n : UpTo(is, i) = k /\ kept[k] = i
    BY <1>8, <1>15
  <2>2. kept[k] = k
    BY <1>14, <1>15, <2>1
  <2>3. QED
    BY <1>9, <1>15, <2>2
<1>16. QED
  BY <1>1, <1>12, <1>13, <1>14, <1>15 DEF Shrunk

(* A table put among others.                                                *)
LEMMA OneTable ==
    ASSUME NEW data, TidTables(data), NEW name, NEW rows, name \in DOMAIN data => TidTable(rows),
           NEW next, next = [data EXCEPT ![name] = rows]
    PROVE  /\ TidTables(next) /\ DOMAIN next = DOMAIN data
           /\ \A t \in DOMAIN data : IF t = name THEN next[t] = rows ELSE next[t] = data[t]
  BY DEF TidTables

(* All tables.                                                              *)
AllGrown(ids, old, next) ==
    DOMAIN next = DOMAIN old /\ TidTables(next) /\ \A t \in DOMAIN old : Grown(ids, old[t], next[t])
AllShrunk(old, next) ==
    DOMAIN next = DOMAIN old /\ TidTables(next) /\ \A t \in DOMAIN old : Shrunk(old[t], next[t])

(* An UPDATE or a DELETE of tenants' rows.                                  *)
Changing(n, prefix, ids, d) ==
    /\ n.t \in {"update", "delete"} /\ Confined(n, prefix, ids)
    /\ n.t = "update" => SetsKeep(Part(n, "sets").kids, d, ids)

(* The rows after an UPDATE.                                                *)
LEMMA UpdatedRows ==
    ASSUME EvalIsRecursion, AnswersAreLists, NEW n, NEW prefix, NEW ids, NEW q,
           Changing(n, prefix, ids, q.d), n.t = "update", ~q.view, TablesAreLists(q.db),
           NEW rows, TidTable(rows), NEW hits, hits = HitsOf(n, q, rows),
           NEW sets, sets = Part(n, "sets").kids, KnownColumns(q.d, SetColumns(sets)),
           NEW out, out = [i \in DOMAIN rows |-> IF hits[i] = <<>> THEN rows[i]
                             ELSE Assigned(rows[i], sets, Head(hits[i]), <<>>, q)]
    PROVE  TidTable(out) /\ Shrunk(rows, out)
<1>1. PICK n1 \in Nat : n1 = Len(rows) /\ DOMAIN rows = 1 .. n1
  BY SequenceOf DEF TidTable
<1>2. ASSUME NEW i \in DOMAIN rows
      PROVE  HasTid(out[i]) /\ out[i][2] = rows[i][2]
  <2>1. HasTid(rows[i])
    BY DEF TidTable
  <2>2. CASE hits[i] = <<>>
    BY <2>1, <2>2
  <2>3. CASE hits[i] # <<>>
    <3>1. PICK row, env, none : row = rows[i] /\ env = Head(hits[i]) /\ none = <<>>
      OBVIOUS
    <3>2. out[i] = Assigned(row, sets, env, none, q)
      BY <2>3, <3>1
    <3>3. \E j \in DOMAIN ids : ids[j] = rows[i][2]
      BY <2>3, HitsAreOwn DEF Changing
    <3>4. OwnRow(row, ids)
      BY <2>1, <3>1, <3>3 DEF OwnRow
    <3>5. SetsKeep(sets, q.d, ids)
      BY DEF Changing
    <3>6. QED
      BY <3>1, <3>2, <3>4, <3>5, AssignedKeeps
  <2>4. QED
    BY <2>2, <2>3
<1>3. DOMAIN out = 1 .. n1 /\ out = [i \in 1 .. n1 |-> out[i]]
  BY <1>1
<1>4. Sequence(out)
  BY <1>3 DEF Sequence
<1>5. Len(out) = n1
  BY <1>3, <1>4, SequenceOf
<1>6. QED
  BY <1>1, <1>2, <1>3, <1>4, <1>5 DEF TidTable, Shrunk

(* What a change of some rows comes to.                                     *)
ChangesTo(r, data, name, rows) ==
    r.ok => \E k : r = Changed(data, name, rows, k)

(* An UPDATE or a DELETE leaves rows the tenants they have, or takes rows.  *)
LEMMA ChangeShrinks ==
    ASSUME EvalIsRecursion, AnswersAreLists, NEW n, NEW prefix, NEW ids, NEW q,
           Changing(n, prefix, ids, q.d), ~q.view, TablesAreLists(q.db),
           NEW data, TidTables(data), NEW r, r = ApplyChange(data, n, q), r.ok
    PROVE  AllShrunk(data, r.db)
<1>1. PICK name : name = n.kids[1].a.name
  OBVIOUS
<1>2. PICK rows : rows = data[name]
  OBVIOUS
<1>3. PICK hits : hits = HitsOf(n, q, rows)
  OBVIOUS
<1>4. r = Change(data, n, q, rows, hits)
  BY <1>1, <1>2, <1>3 DEF ApplyChange, ChangeRows
<1>5. PICK sets : sets = Part(n, "sets").kids
  OBVIOUS
<1>6. PICK out : r.db = [data EXCEPT ![name] = out] /\ (name \in DOMAIN data => TidTable(out) /\ Shrunk(rows, out))
  <2>1. CASE n.t = "delete"
    <3>1. PICK left : left = Survivors(rows, hits)
      OBVIOUS
    <3>2. PICK k : r = Changed(data, name, left, k)
      BY <1>1, <1>4, <2>1, <3>1 DEF Change
    <3>3. r.db = [data EXCEPT ![name] = left]
      BY <3>2 DEF Changed
    <3>4. ASSUME name \in DOMAIN data
          PROVE  TidTable(left) /\ Shrunk(rows, left)
      <4>1. TidTable(rows)
        BY <1>2, <3>4 DEF TidTables
      <4>2. QED
        BY <3>1, <4>1, SurvivorsShrink
    <3>5. QED
      BY <3>3, <3>4
  <2>2. CASE n.t = "update"
    <3>1. PICK out : out = [i \in DOMAIN rows |-> IF hits[i] = <<>> THEN rows[i]
                             ELSE Assigned(rows[i], sets, Head(hits[i]), <<>>, q)]
      OBVIOUS
    <3>2. KnownColumns(q.d, SetColumns(sets)) /\ \E k : r = Changed(data, name, out, k)
      <4>1. CASE KnownColumns(q.d, SetColumns(sets))
        BY <1>1, <1>4, <1>5, <2>2, <3>1, <4>1 DEF Change
      <4>2. CASE ~KnownColumns(q.d, SetColumns(sets))
        <5>1. r = Refusal
          BY <1>1, <1>4, <1>5, <2>2, <4>2 DEF Change
        <5>2. QED
          BY <5>1 DEF Refusal
      <4>3. QED
        BY <4>1, <4>2
    <3>3. r.db = [data EXCEPT ![name] = out]
      BY <3>2 DEF Changed
    <3>4. ASSUME name \in DOMAIN data
          PROVE  TidTable(out) /\ Shrunk(rows, out)
      <4>1. TidTable(rows)
        BY <1>2, <3>4 DEF TidTables
      <4>2. QED
        BY <1>3, <1>5, <2>2, <3>1, <3>2, <4>1, UpdatedRows
    <3>5. QED
      BY <3>3, <3>4
  <2>3. QED
    BY <2>1, <2>2 DEF Changing
<1>7. PICK next : next = r.db
  OBVIOUS
<1>8. /\ TidTables(next) /\ DOMAIN next = DOMAIN data
      /\ \A t \in DOMAIN data : IF t = name THEN next[t] = out ELSE next[t] = data[t]
  BY <1>6, <1>7, OneTable
<1>9. ASSUME NEW t \in DOMAIN data
      PROVE  Shrunk(data[t], next[t])
  <2>1. CASE t = name
    BY <1>2, <1>6, <1>8, <2>1
  <2>2. CASE t # name
    BY <1>8, <2>2, AsItWas DEF TidTables
  <2>3. QED
    BY <2>1, <2>2
<1>10. QED
  BY <1>7, <1>8, <1>9 DEF AllShrunk

-----------------------------------------------------------------------------
(* New rows. *)

(* The values of a row are of one tenant.                                   *)
GivesTenant(d, columns, vals, v) ==
    /\ \E j \in DOMAIN columns : 2 \in Position(d, columns[j])
    /\ \A j \in DOMAIN columns : 2 \in Position(d, columns[j]) => vals[j] = v

(* So is the row.                                                           *)
LEMMA RowOfTenant ==
    ASSUME NEW d, NEW columns, NEW vals, NEW v, GivesTenant(d, columns, vals, v)
    PROVE  HasTid(RowOf(d, columns, vals)) /\ RowOf(d, columns, vals)[2] = v
<1>1. DOMAIN Cols = 1 .. 4
  BY DEF Cols, TableColumns
<1>2. PICK row : row = RowOf(d, columns, vals)
  OBVIOUS
<1>3. PICK k \in DOMAIN columns : k = (CHOOSE j \in DOMAIN columns : 2 \in Position(d, columns[j]))
                                  /\ 2 \in Position(d, columns[k])
  BY DEF GivesTenant
<1>4. DOMAIN row = 1 .. 4
  BY <1>1, <1>2 DEF RowOf
<1>5. row[2] = vals[k]
  BY <1>1, <1>2, <1>3 DEF RowOf
<1>6. QED
  BY <1>2, <1>3, <1>4, <1>5 DEF GivesTenant, HasTid

(* What is there after some rows of one tenant have been put.               *)
PutSoFar(x, i, acc) ==
    /\ DOMAIN acc = {"ok", "rows", "n"}
    /\ TidTable(acc.rows) /\ Grown(x.ids, x.start, acc.rows)
PutMore(x, acc, vals) == Put(acc, RowOf(x.q.d, x.n.a.columns, vals), x.n, x.q)
GivenFold == INSTANCE FoldLemmas WITH Step <- PutMore, Inv <- PutSoFar

(* An INSERT of rows of one tenant, the one its conflict clause gives.      *)
Conflicting(n, ids, d) ==
    /\ n.a.conflict \in {"none", "nothing", "update"}
    /\ n.a.conflict = "update" => SetsKeep(n.kids[2].kids, d, ids)
    /\ KnownColumns(d, SetColumns(n.kids[2].kids))

(* One row more.                                                            *)
LEMMA RowAdded ==
    ASSUME NEW v, NEW ids, ids = <<v>>, NEW start, TidTable(start), NEW rows, TidTable(rows),
           Grown(ids, start, rows), NEW new, HasTid(new), new[2] = v
    PROVE  TidTable(Append(rows, new)) /\ Grown(ids, start, Append(rows, new))
<1>1. PICK s : s = Append(rows, new)
  OBVIOUS
<1>2. /\ Sequence(s) /\ Len(s) = Len(rows) + 1 /\ DOMAIN s = 1 .. Len(rows) + 1
      /\ s[Len(rows) + 1] = new /\ \A i \in 1 .. Len(rows) : s[i] = rows[i]
  BY <1>1, OneMore DEF TidTable
<1>3. Len(rows) \in Nat /\ Len(start) \in Nat /\ DOMAIN rows = 1 .. Len(rows)
  BY SequenceOf DEF TidTable
<1>4. ASSUME NEW i \in 1 .. Len(rows) + 1
      PROVE  HasTid(s[i])
  <2>1. CASE i = Len(rows) + 1
    BY <1>2, <2>1
  <2>2. CASE i # Len(rows) + 1
    BY <1>2, <1>3, <2>2 DEF TidTable
  <2>3. QED
    BY <2>1, <2>2
<1>5. TidTable(s)
  BY <1>2, <1>4 DEF TidTable
<1>6. ASSUME NEW i \in Len(start) + 1 .. Len(s)
      PROVE  ids = <<s[i][2]>>
  <2>1. CASE i = Len(rows) + 1
    BY <1>2, <2>1
  <2>2. CASE i # Len(rows) + 1
    <3>1. i \in 1 .. Len(rows) /\ i \in Len(start) + 1 .. Len(rows)
      BY <1>2, <1>3, <2>2
    <3>2. QED
      BY <1>2, <3>1 DEF Grown
  <2>3. QED
    BY <2>1, <2>2
<1>7. Grown(ids, start, s)
  BY <1>2, <1>3, <1>6 DEF Grown
<1>8. QED
  BY <1>1, <1>5, <1>7

(* One row changed.                                                         *)
LEMMA RowChanged ==
    ASSUME NEW ids, NEW start, TidTable(start), NEW rows, TidTable(rows),
           Grown(ids, start, rows), NEW i \in DOMAIN rows, NEW new, HasTid(new), new[2] = rows[i][2],
           NEW s, s = [rows EXCEPT ![i] = new]
    PROVE  TidTable(s) /\ Grown(ids, start, s)
<1>1. Len(rows) \in Nat /\ Len(start) \in Nat /\ DOMAIN rows = 1 .. Len(rows)
  BY SequenceOf DEF TidTable
<1>2. DOMAIN s = 1 .. Len(rows) /\ s = [k \in 1 .. Len(rows) |-> s[k]]
  BY <1>1
<1>3. Sequence(s)
  BY <1>1, <1>2 DEF Sequence
<1>4. Len(s) = Len(rows)
  <2>1. DOMAIN s = 1 .. Len(s) /\ Len(s) \in Nat
    BY <1>3, SequenceOf
  <2>2. QED
    BY <1>1, <1>2, <2>1
<1>5. \A k \in 1 .. Len(rows) : HasTid(s[k]) /\ s[k][2] = rows[k][2]
  BY <1>1 DEF TidTable
<1>6. TidTable(s)
  BY <1>2, <1>3, <1>5 DEF TidTable
<1>7. Grown(ids, start, s)
  BY <1>1, <1>4, <1>5 DEF Grown
<1>8. QED
  BY <1>6, <1>7

(* A conflict with a row: it is of the same tenant.                         *)
LEMMA CollideKeeps ==
    ASSUME EvalIsRecursion, NEW n, NEW v, NEW ids, ids = <<v>>, NEW q, Conflicting(n, ids, q.d),
           NEW start, TidTable(start), NEW acc, DOMAIN acc = {"ok", "rows", "n"},
           TidTable(acc.rows), Grown(ids, start, acc.rows), NEW new,
           NEW i \in DOMAIN acc.rows, acc.rows[i][2] = v,
           NEW next, next = Collide(acc, i, new, n, q)
    PROVE  DOMAIN next = {"ok", "rows", "n"} /\ TidTable(next.rows) /\ Grown(ids, start, next.rows)
<1>1. CASE n.a.conflict = "none"
  <2>1. next = [acc EXCEPT !.ok = FALSE]
    BY <1>1 DEF Collide
  <2>2. QED
    BY <2>1
<1>2. CASE n.a.conflict = "nothing"
  <2>1. next = acc
    BY <1>2 DEF Collide
  <2>2. QED
    BY <2>1
<1>3. CASE n.a.conflict = "update"
  <2>1. PICK env, sets : /\ env = <<[as |-> n.a.name, cols |-> Cols, vals |-> acc.rows[i]]>>
                         /\ sets = n.kids[2].kids
    OBVIOUS
  <2>2. PICK rows, row : rows = acc.rows /\ row = rows[i]
    OBVIOUS
  <2>3. PICK after : after = Assigned(row, sets, env, new, q)
    OBVIOUS
  <2>4. PICK s, k : s = [rows EXCEPT ![i] = after] /\ k = acc.n + 1
    OBVIOUS
  <2>5. next = [acc EXCEPT !.rows[i] = after, !.n = @ + 1]
    BY <1>3, <2>1, <2>2, <2>3 DEF Collide
  <2>6. DOMAIN next = {"ok", "rows", "n"} /\ next.rows = s
    BY <2>2, <2>4, <2>5
  <2>7. OwnRow(row, ids)
    <3>1. DOMAIN ids = {1} /\ ids[1] = v
      BY OneBinding
    <3>2. HasTid(row) /\ row[2] = v
      BY <2>2 DEF TidTable
    <3>3. QED
      BY <3>1, <3>2 DEF OwnRow
  <2>8. HasTid(after) /\ after[2] = row[2]
    <3>1. SetsKeep(sets, q.d, ids) /\ KnownColumns(q.d, SetColumns(sets))
      BY <1>3, <2>1 DEF Conflicting
    <3>2. QED
      BY <2>3, <2>7, <3>1, AssignedKeeps
  <2>9. TidTable(s) /\ Grown(ids, start, s)
    BY <2>2, <2>4, <2>8, RowChanged
  <2>10. QED
    BY <2>6, <2>9
<1>4. QED
  BY <1>1, <1>2, <1>3 DEF Conflicting

(* One row put among others.                                                *)
LEMMA PutGrows ==
    ASSUME EvalIsRecursion, NEW n, NEW v, NEW ids, ids = <<v>>, NEW q, Conflicting(n, ids, q.d),
           NEW start, TidTable(start), NEW acc, DOMAIN acc = {"ok", "rows", "n"},
           TidTable(acc.rows), Grown(ids, start, acc.rows), NEW new, HasTid(new), new[2] = v,
           NEW next, next = Put(acc, new, n, q)
    PROVE  DOMAIN next = {"ok", "rows", "n"} /\ TidTable(next.rows) /\ Grown(ids, start, next.rows)
<1>1. PICK rows : rows = acc.rows
  OBVIOUS
<1>2. PICK same : same = {i \in DOMAIN rows : rows[i][1] = new[1] /\ rows[i][2] = new[2]}
  OBVIOUS
<1>3. CASE Null \in {new[1], new[2]} \/ same = {}
  <2>1. next = [acc EXCEPT !.rows = Append(@, new), !.n = @ + 1]
    BY <1>1, <1>2, <1>3 DEF Put
  <2>2. PICK s : s = Append(rows, new)
    OBVIOUS
  <2>3. DOMAIN next = {"ok", "rows", "n"} /\ next.rows = s
    BY <1>1, <2>1, <2>2
  <2>4. TidTable(s) /\ Grown(ids, start, s)
    BY <1>1, <2>2, RowAdded
  <2>5. QED
    BY <2>3, <2>4
<1>4. CASE ~(Null \in {new[1], new[2]} \/ same = {})
  <2>1. PICK i : i = Min(same)
    OBVIOUS
  <2>2. same \in SUBSET Nat
    <3>1. DOMAIN rows = 1 .. Len(rows) /\ Len(rows) \in Nat
      BY <1>1, SequenceOf DEF TidTable
    <3>2. QED
      BY <1>2, <3>1
  <2>3. i \in same
    BY <1>4, <2>1, <2>2, MinOf
  <2>4. i \in DOMAIN acc.rows /\ acc.rows[i][2] = v
    BY <1>1, <1>2, <2>3
  <2>5. next = Collide(acc, i, new, n, q)
    BY <1>1, <1>2, <1>4, <2>1 DEF Put
  <2>6. QED
    BY <2>4, <2>5, CollideKeeps
<1>5. QED
  BY <1>3, <1>4

(* All the tuples are of one tenant.                                        *)
Offered(given, columns, d, v) ==
    IsList(given) /\ \A i \in DOMAIN given : GivesTenant(d, columns, given[i], v)
ConflictSets(n, ids, d) ==
    /\ n.a.conflict \in {"none", "nothing", "update"}
    /\ n.a.conflict = "update" => SetsKeep(n.kids[2].kids, d, ids)

(* An INSERT leaves rows their tenants and adds rows of that one.           *)
LEMMA InsertGrows ==
    ASSUME EvalIsRecursion, NEW n, NEW v, NEW ids, ids = <<v>>, NEW q, ConflictSets(n, ids, q.d),
           NEW given, Offered(given, n.a.columns, q.d, v),
           NEW data, TidTables(data), NEW r, r = InsertAll(data, n, q, given), r.ok
    PROVE  AllGrown(ids, data, r.db)
<1>1. PICK name, start : name = n.a.name /\ start = data[name]
  OBVIOUS
<1>2. PICK base : base = [ok |-> TRUE, rows |-> start, n |-> 0]
  OBVIOUS
<1>3. PICK all : all = FoldLeft(LAMBDA acc, vals : Put(acc, RowOf(q.d, n.a.columns, vals), n, q), base, given)
  OBVIOUS
<1>4. r = Outcome(data, name, all) /\ KnownColumns(q.d, SetColumns(n.kids[2].kids))
  <2>1. r = Refusal \/ (r = Outcome(data, name, all) /\ KnownColumns(q.d, SetColumns(n.kids[2].kids)))
    BY <1>1, <1>2, <1>3 DEF InsertAll
  <2>2. r # Refusal
    BY DEF Refusal
  <2>3. QED
    BY <2>1, <2>2
<1>5. Conflicting(n, ids, q.d)
  BY <1>4 DEF Conflicting, ConflictSets
<1>6. PICK rows : rows = all.rows
  OBVIOUS
<1>7. r.db = [data EXCEPT ![name] = rows]
  <2>1. r = Refusal \/ r = Changed(data, name, rows, all.n)
    BY <1>4, <1>6 DEF Outcome
  <2>2. r # Refusal
    BY DEF Refusal
  <2>3. QED
    BY <2>1, <2>2 DEF Changed
<1>8. ASSUME name \in DOMAIN data
      PROVE  TidTable(rows) /\ Grown(ids, start, rows)
  <2>1. PICK x : x = [q |-> q, n |-> n, ids |-> ids, start |-> start]
    OBVIOUS
  <2>2. PICK m \in Nat : DOMAIN given = 1 .. m
    BY DEF Offered, IsList
  <2>3. TidTable(start)
    BY <1>1, <1>8 DEF TidTables
  <2>4. PutSoFar(x, 0, base)
    BY <1>2, <2>1, <2>3, AsItWas DEF PutSoFar
  <2>5. ASSUME NEW i \in 1 .. m, NEW a, PutSoFar(x, i - 1, a)
        PROVE  PutSoFar(x, i, PutMore(x, a, given[i]))
    <3>1. PICK columns, vals : columns = n.a.columns /\ vals = given[i]
      OBVIOUS
    <3>2. GivesTenant(q.d, columns, vals, v)
      BY <2>2, <3>1 DEF Offered
    <3>3. PICK new : new = RowOf(q.d, columns, vals)
      OBVIOUS
    <3>4. HasTid(new) /\ new[2] = v
      BY <3>2, <3>3, RowOfTenant
    <3>5. PICK next : next = Put(a, new, n, q)
      OBVIOUS
    <3>6. DOMAIN a = {"ok", "rows", "n"} /\ TidTable(a.rows) /\ Grown(ids, start, a.rows)
      BY <2>1, <2>5 DEF PutSoFar
    <3>7. DOMAIN next = {"ok", "rows", "n"} /\ TidTable(next.rows) /\ Grown(ids, start, next.rows)
      BY <1>5, <2>3, <3>4, <3>5, <3>6, PutGrows
    <3>8. PutMore(x, a, given[i]) = next
      BY <2>1, <3>1, <3>3, <3>5 DEF PutMore
    <3>9. QED
      BY <2>1, <3>7, <3>8 DEF PutSoFar
  <2>6. PutSoFar(x, m, GivenFold!Folded(x, base, given))
    BY <2>2, <2>4, <2>5, LeastNumber, GivenFold!FoldInduction DEF GivenFold!LeastNumber
  <2>7. all = GivenFold!Folded(x, base, given)
    BY <1>3, <2>1 DEF GivenFold!Folded, PutMore, FoldLeft, MapThenFoldSet, Max, GivenFold!Last
  <2>8. QED
    BY <1>6, <2>1, <2>6, <2>7 DEF PutSoFar
<1>9. PICK next : next = r.db
  OBVIOUS
<1>10. /\ TidTables(next) /\ DOMAIN next = DOMAIN data
       /\ \A t \in DOMAIN data : IF t = name THEN next[t] = rows ELSE next[t] = data[t]
  <2>1. name \in DOMAIN data => TidTable(rows)
    BY <1>8
  <2>2. next = [data EXCEPT ![name] = rows]
    BY <1>7, <1>9
  <2>3. QED
    BY <2>1, <2>2, OneTable
<1>11. ASSUME NEW t \in DOMAIN data
       PROVE  Grown(ids, data[t], next[t])
  <2>1. CASE t = name
    BY <1>1, <1>8, <1>10, <2>1
  <2>2. CASE t # name
    BY <1>10, <2>2, AsItWas DEF TidTables
  <2>3. QED
    BY <2>1, <2>2
<1>12. QED
  BY <1>9, <1>10, <1>11 DEF AllGrown

(* A row of VALUES of one tenant.                                           *)
RowOfOne(row, columns, d, v) ==
    /\ \E j \in DOMAIN columns : 2 \in Position(d, columns[j])
    /\ \A j \in DOMAIN columns : 2 \in Position(d, columns[j]) =>
          j \in DOMAIN row.kids /\ Ph(row.kids[j], v)

(* An INSERT of rows of the one tenant in force.                            *)
Inserting(n, ids, d) ==
    /\ n.t = "insert" /\ ConflictSets(n, ids, d)
    /\ n.kids[1].t = "values" /\ IsList(n.kids[1].kids)
    /\ \E v : /\ ids = <<v>>
              /\ \A i \in DOMAIN n.kids[1].kids : RowOfOne(n.kids[1].kids[i], n.a.columns, d, v)

(* What it gives.                                                           *)
LEMMA GivenIs ==
    ASSUME EvalIsRecursion, NEW n, NEW columns, NEW d, NEW v, n.t = "values", IsList(n.kids),
           \A i \in DOMAIN n.kids : RowOfOne(n.kids[i], columns, d, v), NEW q,
           NEW given, given = Given(n, q)
    PROVE  Offered(given, columns, d, v)
<1>1. given = [i \in DOMAIN n.kids |-> [j \in DOMAIN n.kids[i].kids |-> Eval(n.kids[i].kids[j], <<>>, q)]]
  BY DEF Given
<1>2. DOMAIN given = DOMAIN n.kids
  BY <1>1
<1>3. ASSUME NEW i \in DOMAIN given
      PROVE  GivesTenant(d, columns, given[i], v)
  <2>1. PICK row, vals : row = n.kids[i] /\ vals = given[i]
    OBVIOUS
  <2>2. vals = [j \in DOMAIN row.kids |-> Eval(row.kids[j], <<>>, q)]
    BY <1>1, <1>2, <1>3, <2>1
  <2>3. RowOfOne(row, columns, d, v)
    BY <1>2, <1>3, <2>1
  <2>4. ASSUME NEW j \in DOMAIN columns, 2 \in Position(d, columns[j])
        PROVE  vals[j] = v
    <3>1. j \in DOMAIN row.kids /\ Ph(row.kids[j], v)
      BY <2>3, <2>4 DEF RowOfOne
    <3>2. vals[j] = Eval(row.kids[j], <<>>, q)
      BY <2>2, <3>1
    <3>3. QED
      BY <3>1, <3>2, EvalLeaf DEF Ph
  <2>5. QED
    BY <2>1, <2>3, <2>4 DEF GivesTenant, RowOfOne
<1>4. QED
  BY <1>2, <1>3 DEF Offered, IsList

(* What the database does with such an INSERT.                              *)
LEMMA ApplyGrows ==
    ASSUME EvalIsRecursion, NEW n, NEW ids, NEW q, Inserting(n, ids, q.d),
           NEW data, TidTables(data), NEW r, r = Apply(data, n, q), r.ok
    PROVE  AllGrown(ids, data, r.db)
<1>1. PICK p : p = InDb(q, data)
  OBVIOUS
<1>2. p.d = q.d
  BY <1>1 DEF InDb
<1>3. PICK given : given = Given(n.kids[1], p)
  OBVIOUS
<1>4. r = InsertAll(data, n, p, given)
  <2>1. NamesResolve(n)
    <3>1. ~NamesResolve(n) => r = Refusal
      BY DEF Apply
    <3>2. QED
      BY <3>1 DEF Refusal
  <2>2. QED
    BY <1>1, <1>3, <2>1 DEF Apply, ApplyInsert, Inserting
<1>5. PICK v : ids = <<v>> /\ \A i \in DOMAIN n.kids[1].kids : RowOfOne(n.kids[1].kids[i], n.a.columns, q.d, v)
  BY DEF Inserting
<1>6. PICK values, columns : values = n.kids[1] /\ columns = n.a.columns
  OBVIOUS
<1>7. Offered(given, columns, q.d, v)
  <2>1. values.t = "values" /\ IsList(values.kids)
    BY <1>6 DEF Inserting
  <2>2. \A i \in DOMAIN values.kids : RowOfOne(values.kids[i], columns, q.d, v)
    BY <1>5, <1>6
  <2>3. given = Given(values, p)
    BY <1>3, <1>6
  <2>4. QED
    BY <2>1, <2>2, <2>3, GivenIs
<1>8. Offered(given, n.a.columns, p.d, v) /\ ConflictSets(n, ids, p.d)
  BY <1>2, <1>6, <1>7 DEF Inserting
<1>9. QED
  BY <1>4, <1>5, <1>8, InsertGrows

(* Tables are lists of rows.                                                *)
LEMMA TidTablesAreLists ==
    ASSUME NEW data, TidTables(data)
    PROVE  TablesAreLists(data)
  BY SequenceOf DEF TidTables, TidTable, TablesAreLists

(* What it does with such an UPDATE or DELETE.                              *)
LEMMA ApplyShrinks ==
    ASSUME EvalIsRecursion, AnswersAreLists, NEW n, NEW prefix, NEW ids, NEW q,
           Changing(n, prefix, ids, q.d), ~q.view,
           NEW data, TidTables(data), NEW r, r = Apply(data, n, q), r.ok
    PROVE  AllShrunk(data, r.db)
<1>1. PICK p : p = InDb(q, data)
  OBVIOUS
<1>2. p.d = q.d /\ p.view = q.view /\ p.db = data
  BY <1>1 DEF InDb
<1>3. r = ApplyChange(data, n, p)
  <2>1. NamesResolve(n)
    <3>1. ~NamesResolve(n) => r = Refusal
      BY DEF Apply
    <3>2. QED
      BY <3>1 DEF Refusal
  <2>2. n.t # "insert"
    BY DEF Changing
  <2>3. QED
    BY <1>1, <2>1, <2>2 DEF Apply
<1>4. TablesAreLists(p.db) /\ Changing(n, prefix, ids, p.d) /\ ~p.view
  BY <1>2, TidTablesAreLists
<1>5. QED
  BY <1>3, <1>4, ChangeShrinks

=============================================================================

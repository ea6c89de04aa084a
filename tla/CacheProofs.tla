----------------------------- MODULE CacheProofs -----------------------------
(***************************************************************************)
(* Proofs about Cache for any number of goroutines, versions and calls,    *)
(* all forms of the query and all faults: CacheInv is inductive.           *)
(***************************************************************************)
EXTENDS Cache, TLAPS

USE DEF Nothing, Uncommitted, Unread

(* What is absent is an entry of the shape of its slot. *)
LEMMA AbsentTypes ==
    /\ NoneFound \in [Slots -> Entry]
    /\ \A s \in Slots : /\ NoneFound[s] = Absent(s) /\ Absent(s) \in Entry
                        /\ Absent(s).ver = Nothing /\ Absent(s).shape = Shape(s)
<1>1. \A s \in Slots : Shape(s) \in {"rows", "cell"}
  BY DEF Shape
<1>2. \A s \in Slots : Absent(s) \in Entry /\ Absent(s).ver = Nothing /\ Absent(s).shape = Shape(s)
  BY <1>1 DEF Absent, Entry
<1>. QED
  BY <1>2 DEF NoneFound

(* The slots of a form. *)
LEMMA FormSlots ==
    ASSUME NEW kind \in Forms
    PROVE  /\ SlotsOf(kind) \subseteq Slots
           /\ cacheKey(kind)[1] \in Slots
           /\ ~Done(NoneFound, kind)
           /\ \A h : ~Done(h, kind) =>
                 /\ NextSlot(h, kind) \in Slots
                 /\ ShapeFor(kind, NextSlot(h, kind)) = Shape(NextSlot(h, kind))
<1>1. CASE kind = "page"
  <2>1. cacheKey(kind) = <<"page_count", "page_rows">>
    BY <1>1 DEF cacheKey
  <2>2. DOMAIN cacheKey(kind) = {1, 2}
    BY <2>1
  <2>3. SlotsOf(kind) \subseteq Slots /\ cacheKey(kind)[1] \in Slots
    BY <2>1, <2>2 DEF SlotsOf, Slots
  <2>4. ~Done(NoneFound, kind)
    <3>1. NoneFound["page_count"].ver = Nothing
      BY AbsentTypes DEF Slots
    <3>2. 1 \in Missing(NoneFound, kind)
      BY <2>1, <2>2, <3>1 DEF Missing
    <3>. QED
      BY <3>1, <3>2 DEF Done
  <2>5. \A h : NextSlot(h, kind) \in {"page_count", "page_rows"}
    BY <2>1 DEF NextSlot
  <2>. QED
    BY <1>1, <2>3, <2>4, <2>5 DEF ShapeFor, Slots
<1>2. CASE kind # "page"
  <2>1. cacheKey(kind) = <<kind>> /\ kind \in Slots
    BY <1>2 DEF cacheKey, Forms, Slots
  <2>2. DOMAIN cacheKey(kind) = {1} /\ cacheKey(kind)[1] = kind
    BY <2>1
  <2>3. SlotsOf(kind) \subseteq Slots
    BY <2>1, <2>2 DEF SlotsOf
  <2>4. ~Done(NoneFound, kind)
    <3>1. NoneFound[kind].ver = Nothing
      BY <2>1, AbsentTypes
    <3>2. 1 \in Missing(NoneFound, kind)
      BY <2>2, <3>1 DEF Missing
    <3>. QED
      BY <1>2, <3>2 DEF Done
  <2>5. ASSUME NEW h, ~Done(h, kind)
        PROVE  NextSlot(h, kind) = kind
    <3>1. Missing(h, kind) # {}
      BY <2>5 DEF Done
    <3>2. 1 \in Missing(h, kind)
      BY <3>1, <2>2 DEF Missing
    <3>. QED
      BY <3>2, <2>2 DEF NextSlot
  <2>6. ShapeFor(kind, kind) = Shape(kind)
    BY <1>2 DEF ShapeFor, Shape, Forms
  <2>. QED
    BY <2>1, <2>2, <2>3, <2>4, <2>5, <2>6
<1>. QED
  BY <1>1, <1>2

(* What the database answers is an entry: outside a transaction of the      *)
(* version that is committed, inside one of what the transaction sees.      *)
LEMMA ResultTypes ==
    ASSUME TypeOK, NEW p \in Procs, NEW s \in Slots, NEW r \in Results(p, s),
           ShapeFor(call[p].kind, s) = Shape(s)
    PROVE  /\ r \in Entry /\ r.shape = Shape(s)
           /\ txs[p].open => r.ver \in {Unread, Uncommitted, txs[p].base}
           /\ ~txs[p].open => r.ver \in {Unread, Len(versions)}
<1>. DEFINE c == call[p]
            rd(ver, empty) == [ver |-> ver, empty |-> empty, forced |-> c.force, shape |-> ShapeFor(c.kind, s)]
<1>1. /\ Len(versions) \in Nat \ {0} /\ \A i \in 1 .. Len(versions) : versions[i] \in BOOLEAN
      /\ c.force \in BOOLEAN /\ Shape(s) \in {"rows", "cell"}
      /\ txs[p].open \in BOOLEAN /\ txs[p].empty \in BOOLEAN
      /\ txs[p].open => txs[p].base \in 1 .. Len(versions)
  BY DEF TypeOK, Call, Tx, Shape
<1>2. \A ver \in {Unread, Uncommitted} \cup 1 .. Len(versions), e \in BOOLEAN :
         rd(ver, e) \in Entry /\ rd(ver, e).shape = Shape(s) /\ rd(ver, e).ver = ver
  BY <1>1 DEF Entry
<1>. HIDE DEF rd
<1>3. CASE dry
  <2>1. \E e \in BOOLEAN : r = rd(Unread, e)
    BY <1>3 DEF Results, rd
  <2>. QED
    BY <1>2, <1>3, <2>1
<1>4. CASE ~dry /\ ~txs[p].open
  <2>1. r = rd(Len(versions), versions[Len(versions)])
    BY <1>4 DEF Results, rd
  <2>. QED
    BY <1>1, <1>2, <1>4, <2>1
<1>5. CASE ~dry /\ txs[p].open
  <2>1. r = rd(Uncommitted, txs[p].empty) \/ r = rd(txs[p].base, versions[txs[p].base])
    BY <1>5 DEF Results, rd
  <2>. QED
    BY <1>1, <1>2, <1>5, <2>1
<1>. QED
  BY <1>3, <1>4, <1>5

(* A set of results found, each of the shape of its slot. *)
Found(h) == h \in [Slots -> Entry] /\ \A s \in Slots : h[s].shape = Shape(s)

(* Going on with a call, or ending it. *)
LEMMA ProceedTypes ==
    ASSUME TypeOK, NEW p \in Procs, NEW h, Found(h), Proceed(p, h), UNCHANGED txs
    PROVE  /\ pc' \in [Procs -> {"idle", "get", "query", "set"}] /\ pc'[p] \in {"idle", "query"}
           /\ have' \in [Procs -> [Slots -> Entry]]
           /\ \A q \in Procs : Found(have'[q])
           /\ \A q \in Procs \ {p} : have'[q] = have[q] /\ pc'[q] = pc[q]
           /\ have'[p] \in {h, NoneFound}
           /\ pc'[p] = "query" => ~Done(have'[p], call'[p].kind)
           /\ pc'[p] = "idle" /\ ~txs[p].open => have'[p] = NoneFound
           /\ call' \in [Procs -> Call] /\ \A q \in Procs \ {p} : call'[q] = call[q]
<1>1. Found(NoneFound)
  BY AbsentTypes DEF Found
<1>2. pc \in [Procs -> {"idle", "get", "query", "set"}] /\ have \in [Procs -> [Slots -> Entry]]
      /\ \A q \in Procs : Found(have[q])
  BY DEF TypeOK, Found
<1>3. /\ pc' = [pc EXCEPT ![p] = IF Done(h, call[p].kind) THEN "idle" ELSE "query"]
      /\ have' = [have EXCEPT ![p] = IF Done(h, call[p].kind) /\ ~txs[p].open THEN NoneFound ELSE h]
      /\ call' = [call EXCEPT ![p] = IF Done(h, call[p].kind) THEN NoCall ELSE call[p]]
  BY DEF Proceed, executorInTx
<1>4. have'[p] = IF Done(h, call[p].kind) /\ ~txs[p].open THEN NoneFound ELSE h
  BY <1>2, <1>3
<1>5. pc'[p] = IF Done(h, call[p].kind) THEN "idle" ELSE "query"
  BY <1>2, <1>3
<1>6. \A q \in Procs \ {p} : have'[q] = have[q] /\ pc'[q] = pc[q]
  BY <1>2, <1>3
<1>7. \A q \in Procs : Found(have'[q])
  BY <1>1, <1>2, <1>4, <1>6
<1>8. have' \in [Procs -> [Slots -> Entry]]
  BY <1>1, <1>2, <1>3 DEF Found
<1>9. pc' \in [Procs -> {"idle", "get", "query", "set"}]
  BY <1>2, <1>3
<1>10. /\ call' \in [Procs -> Call] /\ \A q \in Procs \ {p} : call'[q] = call[q]
       /\ ~Done(h, call[p].kind) => call'[p] = call[p]
  <2>1. NoCall \in Call /\ call \in [Procs -> Call]
    BY DEF NoCall, Call, Forms, Slots, TypeOK
  <2>. QED
    BY <1>3, <2>1
<1>. QED
  BY <1>4, <1>5, <1>6, <1>7, <1>8, <1>9, <1>10
-----------------------------------------------------------------------------
(* The initial states satisfy the invariant. *)
LEMMA InitInv == Init => CacheInv
<1>. SUFFICES ASSUME Init
              PROVE  CacheInv
  OBVIOUS
<1>1. \A s \in Slots : NoneFound[s].ver = Nothing /\ NoneFound[s].shape = Shape(s)
  BY AbsentTypes
<1>2. versions \in Seq(BOOLEAN) /\ versions # <<>> /\ Len(versions) = 1
  <2>1. CASE versions = <<TRUE>>
    BY <2>1
  <2>2. CASE versions = <<FALSE>>
    BY <2>2
  <2>. QED
    BY <2>1, <2>2 DEF Init
<1>3. txs \in [Procs -> Tx] /\ \A p \in Procs : ~txs[p].open
  <2>1. NoTx \in Tx /\ ~NoTx.open
    BY DEF NoTx, Tx
  <2>. QED
    BY <2>1 DEF Init
<1>4. call \in [Procs -> Call]
  BY DEF Init, NoCall, Call, Forms, Slots
<1>5. TypeOK
  BY <1>1, <1>2, <1>3, <1>4, AbsentTypes DEF Init, TypeOK
<1>6. CachedIsCommitted /\ StaleOnlyByOverlap /\ EmptyNeedsForce
  BY <1>1 DEF Init, CachedIsCommitted, StaleOnlyByOverlap, EmptyNeedsForce
<1>7. InTxSeesItself /\ Calling /\ Fillings
  BY <1>3 DEF Init, InTxSeesItself, Calling, Fillings
<1>8. Removals
  BY <1>2 DEF Init, Removals
<1>. QED
  BY <1>5, <1>6, <1>7, <1>8 DEF CacheInv

(* A step of one call that touches nothing but the call: what has to hold   *)
(* of the goroutine afterwards.                                             *)
LEMMA LocalStep ==
    ASSUME CacheInv, NEW p \in Procs,
           UNCHANGED <<data, cache, floor, overlap>>, made' \in Nat,
           pc' \in [Procs -> {"idle", "get", "query", "set"}],
           call' \in [Procs -> Call], have' \in [Procs -> [Slots -> Entry]],
           \A q \in Procs : Found(have'[q]),
           \A q \in Procs \ {p} : pc'[q] = pc[q] /\ call'[q] = call[q] /\ have'[q] = have[q],
           pc'[p] = "query" => ~Done(have'[p], call'[p].kind),
           pc'[p] \in {"get", "set"} => ~txs[p].open,
           pc'[p] = "idle" /\ ~txs[p].open => have'[p] = NoneFound,
           txs[p].open =>
               \A s \in Slots : have'[p][s].ver \in {Nothing, Unread, Uncommitted, txs[p].base},
           pc'[p] = "set" =>
               LET s == call'[p].slot
                   r == have'[p][s] IN
               /\ r.ver \in {Unread} \cup 1 .. Len(versions)
               /\ r.ver \in Nat \ {Nothing} => r.ver >= floor[s] \/ overlap[s]
               /\ r.empty => r.forced \/ s = "page_rows"
    PROVE  CacheInv'
<1>1. UNCHANGED <<versions, txs, dry, cache, floor, overlap>>
  BY DEF data
<1>2. TypeOK'
  BY <1>1 DEF CacheInv, TypeOK, Found
<1>3. CachedIsCommitted' /\ StaleOnlyByOverlap' /\ EmptyNeedsForce' /\ Removals'
  BY <1>1 DEF CacheInv, CachedIsCommitted, StaleOnlyByOverlap, EmptyNeedsForce, Removals
<1>4. InTxSeesItself'
  BY <1>1 DEF CacheInv, InTxSeesItself
<1>5. Calling'
  <2>. SUFFICES ASSUME NEW q \in Procs
                PROVE  /\ pc'[q] = "query" => ~Done(have'[q], call'[q].kind)
                       /\ pc'[q] \in {"get", "set"} => ~txs'[q].open
                       /\ pc'[q] = "idle" /\ ~txs'[q].open => have'[q] = NoneFound
    BY DEF Calling, Done, Missing
  <2>1. CASE q = p
    BY <1>1, <2>1
  <2>2. CASE q # p
    BY <1>1, <2>2 DEF CacheInv, Calling
  <2>. QED
    BY <2>1, <2>2
<1>6. Fillings'
  <2>. SUFFICES ASSUME NEW q \in Procs, pc'[q] = "set"
                PROVE  LET s == call'[q].slot
                           r == have'[q][s] IN
                       /\ r.ver \in {Unread} \cup 1 .. Len(versions')
                       /\ r.ver \in Nat \ {Nothing} => r.ver >= floor'[s] \/ overlap'[s]
                       /\ r.empty => r.forced \/ s = "page_rows"
    BY DEF Fillings
  <2>1. CASE q = p
    BY <1>1, <2>1
  <2>2. CASE q # p
    BY <1>1, <2>2 DEF CacheInv, Fillings
  <2>. QED
    BY <2>1, <2>2
<1>. QED
  BY <1>2, <1>3, <1>4, <1>5, <1>6 DEF CacheInv
-----------------------------------------------------------------------------
(* The parts of TypeOK a step of a call needs. *)
LEMMA Typed ==
    ASSUME TypeOK, NEW p \in Procs
    PROVE  /\ pc \in [Procs -> {"idle", "get", "query", "set"}]
           /\ call \in [Procs -> Call] /\ have \in [Procs -> [Slots -> Entry]]
           /\ call[p] \in Call /\ call[p].kind \in Forms /\ call[p].slot \in Slots
           /\ txs[p].open \in BOOLEAN /\ made \in Nat
           /\ \A q \in Procs : Found(have[q])
           /\ Found(cache) /\ Found(NoneFound)
           /\ Len(versions) \in Nat \ {0}
  BY AbsentTypes DEF TypeOK, Call, Tx, Found

(* A call begins. *)
LEMMA BeginInv ==
    ASSUME CacheInv, NEW p \in Procs, NEW kind \in Kinds, NEW force \in BOOLEAN,
           Begin(p, kind, force)
    PROVE  CacheInv'
<1>1. TypeOK /\ kind \in Forms
  BY CacheAssumption DEF CacheInv
<1>. DEFINE c == [kind |-> kind, force |-> force, slot |-> cacheKey(kind)[1]]
<1>2. c \in Call
  BY <1>1, FormSlots DEF Call
<1>3. /\ call' = [call EXCEPT ![p] = c] /\ have' = [have EXCEPT ![p] = NoneFound]
      /\ pc' = [pc EXCEPT ![p] = IF txs[p].open THEN "query" ELSE "get"]
      /\ made' = made + 1 /\ UNCHANGED <<data, cache, floor, overlap>>
  BY DEF Begin, executorInTx
<1>4. /\ call'[p] = c /\ have'[p] = NoneFound
      /\ pc'[p] = IF txs[p].open THEN "query" ELSE "get"
      /\ \A q \in Procs \ {p} : pc'[q] = pc[q] /\ call'[q] = call[q] /\ have'[q] = have[q]
  BY <1>1, <1>3, Typed
<1>5. /\ call' \in [Procs -> Call] /\ have' \in [Procs -> [Slots -> Entry]]
      /\ pc' \in [Procs -> {"idle", "get", "query", "set"}] /\ made' \in Nat
  BY <1>1, <1>2, <1>3, Typed DEF Found
<1>6. \A q \in Procs : Found(have'[q])
  BY <1>1, <1>4, Typed
<1>7. ~Done(have'[p], call'[p].kind)
  BY <1>1, <1>4, FormSlots
<1>8. \A s \in Slots : have'[p][s].ver = Nothing
  BY <1>4, AbsentTypes
<1>. HIDE DEF c
<1>9. /\ pc'[p] # "set" /\ pc'[p] # "idle" /\ (pc'[p] = "get" => ~txs[p].open)
      /\ UNCHANGED <<data, cache, floor, overlap>>
      /\ \A q \in Procs \ {p} : pc'[q] = pc[q] /\ call'[q] = call[q] /\ have'[q] = have[q]
  BY <1>3, <1>4
<1>. QED
  BY <1>5, <1>6, <1>7, <1>8, <1>9, LocalStep

(* A call goes on with what it has found, or ends, and touches nothing else. *)
LEMMA ProceedInv ==
    ASSUME CacheInv, NEW p \in Procs, NEW h, Found(h), Proceed(p, h),
           UNCHANGED <<data, cache, hist>>,
           txs[p].open =>
               \A s \in Slots : h[s].ver \in {Nothing, Unread, Uncommitted, txs[p].base}
    PROVE  CacheInv'
<1>1. TypeOK /\ UNCHANGED <<txs, floor, overlap, made>>
  BY DEF CacheInv, data, hist
<1>2. \A s \in Slots : NoneFound[s].ver = Nothing
  BY AbsentTypes
<1>3. /\ pc' \in [Procs -> {"idle", "get", "query", "set"}] /\ pc'[p] \in {"idle", "query"}
      /\ have' \in [Procs -> [Slots -> Entry]] /\ \A q \in Procs : Found(have'[q])
      /\ \A q \in Procs \ {p} : have'[q] = have[q] /\ pc'[q] = pc[q]
      /\ have'[p] \in {h, NoneFound}
      /\ pc'[p] = "query" => ~Done(have'[p], call'[p].kind)
      /\ pc'[p] = "idle" /\ ~txs[p].open => have'[p] = NoneFound
      /\ call' \in [Procs -> Call] /\ \A q \in Procs \ {p} : call'[q] = call[q]
  BY <1>1, ProceedTypes
<1>4. made' \in Nat
  BY <1>1, Typed
<1>5. txs[p].open =>
          \A s \in Slots : have'[p][s].ver \in {Nothing, Unread, Uncommitted, txs[p].base}
  BY <1>2, <1>3
<1>6. /\ pc'[p] # "set" /\ pc'[p] # "get"
      /\ \A q \in Procs \ {p} : pc'[q] = pc[q] /\ call'[q] = call[q] /\ have'[q] = have[q]
  BY <1>3
<1>. QED
  BY <1>1, <1>3, <1>4, <1>5, <1>6, LocalStep

(* The call ends with an error. *)
LEMMA FailInv ==
    ASSUME CacheInv, NEW p \in Procs, Fail(p), UNCHANGED <<data, cache, hist>>
    PROVE  CacheInv'
<1>1. TypeOK /\ UNCHANGED <<txs, floor, overlap, made>>
  BY DEF CacheInv, data, hist
<1>2. \A s \in Slots : NoneFound[s].ver = Nothing
  BY AbsentTypes
<1>3. /\ have' = [have EXCEPT ![p] = NoneFound] /\ pc' = [pc EXCEPT ![p] = "idle"]
      /\ call' = [call EXCEPT ![p] = NoCall]
  BY DEF Fail
<1>4. /\ have'[p] = NoneFound /\ pc'[p] = "idle"
      /\ \A q \in Procs \ {p} : pc'[q] = pc[q] /\ call'[q] = call[q] /\ have'[q] = have[q]
  BY <1>1, <1>3, Typed
<1>5. /\ have' \in [Procs -> [Slots -> Entry]]
      /\ pc' \in [Procs -> {"idle", "get", "query", "set"}]
      /\ \A q \in Procs : Found(have'[q])
  BY <1>1, <1>3, <1>4, Typed DEF Found
<1>6. call' \in [Procs -> Call] /\ made' \in Nat
  <2>1. NoCall \in Call
    BY DEF NoCall, Call, Forms, Slots
  <2>. QED
    BY <1>1, <1>3, <2>1, Typed
<1>. QED
  BY <1>1, <1>2, <1>4, <1>5, <1>6, LocalStep

(* The lookup, which only calls outside a transaction make. *)
LEMMA GetInv ==
    ASSUME CacheInv, NEW p \in Procs, Get(p)
    PROVE  CacheInv'
<1>1. TypeOK /\ ~txs[p].open
  BY DEF CacheInv, Calling, Get
<1>. DEFINE h == [s \in Slots |-> IF s \in SlotsOf(call[p].kind) THEN cache[s] ELSE Absent(s)]
<1>2. Found(h) /\ Found(NoneFound)
  BY <1>1, AbsentTypes, Typed DEF Found
<1>3. UNCHANGED <<data, cache, hist>> /\ (Proceed(p, h) \/ Proceed(p, NoneFound))
  BY DEF Get
<1>. HIDE DEF h
<1>. QED
  BY <1>1, <1>2, <1>3, ProceedInv
(* What the database has answered is held until it is stored, or handed on. *)
LEMMA QueryInv ==
    ASSUME CacheInv, NEW p \in Procs, Query(p)
    PROVE  CacheInv'
<1>. DEFINE s == NextSlot(have[p], call[p].kind)
<1>1. TypeOK /\ pc[p] = "query" /\ UNCHANGED <<data, cache, hist>>
  BY DEF CacheInv, Query
<1>2. call[p].kind \in Forms /\ ~Done(have[p], call[p].kind)
  BY <1>1, Typed DEF CacheInv, Calling
<1>3. s \in Slots /\ ShapeFor(call[p].kind, s) = Shape(s)
  BY <1>2, FormSlots
<1>4. CASE Fail(p)
  BY <1>1, <1>4, FailInv
<1>5. ASSUME NEW r \in Results(p, s),
             IF Storable(p, s, r)
             THEN /\ have' = [have EXCEPT ![p] = [have[p] EXCEPT ![s] = r]]
                  /\ call' = [call EXCEPT ![p].slot = s]
                  /\ pc' = [pc EXCEPT ![p] = "set"]
             ELSE Proceed(p, [have[p] EXCEPT ![s] = r])
      PROVE  CacheInv'
  <2>. DEFINE h == [have[p] EXCEPT ![s] = r]
  <2>. HIDE DEF s
  <2>1. /\ r \in Entry /\ r.shape = Shape(s)
        /\ txs[p].open => r.ver \in {Unread, Uncommitted, txs[p].base}
        /\ ~txs[p].open => r.ver \in {Unread, Len(versions)}
    BY <1>1, <1>3, <1>5, ResultTypes
  <2>2. Found(have[p])
    BY <1>1, Typed
  <2>3. h \in [Slots -> Entry] /\ h[s] = r /\ \A t \in Slots \ {s} : h[t] = have[p][t]
    BY <1>3, <2>1, <2>2 DEF Found
  <2>4. Found(h)
    BY <2>1, <2>2, <2>3 DEF Found
  <2>5. txs[p].open =>
            \A t \in Slots : h[t].ver \in {Nothing, Unread, Uncommitted, txs[p].base}
    BY <2>1, <2>3 DEF CacheInv, Removals, InTxSeesItself
  <2>. HIDE DEF h
  <2>6. CASE ~Storable(p, s, r)
    <3>1. Proceed(p, h)
      BY <1>5, <2>6 DEF h
    <3>. QED
      BY <1>1, <2>4, <2>5, <3>1, ProceedInv
  <2>7. CASE Storable(p, s, r)
    <3>1. /\ have' = [have EXCEPT ![p] = h] /\ call' = [call EXCEPT ![p].slot = s]
          /\ pc' = [pc EXCEPT ![p] = "set"]
      BY <1>5, <2>7 DEF h
    <3>2. ~txs[p].open /\ (r.empty => r.forced \/ s = "page_rows")
      BY <2>7 DEF Storable, executorInTx
    <3>3. have'[p] = h /\ pc'[p] = "set"
          /\ \A q \in Procs \ {p} : pc'[q] = pc[q] /\ have'[q] = have[q]
      BY <1>1, <3>1, Typed
    <3>4. call' \in [Procs -> Call] /\ call'[p].slot = s
          /\ \A q \in Procs \ {p} : call'[q] = call[q]
      <4>1. call \in [Procs -> Call] /\ call[p] \in Call
        BY <1>1, Typed
      <4>2. [call[p] EXCEPT !.slot = s] \in Call /\ [call[p] EXCEPT !.slot = s].slot = s
        BY <1>3, <4>1 DEF Call
      <4>3. call' = [call EXCEPT ![p] = [call[p] EXCEPT !.slot = s]]
        BY <3>1, <4>1
      <4>. QED
        BY <4>1, <4>2, <4>3
    <3>5. /\ have' \in [Procs -> [Slots -> Entry]]
          /\ pc' \in [Procs -> {"idle", "get", "query", "set"}]
          /\ \A q \in Procs : Found(have'[q])
      BY <1>1, <2>4, <3>1, <3>3, Typed DEF Found
    <3>6. /\ r.ver \in {Unread} \cup 1 .. Len(versions)
          /\ r.ver \in Nat \ {Nothing} => r.ver >= floor[s] \/ overlap[s]
      <4>1. Len(versions) \in Nat \ {0} /\ floor[s] <= Len(versions)
        BY <1>1, <1>3, Typed DEF CacheInv, Removals
      <4>. QED
        BY <2>1, <3>2, <4>1
    <3>7. UNCHANGED <<data, cache, floor, overlap>> /\ made' \in Nat
      BY <1>1, Typed DEF hist
    <3>8. h[s] = r
      BY <2>3
    <3>. QED
      BY <2>5, <3>2, <3>3, <3>4, <3>5, <3>6, <3>7, <3>8, LocalStep
  <2>. QED
    BY <2>6, <2>7
<1>. QED
  BY <1>4, <1>5 DEF Query

(* What is stored, or not: the held result becomes the entry of its slot. *)
LEMMA SetInv ==
    ASSUME CacheInv, NEW p \in Procs, Set(p)
    PROVE  CacheInv'
<1>. DEFINE s == call[p].slot
            r == have[p][s]
<1>1. /\ TypeOK /\ pc[p] = "set" /\ ~txs[p].open /\ Proceed(p, have[p])
      /\ UNCHANGED <<data, hist>> /\ (cache' = cache \/ cache' = [cache EXCEPT ![s] = r])
  BY DEF CacheInv, Calling, Set
<1>2. s \in Slots /\ Found(have[p]) /\ Found(cache)
  BY <1>1, Typed
<1>3. /\ r.ver \in {Unread} \cup 1 .. Len(versions)
      /\ r.ver \in Nat \ {Nothing} => r.ver >= floor[s] \/ overlap[s]
      /\ r.empty => r.forced \/ s = "page_rows"
  BY <1>1 DEF CacheInv, Fillings
<1>. HIDE DEF s, r
<1>4. cache' \in [Slots -> Entry] /\ \A t \in Slots : cache'[t] = cache[t] \/ (t = s /\ cache'[t] = r)
  BY <1>1, <1>2 DEF Found, r
<1>5. UNCHANGED <<versions, txs, dry, floor, overlap, made>>
  BY <1>1 DEF data, hist
<1>6. /\ pc' \in [Procs -> {"idle", "get", "query", "set"}] /\ pc'[p] \in {"idle", "query"}
      /\ have' \in [Procs -> [Slots -> Entry]] /\ \A q \in Procs : Found(have'[q])
      /\ \A q \in Procs \ {p} : have'[q] = have[q] /\ pc'[q] = pc[q]
      /\ have'[p] \in {have[p], NoneFound}
      /\ pc'[p] = "query" => ~Done(have'[p], call'[p].kind)
      /\ pc'[p] = "idle" => have'[p] = NoneFound
      /\ call' \in [Procs -> Call] /\ \A q \in Procs \ {p} : call'[q] = call[q]
  BY <1>1, <1>2, <1>5, ProceedTypes
<1>7. TypeOK'
  <2>1. \A t \in Slots : cache'[t].shape = Shape(t)
    BY <1>2, <1>4 DEF Found, r
  <2>. QED
    BY <1>1, <1>4, <1>5, <1>6, <2>1 DEF TypeOK, Found
<1>8. CachedIsCommitted'
  BY <1>3, <1>4, <1>5 DEF CacheInv, CachedIsCommitted
<1>9. StaleOnlyByOverlap'
  BY <1>3, <1>4, <1>5 DEF CacheInv, StaleOnlyByOverlap
<1>10. EmptyNeedsForce'
  BY <1>3, <1>4, <1>5 DEF CacheInv, EmptyNeedsForce
<1>11. InTxSeesItself'
  BY <1>1, <1>5, <1>6 DEF CacheInv, InTxSeesItself
<1>12. Calling'
  <2>. SUFFICES ASSUME NEW q \in Procs
                PROVE  /\ pc'[q] = "query" => ~Done(have'[q], call'[q].kind)
                       /\ pc'[q] \in {"get", "set"} => ~txs'[q].open
                       /\ pc'[q] = "idle" /\ ~txs'[q].open => have'[q] = NoneFound
    BY DEF Calling, Done, Missing
  <2>1. CASE q = p
    BY <1>1, <1>5, <1>6, <2>1
  <2>2. CASE q # p
    BY <1>5, <1>6, <2>2 DEF CacheInv, Calling
  <2>. QED
    BY <2>1, <2>2
<1>13. Fillings' /\ Removals'
  BY <1>5, <1>6 DEF CacheInv, Fillings, Removals
<1>. QED
  BY <1>7, <1>8, <1>9, <1>10, <1>11, <1>12, <1>13 DEF CacheInv
-----------------------------------------------------------------------------
(* The table and the transactions move on, the calls and the cache do not:  *)
(* versions are only added, and a transaction that goes on keeps its base.  *)
LEMMA WorldStep ==
    ASSUME CacheInv, UNCHANGED <<dry, cache, pc, call, floor, overlap>>,
           made' \in Nat, versions' \in Seq(BOOLEAN), Len(versions') >= Len(versions),
           txs' \in [Procs -> Tx], have' \in [Procs -> [Slots -> Entry]],
           \A q \in Procs :
               /\ have'[q] = have[q] \/ (have'[q] = NoneFound /\ pc[q] = "idle")
               /\ pc[q] # "idle" => UNCHANGED txs[q]
               /\ txs'[q].open => txs'[q].base \in 1 .. Len(versions')
               /\ txs'[q].open => IF txs[q].open THEN txs'[q].base = txs[q].base
                                                ELSE have'[q] = NoneFound
               /\ pc[q] = "idle" /\ ~txs'[q].open => have'[q] = NoneFound
    PROVE  CacheInv'
<1>1. TypeOK /\ Len(versions) \in Nat \ {0} /\ Len(versions') \in Nat
  BY Typed DEF CacheInv, TypeOK
<1>2. \A s \in Slots : NoneFound[s].ver = Nothing /\ NoneFound[s].shape = Shape(s)
  BY AbsentTypes
<1>3. TypeOK'
  <2>1. versions' # <<>>
    BY <1>1
  <2>2. \A q \in Procs, s \in Slots : have'[q][s].shape = Shape(s)
    BY <1>1, <1>2 DEF TypeOK
  <2>. QED
    BY <1>1, <2>1, <2>2 DEF TypeOK
<1>4. CachedIsCommitted' /\ StaleOnlyByOverlap' /\ EmptyNeedsForce' /\ Removals'
  <2>1. StaleOnlyByOverlap' /\ EmptyNeedsForce'
    BY DEF CacheInv, StaleOnlyByOverlap, EmptyNeedsForce
  <2>2. CachedIsCommitted'
    BY <1>1 DEF CacheInv, CachedIsCommitted
  <2>3. Removals'
    BY <1>1 DEF CacheInv, Removals, TypeOK
  <2>. QED
    BY <2>1, <2>2, <2>3
<1>5. InTxSeesItself'
  <2>. SUFFICES ASSUME NEW q \in Procs, txs'[q].open, NEW s \in Slots
                PROVE  have'[q][s].ver \in {Nothing, Unread, Uncommitted, txs'[q].base}
    BY DEF InTxSeesItself
  <2>1. CASE have'[q] = NoneFound
    BY <1>2, <2>1
  <2>2. CASE have'[q] # NoneFound
    BY <2>2 DEF CacheInv, InTxSeesItself
  <2>. QED
    BY <2>1, <2>2
<1>6. Calling'
  <2>. SUFFICES ASSUME NEW q \in Procs
                PROVE  /\ pc'[q] = "query" => ~Done(have'[q], call'[q].kind)
                       /\ pc'[q] \in {"get", "set"} => ~txs'[q].open
                       /\ pc'[q] = "idle" /\ ~txs'[q].open => have'[q] = NoneFound
    BY DEF Calling, Done, Missing
  <2>. QED
    BY DEF CacheInv, Calling
<1>7. Fillings'
  <2>. SUFFICES ASSUME NEW q \in Procs, pc[q] = "set"
                PROVE  LET s == call[q].slot
                           r == have[q][s] IN
                       /\ r.ver \in {Unread} \cup 1 .. Len(versions')
                       /\ r.ver \in Nat \ {Nothing} => r.ver >= floor[s] \/ overlap[s]
                       /\ r.empty => r.forced \/ s = "page_rows"
    BY DEF Fillings
  <2>. QED
    BY <1>1 DEF CacheInv, Fillings
<1>. QED
  BY <1>3, <1>4, <1>5, <1>6, <1>7 DEF CacheInv

LEMMA WriteInv ==
    ASSUME CacheInv, NEW p \in Procs,
           Write(p) \/ BeginTx(p) \/ WriteTx(p) \/ EndTx(p)
    PROVE  CacheInv'
<1>1. /\ TypeOK /\ versions \in Seq(BOOLEAN) /\ Len(versions) \in Nat \ {0}
      /\ txs \in [Procs -> Tx] /\ have \in [Procs -> [Slots -> Entry]] /\ made \in Nat
  BY Typed DEF CacheInv, TypeOK
<1>2. pc[p] = "idle" /\ UNCHANGED <<dry, cache, pc, call, floor, overlap>>
  BY DEF Write, BeginTx, WriteTx, EndTx, procs, hist
<1>3. \A q \in Procs : /\ txs[q].open => txs[q].base \in 1 .. Len(versions)
                       /\ pc[q] = "idle" /\ ~txs[q].open => have[q] = NoneFound
  BY <1>1 DEF CacheInv, Calling, TypeOK
<1>4. \A empty \in BOOLEAN : /\ Append(versions, empty) \in Seq(BOOLEAN)
                             /\ Len(Append(versions, empty)) = Len(versions) + 1
  BY <1>1
<1>5. CASE Write(p)
  <2>1. UNCHANGED <<txs, have, made>> /\ \E empty \in BOOLEAN : versions' = Append(versions, empty)
    BY <1>5 DEF Write, procs, hist
  <2>2. versions' \in Seq(BOOLEAN) /\ Len(versions') = Len(versions) + 1
    BY <1>4, <2>1
  <2>3. \A q \in Procs : txs'[q].open => txs'[q].base \in 1 .. Len(versions')
    <3>. SUFFICES ASSUME NEW q \in Procs, txs[q].open
                  PROVE  txs[q].base \in 1 .. Len(versions')
      BY <2>1
    <3>1. txs[q].base \in 1 .. Len(versions)
      BY <1>3
    <3>2. Len(versions) \in Nat
      BY <1>1
    <3>. QED
      BY <2>2, <3>1, <3>2
  <2>. QED
    BY <1>1, <1>2, <1>3, <2>1, <2>2, <2>3, WorldStep
<1>6. CASE BeginTx(p)
  <2>. DEFINE t == [open |-> TRUE, base |-> Len(versions), wrote |-> FALSE, empty |-> TRUE]
  <2>1. /\ ~txs[p].open /\ UNCHANGED <<versions, have>> /\ made' = made + 1
        /\ txs' = [txs EXCEPT ![p] = t]
    BY <1>6 DEF BeginTx, procs
  <2>2. t \in Tx /\ t.open /\ t.base \in 1 .. Len(versions)
    BY <1>1 DEF Tx
  <2>. HIDE DEF t
  <2>3. txs' \in [Procs -> Tx] /\ txs'[p] = t /\ \A q \in Procs \ {p} : txs'[q] = txs[q]
    BY <1>1, <2>1, <2>2
  <2>4. \A q \in Procs :
           /\ pc[q] # "idle" => UNCHANGED txs[q]
           /\ txs'[q].open => txs'[q].base \in 1 .. Len(versions)
           /\ txs'[q].open => IF txs[q].open THEN txs'[q].base = txs[q].base
                                            ELSE have[q] = NoneFound
           /\ pc[q] = "idle" /\ ~txs'[q].open => have[q] = NoneFound
    BY <1>2, <1>3, <2>1, <2>2, <2>3
  <2>. QED
    BY <1>1, <1>2, <2>1, <2>3, <2>4, WorldStep
<1>7. CASE WriteTx(p)
  <2>1. PICK empty \in BOOLEAN :
           txs' = [txs EXCEPT ![p] = [open |-> TRUE, base |-> txs[p].base, wrote |-> TRUE, empty |-> empty]]
    BY <1>1, <1>7 DEF WriteTx
  <2>. DEFINE t == [open |-> TRUE, base |-> txs[p].base, wrote |-> TRUE, empty |-> empty]
  <2>2. txs[p].open /\ UNCHANGED <<versions, have, made>>
    BY <1>7 DEF WriteTx, procs, hist
  <2>3. t \in Tx /\ t.open /\ t.base = txs[p].base
    BY <1>1 DEF Tx
  <2>4. txs' = [txs EXCEPT ![p] = t]
    BY <2>1
  <2>. HIDE DEF t
  <2>5. txs' \in [Procs -> Tx] /\ txs'[p] = t /\ \A q \in Procs \ {p} : txs'[q] = txs[q]
    BY <1>1, <2>3, <2>4
  <2>6. \A q \in Procs :
           /\ pc[q] # "idle" => UNCHANGED txs[q]
           /\ txs'[q].open => txs'[q].base \in 1 .. Len(versions)
           /\ txs'[q].open => txs[q].open /\ txs'[q].base = txs[q].base
           /\ pc[q] = "idle" /\ ~txs'[q].open => have[q] = NoneFound
    BY <1>2, <1>3, <2>2, <2>3, <2>5
  <2>. QED
    BY <1>1, <1>2, <2>2, <2>5, <2>6, WorldStep
<1>8. CASE EndTx(p)
  <2>1. /\ txs' = [txs EXCEPT ![p] = NoTx] /\ have' = [have EXCEPT ![p] = NoneFound]
        /\ versions' = Append(versions, txs[p].empty) \/ versions' = versions
        /\ made' = made
    BY <1>8 DEF EndTx, hist
  <2>2. NoTx \in Tx /\ ~NoTx.open /\ NoneFound \in [Slots -> Entry] /\ txs[p].empty \in BOOLEAN
    BY <1>1, AbsentTypes DEF NoTx, Tx
  <2>3. versions' \in Seq(BOOLEAN) /\ Len(versions') \in {Len(versions), Len(versions) + 1}
    BY <1>1, <1>4, <2>1, <2>2
  <2>4. /\ txs' \in [Procs -> Tx] /\ txs'[p] = NoTx
        /\ have' \in [Procs -> [Slots -> Entry]] /\ have'[p] = NoneFound
        /\ \A q \in Procs \ {p} : txs'[q] = txs[q] /\ have'[q] = have[q]
    BY <1>1, <2>1, <2>2
  <2>5. \A q \in Procs : txs'[q].open => txs'[q].base \in 1 .. Len(versions')
    <3>. SUFFICES ASSUME NEW q \in Procs, txs[q].open
                  PROVE  txs[q].base \in 1 .. Len(versions')
      BY <2>2, <2>4
    <3>1. txs[q].base \in 1 .. Len(versions)
      BY <1>3
    <3>2. Len(versions) \in Nat
      BY <1>1
    <3>. QED
      BY <2>3, <3>1, <3>2
  <2>. QED
    BY <1>1, <1>2, <1>3, <2>1, <2>2, <2>3, <2>4, <2>5, WorldStep
<1>. QED
  BY <1>5, <1>6, <1>7, <1>8

(* An entry goes: the program removes it, which is a new floor for its slot *)
(* and marks the calls that are about to fill it, or it expires.            *)
LEMMA RemoveInv ==
    ASSUME CacheInv, NEW S \in SUBSET Slots,
           Remove(S) \/ \E s \in S : S = {s} /\ Expire(s)
    PROVE  CacheInv'
<1>1. TypeOK /\ Len(versions) \in Nat /\ UNCHANGED <<versions, txs, dry, pc, call, have, made>>
  BY DEF CacheInv, TypeOK, Remove, Expire, data, procs, hist
<1>2. \A s \in Slots : Absent(s) \in Entry /\ Absent(s).ver = Nothing /\ Absent(s).shape = Shape(s)
  BY AbsentTypes
<1>3. cache' \in [Slots -> Entry]
      /\ \A s \in Slots : cache'[s] = IF s \in S THEN Absent(s) ELSE cache[s]
  <2>1. CASE Remove(S)
    BY <1>1, <1>2, <2>1 DEF Remove, TypeOK
  <2>2. ASSUME NEW s \in S, S = {s}, Expire(s)
        PROVE  /\ cache' \in [Slots -> Entry]
               /\ \A t \in Slots : cache'[t] = IF t \in S THEN Absent(t) ELSE cache[t]
    BY <1>1, <1>2, <2>2 DEF Expire, TypeOK
  <2>. QED
    BY <2>1, <2>2
<1>4. /\ floor' \in [Slots -> Nat] /\ overlap' \in [Slots -> BOOLEAN]
      /\ \A s \in Slots \ S : floor'[s] = floor[s] /\ overlap'[s] = overlap[s]
      /\ \A s \in S : \/ floor'[s] = Len(versions) /\ overlap'[s] = Filling(s)
                      \/ floor'[s] = floor[s] /\ overlap'[s] = overlap[s]
  BY <1>1 DEF Remove, Expire, hist, TypeOK, Filling
<1>5. TypeOK'
  BY <1>1, <1>2, <1>3, <1>4 DEF TypeOK
<1>6. CachedIsCommitted' /\ EmptyNeedsForce'
  BY <1>1, <1>2, <1>3 DEF CacheInv, CachedIsCommitted, EmptyNeedsForce
<1>7. StaleOnlyByOverlap'
  BY <1>2, <1>3, <1>4 DEF CacheInv, StaleOnlyByOverlap
<1>8. InTxSeesItself' /\ Calling'
  BY <1>1 DEF CacheInv, InTxSeesItself, Calling, Done, Missing
<1>9. Fillings'
  <2>. SUFFICES ASSUME NEW q \in Procs, pc[q] = "set"
                PROVE  LET s == call[q].slot
                           r == have[q][s] IN
                       /\ r.ver \in {Unread} \cup 1 .. Len(versions)
                       /\ r.ver \in Nat \ {Nothing} => r.ver >= floor'[s] \/ overlap'[s]
                       /\ r.empty => r.forced \/ s = "page_rows"
    BY <1>1 DEF Fillings
  <2>1. call[q].slot \in Slots /\ Filling(call[q].slot)
    BY <1>1, Typed DEF Filling
  <2>. QED
    BY <1>4, <2>1 DEF CacheInv, Fillings
<1>10. Removals'
  BY <1>1, <1>4 DEF CacheInv, Removals
<1>. QED
  BY <1>5, <1>6, <1>7, <1>8, <1>9, <1>10 DEF CacheInv
LEMMA SetDryRunInv ==
    ASSUME CacheInv, SetDryRun
    PROVE  CacheInv'
<1>1. /\ "dry" \in Faults /\ dry' = ~dry /\ TypeOK
      /\ UNCHANGED <<versions, txs, cache, pc, call, have, floor, overlap, made>>
  BY DEF CacheInv, SetDryRun, procs, hist
<1>2. TypeOK'
  BY <1>1 DEF TypeOK
<1>3. CachedIsCommitted' /\ StaleOnlyByOverlap' /\ EmptyNeedsForce' /\ InTxSeesItself'
  BY <1>1 DEF CacheInv, CachedIsCommitted, StaleOnlyByOverlap, EmptyNeedsForce, InTxSeesItself
<1>4. Calling' /\ Fillings' /\ Removals'
  BY <1>1 DEF CacheInv, Calling, Done, Missing, Fillings, Removals
<1>. QED
  BY <1>2, <1>3, <1>4 DEF CacheInv
-----------------------------------------------------------------------------
(* Every key the program removes is a set of slots. *)
LEMMA KeysAreSlots == \A S \in Keys : S \subseteq Slots
<1>. SUFFICES ASSUME NEW kind \in Kinds, NEW S \in {SlotsOf(kind)} \cup {{s} : s \in SlotsOf(kind)}
              PROVE  S \subseteq Slots
  BY DEF Keys
<1>1. SlotsOf(kind) \subseteq Slots
  BY CacheAssumption, FormSlots
<1>. QED
  BY <1>1

(* The invariant is inductive. *)
THEOREM Invariant == Spec => []CacheInv
<1>1. CacheInv /\ [Next]_vars => CacheInv'
  <2>. SUFFICES ASSUME CacheInv, [Next]_vars
                PROVE  CacheInv'
    OBVIOUS
  <2>1. ASSUME NEW p \in Procs, NEW kind \in Kinds, NEW force \in BOOLEAN, Begin(p, kind, force)
        PROVE  CacheInv'
    BY <2>1, BeginInv
  <2>2. ASSUME NEW p \in Procs, Get(p) \/ Query(p) \/ Set(p)
        PROVE  CacheInv'
    BY <2>2, GetInv, QueryInv, SetInv
  <2>3. ASSUME NEW p \in Procs, Write(p) \/ BeginTx(p) \/ WriteTx(p) \/ EndTx(p)
        PROVE  CacheInv'
    BY <2>3, WriteInv
  <2>4. ASSUME NEW S \in Keys, Remove(S)
        PROVE  CacheInv'
    BY <2>4, KeysAreSlots, RemoveInv
  <2>5. ASSUME NEW s \in Slots, Expire(s)
        PROVE  CacheInv'
    <3>1. {s} \in SUBSET Slots /\ \E t \in {s} : {s} = {t} /\ Expire(t)
      BY <2>5
    <3>. QED
      BY <3>1, RemoveInv
  <2>6. CASE SetDryRun
    BY <2>6, SetDryRunInv
  <2>7. CASE UNCHANGED vars
    BY <2>7 DEF vars, data, procs, hist, CacheInv, TypeOK, CachedIsCommitted, StaleOnlyByOverlap,
                EmptyNeedsForce, InTxSeesItself, Calling, Done, Missing, Fillings, Removals
  <2>. QED
    BY <2>1, <2>2, <2>3, <2>4, <2>5, <2>6, <2>7 DEF Next
<1>. QED
  BY <1>1, InitInv, PTL DEF Spec

(* The types, and the shape of every entry: what is stored under a key can  *)
(* be decoded by every call with that key.                                  *)
THEOREM TypesHold == Spec => []TypeOK
<1>1. CacheInv => TypeOK
  BY DEF CacheInv
<1>. QED
  BY <1>1, Invariant, PTL

(* What a transaction reads or writes is never cached, however it overlaps  *)
(* with calls outside of it.                                                *)
THEOREM OnlyCommittedIsCached == Spec => []CachedIsCommitted
<1>1. CacheInv => CachedIsCommitted
  BY DEF CacheInv
<1>. QED
  BY <1>1, Invariant, PTL

(* Only a call under way at a removal can undo it. *)
THEOREM RemovalLasts == Spec => []StaleOnlyByOverlap
<1>1. CacheInv => StaleOnlyByOverlap
  BY DEF CacheInv
<1>. QED
  BY <1>1, Invariant, PTL

(* Calls in a transaction answer from the transaction. *)
THEOREM TransactionsSeeThemselves == Spec => []InTxSeesItself
<1>1. CacheInv => InTxSeesItself
  BY DEF CacheInv
<1>. QED
  BY <1>1, Invariant, PTL

(* Without Force nothing empty is cached, but for rows of a page. *)
THEOREM EmptyIsForced == Spec => []EmptyNeedsForce
<1>1. CacheInv => EmptyNeedsForce
  BY DEF CacheInv
<1>. QED
  BY <1>1, Invariant, PTL
=============================================================================

-------------------------------- MODULE Cache --------------------------------
(***************************************************************************)
(* The query cache of the builders: Row, Rows, Value, Column, Count and    *)
(* Exists read through one key each, RowsAndCount and ColumnAndCount       *)
(* through the two fields of a hash (dsl/cache.go, dsl/select_row.go,      *)
(* dsl/select_cell.go, dsl/select_page.go).                                *)
(*                                                                         *)
(* One query runs on one table, in all its forms.  The table is the        *)
(* sequence of its committed versions, of which only matters whether the   *)
(* query finds rows in them.  A step of a goroutine is one call of the     *)
(* adapter or of the database.  A goroutine may be in a transaction, which *)
(* reads the version it began with, or what it wrote itself.               *)
(***************************************************************************)
EXTENDS Integers, Sequences

CONSTANTS
    Procs,       \* the goroutines
    Kinds,       \* the forms of the query: "rows" (Row, Rows), "count" (Count,
                 \* Exists), "column", "value", "page" (RowsAndCount and others)
    Faults,      \* "get", "set", "db": a call fails; "dry": dry run is switched
    MaxVersions, \* bound: versions of the table
    MaxCalls     \* bound: calls and transactions in all

Forms == {"rows", "count", "column", "value", "page"}

ASSUME CacheAssumption ==
    /\ Kinds \subseteq Forms
    /\ Faults \subseteq {"get", "set", "db", "dry"}
    /\ MaxVersions \in Nat /\ MaxCalls \in Nat

VARIABLES
    versions,  \* of every committed version: the query finds no rows in it
    txs,       \* per goroutine: its transaction
    dry,       \* DB.dryRun
    cache,     \* the entries of the adapters
    pc,        \* per goroutine: "idle", "get", "query", "set"
    call,      \* per goroutine: the form of its call, its Force option, the
               \* slot it fills
    have,      \* per goroutine: what its call has found, in the cache or not
    floor,     \* history: the version at the last removal of each slot
    overlap,   \* history: somebody was filling the slot at that removal
    made       \* history: calls made and transactions begun

data  == <<versions, txs, dry>>
procs == <<pc, call, have>>
hist  == <<floor, overlap, made>>
vars  == <<data, cache, procs, hist>>

(* The generated key of each form, and the fields of the page's hash. *)
Slots == {"rows", "count", "column", "value", "page_count", "page_rows"}

(* What a result was read from: a committed version, or one of these. *)
Nothing     == 0
Uncommitted == -1
Unread      == -2

Entry == [ver : {Nothing, Uncommitted, Unread} \cup Nat,
          empty : BOOLEAN, forced : BOOLEAN, shape : {"rows", "cell"}]
Tx    == [open : BOOLEAN, base : Nat, wrote : BOOLEAN, empty : BOOLEAN]
Call  == [kind : Forms, force : BOOLEAN, slot : Slots]

NoTx   == [open |-> FALSE, base |-> 0, wrote |-> FALSE, empty |-> TRUE]
NoCall == [kind |-> "rows", force |-> FALSE, slot |-> "rows"]

Shape(s) == IF s \in {"rows", "page_rows"} THEN "rows" ELSE "cell"
Absent(s) == [ver |-> Nothing, empty |-> TRUE, forced |-> FALSE, shape |-> Shape(s)]
NoneFound == [s \in Slots |-> Absent(s)]

Init ==
    /\ versions \in {<<TRUE>>, <<FALSE>>}
    /\ txs = [p \in Procs |-> NoTx] /\ dry = FALSE
    /\ cache = NoneFound
    /\ pc = [p \in Procs |-> "idle"]
    /\ call = [p \in Procs |-> NoCall]
    /\ have = [p \in Procs |-> NoneFound]
    /\ floor = [s \in Slots |-> 0] /\ overlap = [s \in Slots |-> FALSE] /\ made = 0
-----------------------------------------------------------------------------
(* cacheKey and compositeCacheKey: the slots of a form, in the order in     *)
(* which the call resolves them.                                            *)
cacheKey(kind) ==
    IF kind = "page" THEN <<"page_count", "page_rows">> ELSE <<kind>>

SlotsOf(kind) == {cacheKey(kind)[i] : i \in DOMAIN cacheKey(kind)}

(* Mutant: both fields of a page are stored as its rows are. *)
ShapeForOfKind(kind, s) == IF kind \in {"rows", "page"} THEN "rows" ELSE "cell"

(* The form of the result a call gets for a slot. *)
ShapeFor(kind, s) == IF kind \in {"rows", "page"} THEN Shape(s) ELSE "cell"

Missing(h, kind) == {i \in DOMAIN cacheKey(kind) : h[cacheKey(kind)[i]].ver = Nothing}

(* All slots are resolved, or the page's count is zero. *)
Done(h, kind) ==
    \/ Missing(h, kind) = {}
    \/ kind = "page" /\ h["page_count"].ver # Nothing /\ h["page_count"].empty

NextSlot(h, kind) ==
    IF 1 \in Missing(h, kind) THEN cacheKey(kind)[1] ELSE cacheKey(kind)[2]

executorInTx(p) == txs[p].open

(* The next statement, or the end of the call; what a call in a transaction *)
(* has answered is remembered.                                              *)
Proceed(p, h) ==
    /\ have' = [have EXCEPT ![p] =
                   IF Done(h, call[p].kind) /\ ~executorInTx(p) THEN NoneFound ELSE h]
    /\ pc' = [pc EXCEPT ![p] = IF Done(h, call[p].kind) THEN "idle" ELSE "query"]
    /\ call' = [call EXCEPT ![p] = IF Done(h, call[p].kind) THEN NoCall ELSE call[p]]

Fail(p) ==
    /\ have' = [have EXCEPT ![p] = NoneFound]
    /\ pc' = [pc EXCEPT ![p] = "idle"]
    /\ call' = [call EXCEPT ![p] = NoCall]
-----------------------------------------------------------------------------
(* Mutant: a call in a transaction looks into the cache. *)
BeginAnyway(p, kind, force) ==
    /\ pc[p] = "idle" /\ made < MaxCalls
    /\ made' = made + 1
    /\ call' = [call EXCEPT ![p] = [kind |-> kind, force |-> force, slot |-> cacheKey(kind)[1]]]
    /\ have' = [have EXCEPT ![p] = NoneFound]
    /\ pc' = [pc EXCEPT ![p] = "get"]
    /\ UNCHANGED <<data, cache, floor, overlap>>

(* A call with the cache option.  One that is bound to a transaction goes   *)
(* to the database at once.                                                 *)
Begin(p, kind, force) ==
    /\ pc[p] = "idle" /\ made < MaxCalls
    /\ made' = made + 1
    /\ call' = [call EXCEPT ![p] = [kind |-> kind, force |-> force, slot |-> cacheKey(kind)[1]]]
    /\ have' = [have EXCEPT ![p] = NoneFound]
    /\ pc' = [pc EXCEPT ![p] = IF executorInTx(p) THEN "query" ELSE "get"]
    /\ UNCHANGED <<data, cache, floor, overlap>>

(* adapter.Get, or adapter.HGetAll for both fields of a page.  An error is  *)
(* a miss, a payload of another shape is an error of the call.              *)
Get(p) ==
    /\ pc[p] = "get"
    /\ \/ Proceed(p, [s \in Slots |-> IF s \in SlotsOf(call[p].kind) THEN cache[s] ELSE Absent(s)])
       \/ "get" \in Faults /\ Proceed(p, NoneFound)
    /\ UNCHANGED <<data, cache, hist>>

(* What the database answers: a dry run reads nothing, and the destination  *)
(* of a Value or a Column keeps what it held before.                        *)
Results(p, s) ==
    LET c == call[p]
        read(ver, empty) == [ver |-> ver, empty |-> empty, forced |-> c.force,
                             shape |-> ShapeFor(c.kind, s)] IN
    IF dry THEN {read(Unread, e) : e \in IF c.kind \in {"value", "column"} THEN BOOLEAN ELSE {TRUE}}
    ELSE IF ~txs[p].open THEN {read(Len(versions), versions[Len(versions)])}
    ELSE IF txs[p].wrote THEN {read(Uncommitted, txs[p].empty)}
    ELSE {read(txs[p].base, versions[txs[p].base])}

(* Mutant: what a transaction has read is stored. *)
StorableInTx(p, s, r)   == s = "page_rows" \/ ~r.empty \/ r.forced

(* A page's rows are stored whatever they are, any other result when it is  *)
(* not empty or Force is set.                                               *)
Storable(p, s, r) == ~executorInTx(p) /\ (s = "page_rows" \/ ~r.empty \/ r.forced)

(* The statement of the next slot.  What is empty for a Value is a zero, or *)
(* no row, which is an error; it is one too when dry run is switched on     *)
(* between its two tests of it.                                             *)
Query(p) ==
    LET c == call[p]
        s == NextSlot(have[p], c.kind) IN
    /\ pc[p] = "query"
    /\ \/ \E r \in Results(p, s) :
             IF Storable(p, s, r)
             THEN /\ have' = [have EXCEPT ![p] = [have[p] EXCEPT ![s] = r]]
                  /\ call' = [call EXCEPT ![p].slot = s]
                  /\ pc' = [pc EXCEPT ![p] = "set"]
             ELSE Proceed(p, [have[p] EXCEPT ![s] = r])
       \/ /\ \/ "db" \in Faults
             \/ c.kind = "value" /\ ("dry" \in Faults \/ \E r \in Results(p, s) : r.empty)
          /\ Fail(p)
    /\ UNCHANGED <<data, cache, hist>>

(* Mutant: what the call found of the hash is written back with the field. *)
SetAll(p) ==
    /\ pc[p] = "set"
    /\ cache' = [s \in Slots |-> IF have[p][s].ver # Nothing THEN have[p][s] ELSE cache[s]]
    /\ Proceed(p, have[p])
    /\ UNCHANGED <<data, hist>>

(* adapter.Set or adapter.HSet; its error is not reported. *)
Set(p) ==
    LET s == call[p].slot IN
    /\ pc[p] = "set"
    /\ \/ cache' = [cache EXCEPT ![s] = have[p][s]]
       \/ "set" \in Faults /\ UNCHANGED cache
    /\ Proceed(p, have[p])
    /\ UNCHANGED <<data, hist>>
-----------------------------------------------------------------------------
(* What the program and its other goroutines do meanwhile. *)

(* A write outside a transaction. *)
Write(p) ==
    /\ pc[p] = "idle" /\ ~txs[p].open /\ Len(versions) < MaxVersions
    /\ \E empty \in BOOLEAN : versions' = Append(versions, empty)
    /\ UNCHANGED <<txs, dry, cache, procs, hist>>

BeginTx(p) ==
    /\ pc[p] = "idle" /\ ~txs[p].open /\ made < MaxCalls
    /\ made' = made + 1
    /\ txs' = [txs EXCEPT ![p] = [open |-> TRUE, base |-> Len(versions), wrote |-> FALSE, empty |-> TRUE]]
    /\ UNCHANGED <<versions, dry, cache, procs, floor, overlap>>

WriteTx(p) ==
    /\ pc[p] = "idle" /\ txs[p].open
    /\ \E empty \in BOOLEAN :
          txs' = [txs EXCEPT ![p] = [open |-> TRUE, base |-> @.base, wrote |-> TRUE, empty |-> empty]]
    /\ UNCHANGED <<versions, dry, cache, procs, hist>>

EndTx(p) ==
    /\ pc[p] = "idle" /\ txs[p].open
    /\ \/ /\ txs[p].wrote /\ Len(versions) < MaxVersions
          /\ versions' = Append(versions, txs[p].empty)
       \/ UNCHANGED versions
    /\ txs' = [txs EXCEPT ![p] = NoTx]
    /\ have' = [have EXCEPT ![p] = NoneFound]
    /\ UNCHANGED <<dry, cache, pc, call, hist>>

(* Somebody is about to store a result in slot s. *)
Filling(s) == \E p \in Procs : pc[p] = "set" /\ call[p].slot = s

(* The program removes a key or a field: Remove, HDel. *)
Remove(S) ==
    /\ cache' = [s \in Slots |-> IF s \in S THEN Absent(s) ELSE cache[s]]
    /\ floor' = [s \in Slots |-> IF s \in S THEN Len(versions) ELSE floor[s]]
    /\ overlap' = [s \in Slots |-> IF s \in S THEN Filling(s) ELSE overlap[s]]
    /\ UNCHANGED <<data, procs, made>>

(* External: an entry expires. *)
Expire(s) ==
    /\ cache[s].ver # Nothing
    /\ cache' = [cache EXCEPT ![s] = Absent(s)]
    /\ UNCHANGED <<data, procs, hist>>

SetDryRun ==
    /\ "dry" \in Faults
    /\ dry' = ~dry
    /\ UNCHANGED <<versions, txs, cache, procs, hist>>

(* The keys in use, and the fields of the page's. *)
Keys == UNION {{SlotsOf(kind)} \cup {{s} : s \in SlotsOf(kind)} : kind \in Kinds}

Next ==
    \/ \E p \in Procs :
          \/ \E kind \in Kinds, force \in BOOLEAN : Begin(p, kind, force)
          \/ Get(p) \/ Query(p) \/ Set(p)
          \/ Write(p) \/ BeginTx(p) \/ WriteTx(p) \/ EndTx(p)
    \/ \E S \in Keys : Remove(S)
    \/ \E s \in Slots : Expire(s)
    \/ SetDryRun

Spec == Init /\ [][Next]_vars
-----------------------------------------------------------------------------
(* Properties.                                                              *)

(* The variables have their types, and what is stored under a key has the   *)
(* shape that the calls with this key decode (dsl/cache.go:128-135).        *)
TypeOK ==
    /\ versions \in Seq(BOOLEAN) /\ versions # <<>>
    /\ txs \in [Procs -> Tx] /\ dry \in BOOLEAN
    /\ \A p \in Procs : txs[p].open => txs[p].base \in 1 .. Len(versions)
    /\ cache \in [Slots -> Entry]
    /\ pc \in [Procs -> {"idle", "get", "query", "set"}]
    /\ call \in [Procs -> Call] /\ have \in [Procs -> [Slots -> Entry]]
    /\ \A s \in Slots : cache[s].shape = Shape(s)
    /\ \A p \in Procs, s \in Slots : have[p][s].shape = Shape(s)
    /\ floor \in [Slots -> Nat] /\ overlap \in [Slots -> BOOLEAN] /\ made \in Nat

(* What a transaction has written and may roll back never gets into the     *)
(* cache, whichever goroutines read and write while it is open: an entry is *)
(* of a committed version, or of no read at all                             *)
(* (dsl/select_cell.go:106-116, dsl/select_row.go:14, 85,                   *)
(* dsl/select_page.go:93, 176).                                             *)
CachedIsCommitted ==
    \A s \in Slots : cache[s].ver \in {Nothing, Unread} \cup 1 .. Len(versions)

(* An entry older than the last removal of its key was put there by a call  *)
(* that had read it before the removal and was about to store it: a call    *)
(* that begins afterwards, in a transaction with an old snapshot or with    *)
(* the other field of the page at hand, does not bring old results back     *)
(* (dsl/select_row.go:26-41, dsl/select_page.go:60-131).                    *)
StaleOnlyByOverlap ==
    \A s \in Slots :
        cache[s].ver \in Nat \ {Nothing} => cache[s].ver >= floor[s] \/ overlap[s]

(* A call in a transaction answers from it: from its snapshot, or from what *)
(* it wrote itself (dsl/select_cell.go:111-116).                            *)
InTxSeesItself ==
    \A p \in Procs : txs[p].open =>
        \A s \in Slots : have[p][s].ver \in {Nothing, Unread, Uncommitted, txs[p].base}

(* Without Force no empty result is stored, so that rows which appear later *)
(* are seen at once; but for the page whose count and rows were read from   *)
(* different versions (dsl/cache.go:113, dsl/select_page.go:83, 125-130).   *)
EmptyNeedsForce ==
    \A s \in Slots \ {"page_rows"} :
        cache[s].ver # Nothing /\ cache[s].empty => cache[s].forced

(* Inductive: what makes these hold.  A goroutine about to store a result   *)
(* is in no transaction, and the result it holds is as its entry must be.   *)
Calling ==
    \A p \in Procs :
        /\ pc[p] = "query" => ~Done(have[p], call[p].kind)
        /\ pc[p] \in {"get", "set"} => ~txs[p].open
        /\ pc[p] = "idle" /\ ~txs[p].open => have[p] = NoneFound

Fillings ==
    \A p \in Procs : pc[p] = "set" =>
        LET s == call[p].slot
            r == have[p][s] IN
        /\ r.ver \in {Unread} \cup 1 .. Len(versions)
        /\ r.ver \in Nat \ {Nothing} => r.ver >= floor[s] \/ overlap[s]
        /\ r.empty => r.forced \/ s = "page_rows"

Removals == \A s \in Slots : floor[s] <= Len(versions)

CacheInv ==
    /\ TypeOK /\ CachedIsCommitted /\ StaleOnlyByOverlap /\ InTxSeesItself /\ EmptyNeedsForce
    /\ Calling /\ Fillings /\ Removals

(* dsl/cache.go:113: without Force empty results are not cached.  What a    *)
(* dry run leaves in the destination of a Value is no result at all.        *)
UnreadNeedsForce ==
    \A s \in Slots \ {"page_rows"} : cache[s].ver = Unread => cache[s].forced
=============================================================================

-------------------------------- MODULE Sql --------------------------------
(***************************************************************************)
(* The text of a statement.  The renderers of the library return strings;  *)
(* here a rendered fragment is a tree whose children stand in the order    *)
(* they have in the string.  Its leaves are what the properties tell       *)
(* apart: placeholders, column references and the tables a FROM names.     *)
(* Keywords, quoting and commas are left out.                              *)
(***************************************************************************)
EXTENDS Integers, Sequences, SequencesExt, FiniteSetsExt, TLC

Node(t, a, kids) == [t |-> t, a |-> a, kids |-> kids]
Leaf(t, a) == Node(t, a, <<>>)

(* The elements of a sequence at some of its places, or that pass a test, in  *)
(* its order.  This is SelectSeq, written out: proofs need its definition.  *)
Chosen(s, is) ==
    [k \in 1 .. Cardinality(is) |-> s[CHOOSE i \in is : Cardinality({j \in is : j <= i}) = k]]
Filter(s, Test(_)) == Chosen(s, {i \in DOMAIN s : Test(s[i])})

(* A function with one value put or replaced. *)
PutAt(f, k, v) == [x \in DOMAIN f \cup {k} |-> IF x = k THEN v ELSE f[x]]

(* The empty string: fragments that render to "" are dropped by callers.   *)
Empty == Leaf("empty", 0)
IsEmpty(n) == n.t = "empty"
Present(ns) == Filter(ns, LAMBDA n : ~IsEmpty(n))

(* A list of fragments under one keyword, "" when there is none.           *)
Clause(t, ns) == IF Present(ns) = <<>> THEN Empty ELSE Node(t, 0, Present(ns))

CONSTANT Leaves(_, _)
(* The leaves of kind t below n, in text order.                            *)
LeavesOf(n, t) ==
    IF n.t = t THEN <<n.a>>
    ELSE FlattenSeq([i \in 1 .. Len(n.kids) |-> Leaves(n.kids[i], t)])

CONSTANT Kinds(_, _)
(* The attributes of the nodes of kind t in n. *)
KindsOf(n, t) ==
    (IF n.t = t THEN {n.a} ELSE {}) \cup UNION {Kinds(n.kids[i], t) : i \in DOMAIN n.kids}

(* The question marks (or $n) of a statement in the order they are read.   *)
Placeholders(n) == Leaves(n, "ph")

(***************************************************************************)
(* What the driver does: without numbers the i-th placeholder takes the    *)
(* i-th argument, with numbers $n takes argument n.  A statement binds     *)
(* well when every placeholder takes the value it was written for and no   *)
(* argument is left over.  Placeholders inside a raw fragment carry no     *)
(* number: the caller wrote them.                                          *)
(***************************************************************************)
BindsWell(n, args, numbered) ==
    LET phs == Placeholders(n) IN
    IF numbered
      THEN /\ \A i \in DOMAIN phs :
                phs[i].n # 0 => phs[i].n \in DOMAIN args /\ args[phs[i].n] = phs[i].v
           /\ {phs[i].n : i \in DOMAIN phs} \ {0} \subseteq DOMAIN args
           /\ Len(phs) = Len(args)
      ELSE /\ Len(phs) = Len(args)
           /\ \A i \in DOMAIN phs : phs[i].v = args[i]
=============================================================================

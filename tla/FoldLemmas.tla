------------------------------ MODULE FoldLemmas ------------------------------
(***************************************************************************)
(* Induction along a fold.  Step is what the fold does with an element and  *)
(* Inv what is said after each of them; what else they speak of is in x.    *)
(* A module that proves about its own fold takes this one with its own Step *)
(* and Inv.                                                                 *)
(*                                                                          *)
(* FoldLeft is some function of sets of positions that satisfies an         *)
(* equation.  That there is one is shown by a least counterexample.         *)
(***************************************************************************)
EXTENDS Integers

CONSTANTS
    Step(_, _, _),  \* x, what is there, an element -> what is there then
    Inv(_, _, _)    \* x, how many elements, what is there

Last(p) == CHOOSE y \in p : \A z \in p : y >= z

(* The community modules' FoldLeft, written out. *)
Folded(x, base, s) ==
    LET g[p \in SUBSET (DOMAIN s)] ==
            IF p = {} THEN base ELSE Step(x, g[p \ {Last(p)}], s[Last(p)])
    IN  g[DOMAIN s]

(* A set of numbers has a least.  This is induction, which the modules that *)
(* take this one get from the library: here it is a hypothesis.             *)
LeastNumber == \A N \in SUBSET Nat : N # {} => \E n \in N : \A m \in N : n <= m

(* A set of numbers that has a bound has a greatest, and Last gives it. *)
LEMMA MaxOf ==
    ASSUME LeastNumber, NEW n \in Nat, NEW N \in SUBSET (1 .. n), N # {}
    PROVE  Last(N) \in N /\ \A m \in N : m <= Last(N)
<1> DEFINE D == {n - m : m \in N}
<1>1. D \in SUBSET Nat /\ D # {}
  <2>1. \A m \in N : n - m \in Nat
    OBVIOUS
  <2>2. PICK m : m \in N
    OBVIOUS
  <2>3. n - m \in D
    BY <2>2
  <2>4. QED
    BY <2>1, <2>3
<1>2. PICK d \in D : \A e \in D : d <= e
  <2> HIDE DEF D
  <2>1. QED
    BY <1>1 DEF LeastNumber
<1>3. PICK m \in N : d = n - m
  OBVIOUS
<1>4. ASSUME NEW k \in N
      PROVE  m >= k
  <2>1. n - k \in D
    OBVIOUS
  <2>2. n - m <= n - k
    BY <1>2, <1>3, <2>1
  <2>3. QED
    BY <2>2
<1>5. \E y \in N : \A z \in N : y >= z
  BY <1>4
<1>6. QED
  BY <1>5 DEF Last

(* The greatest number up to k, and those that are left without it. *)
LEMMA MaxOfInterval ==
    ASSUME LeastNumber, NEW k \in Nat, k >= 1
    PROVE  Last(1 .. k) = k /\ (1 .. k) \ {k} = 1 .. k - 1
<1>1. k \in 1 .. k /\ 1 .. k # {} /\ 1 .. k \in SUBSET (1 .. k)
  OBVIOUS
<1>2. Last(1 .. k) \in 1 .. k /\ k <= Last(1 .. k)
  BY <1>1, MaxOf
<1>3. (1 .. k) \ {k} = 1 .. k - 1
  OBVIOUS
<1>4. QED
  BY <1>2, <1>3

(* The equation of a fold, which a function of sets of positions satisfies. *)
FoldOf(x, base, s, g, p) == IF p = {} THEN base ELSE Step(x, g[p \ {Last(p)}], s[Last(p)])
IsFold(x, base, s, S, g) == g = [p \in SUBSET S |-> FoldOf(x, base, s, g, p)]

(* What is folded is what such a function makes of all positions. *)
LEMMA FoldedIs ==
    ASSUME NEW x, NEW base, NEW s
    PROVE  Folded(x, base, s) = (CHOOSE g : IsFold(x, base, s, DOMAIN s, g))[DOMAIN s]
  BY DEF Folded, IsFold, FoldOf

(* g satisfies the equation for the sets of positions up to m. *)
FoldsUpTo(x, base, s, S, g, m) ==
    \A p \in SUBSET S : (\A i \in p : i <= m) => g[p] = FoldOf(x, base, s, g, p)

(* There is such a function. *)
LEMMA FoldExists ==
    ASSUME LeastNumber, NEW x, NEW base, NEW s, NEW n \in Nat
    PROVE  \E g : IsFold(x, base, s, 1 .. n, g)
<1> DEFINE S == 1 .. n
           Bad == {m \in Nat : ~\E g : FoldsUpTo(x, base, s, S, g, m)}
<1>3. ASSUME NEW m \in Bad, \A k \in Bad : m <= k
      PROVE  FALSE
  <2>1. CASE m = 0
    <3>1. FoldsUpTo(x, base, s, S, [p \in SUBSET S |-> base], 0)
      <4>1. \A p \in SUBSET S : (\A i \in p : i <= 0) => p = {}
        OBVIOUS
      <4>2. QED
        BY <4>1 DEF FoldsUpTo, FoldOf
    <3>2. QED
      BY <2>1, <3>1
  <2>2. CASE m # 0
    <3>1. m \in Nat /\ m - 1 \in Nat /\ m - 1 \notin Bad
      BY <1>3, <2>2
    <3>2. PICK g : FoldsUpTo(x, base, s, S, g, m - 1)
      BY <3>1
    <3> DEFINE h == [p \in SUBSET S |-> FoldOf(x, base, s, g, p)]
    <3>3. ASSUME NEW p \in SUBSET S, \A i \in p : i <= m
          PROVE  h[p] = FoldOf(x, base, s, h, p)
      <4>1. CASE p = {}
        BY <4>1 DEF FoldOf
      <4>2. CASE p # {}
        <5>1. Last(p) \in p /\ \A i \in p : i <= Last(p)
          BY <4>2, MaxOf
        <5>2. PICK y : y = Last(p)
          OBVIOUS
        <5>3. PICK t : t = p \ {y}
          OBVIOUS
        <5>4. t \in SUBSET S /\ \A i \in t : i <= m - 1
          <6>1. ASSUME NEW i \in t
                PROVE  i <= m - 1
            <7>0. \A j \in p : j \in Int
              OBVIOUS
            <7>1. i \in Int /\ y \in Int /\ i # y /\ i <= y /\ y <= m
              <8>1. i \in p /\ y \in p /\ i # y
                BY <5>1, <5>2, <5>3
              <8>2. QED
                BY <3>3, <5>1, <5>2, <7>0, <8>1
            <7>2. QED
              BY <3>1, <7>1
          <6>2. QED
            BY <5>3, <6>1
        <5>5. g[t] = h[t]
          BY <3>2, <5>4 DEF FoldsUpTo
        <5>6. h[p] = Step(x, g[t], s[y])
          BY <4>2, <5>2, <5>3 DEF FoldOf
        <5>7. FoldOf(x, base, s, h, p) = Step(x, h[t], s[y])
          BY <4>2, <5>2, <5>3 DEF FoldOf
        <5>8. QED
          BY <5>5, <5>6, <5>7
      <4>3. QED
        BY <4>1, <4>2
    <3>4. FoldsUpTo(x, base, s, S, h, m)
      <4> HIDE DEF h
      <4>1. QED
        BY <3>3 DEF FoldsUpTo
    <3>5. QED
      BY <3>4
  <2>3. QED
    BY <2>1, <2>2
<1>4. Bad = {}
  <2> HIDE DEF Bad
  <2>1. Bad \in SUBSET Nat
    BY DEF Bad
  <2>2. QED
    BY <1>3, <2>1 DEF LeastNumber
<1>5. PICK g : FoldsUpTo(x, base, s, S, g, n)
  BY <1>4
<1> DEFINE h == [p \in SUBSET S |-> FoldOf(x, base, s, g, p)]
<1>6. ASSUME NEW p \in SUBSET S
      PROVE  h[p] = g[p]
  <2>1. \A i \in p : i <= n
    OBVIOUS
  <2>2. QED
    BY <1>5, <2>1 DEF FoldsUpTo
<1>7. ASSUME NEW p \in SUBSET S
      PROVE  FoldOf(x, base, s, h, p) = FoldOf(x, base, s, g, p)
  <2>1. p \ {Last(p)} \in SUBSET S
    OBVIOUS
  <2>2. h[p \ {Last(p)}] = g[p \ {Last(p)}]
    BY <1>6, <2>1
  <2>3. QED
    BY <2>2 DEF FoldOf
<1>8. IsFold(x, base, s, S, h)
  <2>1. \A p \in SUBSET S : h[p] = FoldOf(x, base, s, h, p)
    BY <1>7
  <2>2. h = [p \in SUBSET S |-> h[p]]
    OBVIOUS
  <2> HIDE DEF h
  <2>3. QED
    BY <2>1, <2>2 DEF IsFold
<1>9. QED
  BY <1>8

(* What holds before the first element, and after each when it held before  *)
(* it, holds of the fold.                                                   *)
THEOREM FoldInduction ==
    ASSUME LeastNumber,
           NEW x, NEW base, NEW s, NEW n \in Nat, DOMAIN s = 1 .. n,
           Inv(x, 0, base),
           \A i \in 1 .. n : \A a : Inv(x, i - 1, a) => Inv(x, i, Step(x, a, s[i]))
    PROVE  Inv(x, n, Folded(x, base, s))
<1>1. \E g : IsFold(x, base, s, 1 .. n, g)
  BY FoldExists
<1>2. PICK g : g = CHOOSE f : IsFold(x, base, s, 1 .. n, f)
  OBVIOUS
<1>3. IsFold(x, base, s, 1 .. n, g)
  BY <1>1, <1>2
<1>4. Folded(x, base, s) = g[1 .. n]
  BY <1>2, FoldedIs
<1>5. \A p \in SUBSET (1 .. n) : g[p] = FoldOf(x, base, s, g, p)
  BY <1>3 DEF IsFold
<1> DEFINE Bad == {k \in 0 .. n : ~Inv(x, k, g[1 .. k])}
<1>6. Inv(x, 0, g[1 .. 0])
  <2>1. 1 .. 0 = {} /\ {} \in SUBSET (1 .. n)
    OBVIOUS
  <2>2. g[{}] = base
    BY <1>5, <2>1 DEF FoldOf
  <2>3. QED
    BY <2>1, <2>2
<1>7. ASSUME NEW k \in 1 .. n, Inv(x, k - 1, g[1 .. k - 1])
      PROVE  Inv(x, k, g[1 .. k])
  <2>1. k \in Nat /\ k >= 1
    OBVIOUS
  <2>2. 1 .. k \in SUBSET (1 .. n) /\ 1 .. k # {}
    BY <2>1
  <2>3. PICK p : p = 1 .. k
    OBVIOUS
  <2>4. Last(p) = k /\ p \ {k} = 1 .. k - 1
    BY <2>1, <2>3, MaxOfInterval
  <2>5. g[p] = Step(x, g[1 .. k - 1], s[k])
    BY <1>5, <2>2, <2>3, <2>4 DEF FoldOf
  <2>6. QED
    BY <1>7, <2>3, <2>5
<1>8. Bad = {}
  <2>1. ASSUME NEW k \in Bad, \A m \in Bad : k <= m
        PROVE  FALSE
    <3>1. k \in 0 .. n /\ ~Inv(x, k, g[1 .. k])
      OBVIOUS
    <3>2. k # 0
      BY <1>6, <3>1
    <3>3. k \in 1 .. n /\ k - 1 \in 0 .. n /\ ~(k <= k - 1)
      BY <3>1, <3>2
    <3>4. k - 1 \notin Bad
      BY <2>1, <3>3
    <3>5. Inv(x, k - 1, g[1 .. k - 1])
      BY <3>3, <3>4
    <3>6. QED
      BY <1>7, <3>1, <3>3, <3>5
  <2>2. Bad \in SUBSET Nat
    OBVIOUS
  <2> HIDE DEF Bad
  <2>3. QED
    BY <2>1, <2>2 DEF LeastNumber
<1>9. n \in 0 .. n
  OBVIOUS
<1>10. QED
  BY <1>4, <1>8, <1>9
===============================================================================

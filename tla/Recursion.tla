------------------------------ MODULE Recursion ------------------------------
(***************************************************************************)
(* The recursive definitions of Sql, Query and Rows call themselves through *)
(* constants, so that they can be proved about.  Here are the values that a *)
(* configuration gives to these constants: the definitions themselves.      *)
(* Each is under a LET, which TLC's coverage does not unfold without end.   *)
(***************************************************************************)
EXTENDS Rows

AllLeaves(n, t) == LET all == LeavesOf(n, t) IN all
AllKinds(n, t) == LET all == KindsOf(n, t) IN all
Mentions(e, base, col) == LET found == mentions(e, base, col) IN found
RenderedAs(h, rc, e) == LET r == RenderExpression(h, rc, e) IN r
WalkAll(h, e, d) == LET valid == Walk(h, e, d) IN valid
Cloned(h, id) == LET c == CloneOf(h, id) IN c
Evaluated(n, env, q) == LET v == EvalNode(n, env, q) IN v
=============================================================================

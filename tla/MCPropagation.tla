----------------------------- MODULE MCPropagation -----------------------------
(***************************************************************************)
(* The constants of the runs of Propagation: pools with connections for    *)
(* every call, or one pool with a single connection.                       *)
(***************************************************************************)
EXTENDS Propagation, TLC

MCAllModes == Propagations
MCJoining  == {"nested", "required", "supports", "mandatory"}
MCAmple    == [s \in Scopes |-> MaxDepth + 1]
MCSingle   == [s \in Scopes |-> 1]
MCSymmetry == Permutations(Scopes)
=============================================================================

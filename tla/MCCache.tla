------------------------------- MODULE MCCache -------------------------------
(***************************************************************************)
(* The constants of the runs of Cache.                                     *)
(***************************************************************************)
EXTENDS Cache, TLC

MCSymmetry == Permutations(Procs)
=============================================================================

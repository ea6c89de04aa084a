------------------------------ MODULE MCRegistry ------------------------------
(***************************************************************************)
(* The constants of the runs of Registry: two goroutines and two groups;   *)
(* the file has both and chooses the one that is not the default at first. *)
(***************************************************************************)
EXTENDS Registry

MCGroups  == {"default", "orders"}
MCNames   == {"default", "orders", "none"}
MCBoth    == <<"default", "orders">>
=============================================================================

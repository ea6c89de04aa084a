------------------------------- MODULE MCPool -------------------------------
(***************************************************************************)
(* The constants of the run of Pool: a PostgreSQL group with a replica and *)
(* a master of weight -1, a SQLite group under dry run with two replicas   *)
(* whose weights are not set and 2, a group of two dialects, and one       *)
(* without a master.                                                       *)
(***************************************************************************)
EXTENDS Pool

Of(driver, role, weight) == [driver |-> driver, role |-> role, weight |-> weight, dryRun |-> FALSE]

MCGroups ==
    { << Of("pgsql", "master", -1), Of("pgsql", "slave", 1) >>,
      << [Of("sqlite", "master", 1) EXCEPT !.dryRun = TRUE],
         Of("sqlite", "slave", 0), Of("sqlite", "slave", 2) >>,
      << Of("pgsql", "slave", 1), Of("mysql", "master", 1) >>,
      << Of("pgsql", "slave", 1) >> }
=============================================================================

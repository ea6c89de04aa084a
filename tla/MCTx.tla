-------------------------------- MODULE MCTx --------------------------------
(***************************************************************************)
(* The constants of the runs of Tx: three dialects, one per combination of *)
(* RELEASE SAVEPOINT and same-name savepoints that the supported databases *)
(* have.  PostgreSQL also stands for SQLite and GaussDB, MySQL for         *)
(* MariaDB, TiDB and OceanBase.                                            *)
(***************************************************************************)
EXTENDS TxNested

MCDialects  == {"pgsql", "mysql", "dm"}
MCNoRelease == {"dm"}
MCReplacing == {"mysql", "dm"}
=============================================================================

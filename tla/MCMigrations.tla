---------------------------- MODULE MCMigrations ----------------------------
(* Instances of Migrations for TLC: three callers of Store.open. *)
EXTENDS Migrations

CONSTANTS o1, o2, o3
=============================================================================

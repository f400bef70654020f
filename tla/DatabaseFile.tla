--------------------------- MODULE DatabaseFile ----------------------------
(***************************************************************************)
(* The two parts of niyantra that change the database as a whole: the      *)
(* migrations to a newer schema, and backup and restore.                   *)
(***************************************************************************)
EXTENDS SchemaMigration, DatabaseRestore

\* Neither takes from the database what is in it: an upgrade skips no migration and
\* keeps the rows (module SchemaMigration), a restore replaces all or nothing.
DatabaseStays == UpgradeIsSound /\ RestoresHold
=============================================================================

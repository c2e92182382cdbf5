---------------------------- MODULE MCMigration ----------------------------
(* Instances of Migration small enough for TLC.                            *)
EXTENDS Migration
=============================================================================

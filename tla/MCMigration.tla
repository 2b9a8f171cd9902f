---------------------------- MODULE MCMigration ----------------------------
(***************************************************************************)
(* Two views, two aliases, a clock with room for two plans, and stops at   *)
(* any step of any command.                                                *)
(***************************************************************************)
EXTENDS Migration
=============================================================================

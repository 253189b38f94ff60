---------------------------- MODULE MCMigrations ----------------------------
(***************************************************************************)
(* Migrations has no constants: TLC checks every version, target and       *)
(* statement of the repository's four revisions.                           *)
(***************************************************************************)
EXTENDS Migrations
=============================================================================

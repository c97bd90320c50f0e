---------------------------- MODULE MCMigrations ----------------------------
(***************************************************************************)
(* Constants for model checking the migrations: an old and a new service   *)
(* and the operator's migrate command of the new release.                  *)
(***************************************************************************)
EXTENDS Migrations, TLC

CONSTANTS old, new, operator

MCReleases == old :> 1 @@ new :> 2 @@ operator :> 2
MCObjects == <<{"items", "ancillary"}, {"labels"}>>
=============================================================================

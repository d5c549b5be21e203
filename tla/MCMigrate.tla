----------------------------- MODULE MCMigrate -----------------------------
(* Migrate for TLC; no symmetry, as the run checks liveness. *)
EXTENDS Migrate

=============================================================================

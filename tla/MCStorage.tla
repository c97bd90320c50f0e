------------------------------ MODULE MCStorage ------------------------------
(***************************************************************************)
(* Constants for model checking artifacts, retention and backup.           *)
(***************************************************************************)
EXTENDS Backup, TLC

StorageSymmetry == Permutations(Jobs)
=============================================================================

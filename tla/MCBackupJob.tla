----------------------------- MODULE MCBackupJob -----------------------------
(* A few backups within a few seconds.  The jobs are alike, so that a run   *)
(* of invariants may take them as symmetric.                                *)
EXTENDS BackupJob, TLC

Symmetry == Permutations(Jobs)
=============================================================================

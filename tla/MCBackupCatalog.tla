-------------------------- MODULE MCBackupCatalog --------------------------
(* Instances of BackupCatalog for TLC: processes and ids are               *)
(* interchangeable.                                                        *)
EXTENDS BackupCatalog, TLC

BackupSymmetry == Permutations(Procs) \cup Permutations(Backups)

=============================================================================

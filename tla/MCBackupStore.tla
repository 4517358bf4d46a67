------------------------------- MODULE MCBackupStore -------------------------------
(* Small instances of BackupStore: three runs and a retention of one.                *)
EXTENDS BackupStore, TLC

Symmetry == Permutations(Runs) \cup Permutations(Timestamps)
=====================================================================================

------------------------------ MODULE MCBackupRestore ------------------------------
(* Small instances of BackupRestore: two backup runs, one of each engine, and one      *)
(* restore.                                                                            *)
EXTENDS BackupRestore

CONSTANTS r1, r2

Engines == [r \in Runs |-> IF r = r1 THEN "postgres" ELSE "mysql"]
OneEngine == [r \in Runs |-> "postgres"]
=====================================================================================

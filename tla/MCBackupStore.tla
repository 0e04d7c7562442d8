---------------------------- MODULE MCBackupStore ----------------------------
(***************************************************************************)
(* BackupStore on a small instance: four seconds, two kept backups.        *)
(***************************************************************************)
EXTENDS BackupStore
=============================================================================

------------------------------ MODULE MCBackup ------------------------------
(***************************************************************************)
(* Backup with two logs.                                                   *)
(***************************************************************************)
EXTENDS Backup, TLC

CONSTANTS l1, l2

Logs == Permutations(LOG)
=============================================================================

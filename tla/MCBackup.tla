------------------------------ MODULE MCBackup ------------------------------
(* Model checking of Backup.                                               *)
EXTENDS Backup
=============================================================================

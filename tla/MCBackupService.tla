--------------------------- MODULE MCBackupService ---------------------------
(* The backups of one device; see the cfgs.                                 *)
EXTENDS BackupService

MCLimits == {1, 2}
MCOff == {[ssh |-> TRUE, ftp |-> FALSE], [ssh |-> TRUE, ftp |-> TRUE]}
=============================================================================

-------------------------- MODULE MCSyslogReceiver --------------------------
(* A queue of three messages and batches of two; see the cfg.               *)
EXTENDS SyslogReceiver
=============================================================================

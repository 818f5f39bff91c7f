----------------------------- MODULE MCJobQueue -----------------------------
(* Three jobs, known or unknown types, up to two attempts each, and two     *)
(* process() activations: see the cfg.                                      *)
EXTENDS JobQueue
=============================================================================

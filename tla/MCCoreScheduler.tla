-------------------------- MODULE MCCoreScheduler --------------------------
(* Two tasks of different intervals and two ticks that may overlap.         *)
EXTENDS CoreScheduler

MCInterval == <<1, 2>>
=============================================================================

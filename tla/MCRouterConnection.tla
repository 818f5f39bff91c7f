------------------------- MODULE MCRouterConnection -------------------------
(* A login and a few commands on one connection; see the cfgs.              *)
EXTENDS RouterConnection
=============================================================================

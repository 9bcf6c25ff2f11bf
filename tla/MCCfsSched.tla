----------------------------- MODULE MCCfsSched -----------------------------
(* The node scheduler of the early versions on a small instance. *)
EXTENDS CfsSched
=============================================================================

---------------------------- MODULE MCFairShare ----------------------------
(* Instances of FairShare for TLC.                                         *)
EXTENDS FairShare, TLC

Symmetry == Permutations(Procs)
=============================================================================

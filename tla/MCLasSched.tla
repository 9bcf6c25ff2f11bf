----------------------------- MODULE MCLasSched -----------------------------
(* Instances of LasSched for TLC.                                          *)
EXTENDS LasSched, TLC

Symmetry == Permutations(Procs)
=============================================================================

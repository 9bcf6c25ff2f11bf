----------------------------- MODULE MCRegistry -----------------------------
(* Instance of Registry for TLC.                                           *)
EXTENDS Registry, TLC

CONSTANTS a, b, c

\* The second binary has the old format, and the third one kernel more than the
\* arrays hold.
Kernels == (a :> 1) @@ (b :> 1) @@ (c :> 2)

\* The threads are alike.
Symmetry == Permutations(Threads)
=============================================================================

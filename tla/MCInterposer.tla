---------------------------- MODULE MCInterposer ----------------------------
(* Instance of Interposer for TLC.                                         *)
EXTENDS Interposer, TLC

\* One function of every kind the actions tell apart.
OneOfEach ==
    {"cudaMalloc", "cudaFree", "cudaThreadExit", "cudaSetDevice", "cudaGetLastError",
     "cudaGetDevice", "cudaGetDeviceCount", "cudaPeekAtLastError", "cudaStreamCreate", "cudaMemset"}

\* A node elsewhere and the application's own; what follows a gap is not read.
Nodes2 == <<"far", "localhost", "", "localhost">>

\* Two devices on the first node, one on the second.
TwoAndOne == (0 :> 2) @@ (1 :> 1)

Symmetry == Permutations(Threads)
=============================================================================

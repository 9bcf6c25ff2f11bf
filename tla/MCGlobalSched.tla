--------------------------- MODULE MCGlobalSched ---------------------------
(* An instance of GlobalSched for TLC.                                     *)
EXTENDS GlobalSched, TLC

CONSTANTS
    Small,   \* the clients that fit the tables
    Large,   \* the client with more devices than the scheduler has counters
    Empty    \* the client that found no devices; it asks again

Clients == Small \cup {Large, Empty}
Alike == Permutations(Small)

\* gpu_weight is {1, 3, 1, 1.5}: its second and third entries.
TwoWeights == 0 :> 3 @@ 1 :> 1

KnownDevices == [t \in Clients |-> IF t = Empty THEN 0 ELSE IF t = Large THEN 4 ELSE 2]
LastLocal == [t \in Clients |-> IF t = Empty THEN 0 ELSE IF t = Large THEN 3 ELSE 1]
LargeApp == [t \in Clients |-> IF t = Large THEN 1 ELSE 0]
EmptyTwice == [t \in Clients |-> IF t = Empty THEN 2 ELSE 1]

\* "execution_time" and "async_memcpy" have no data and pick like "least" and
\* "weighted".
DifferentPolicies == {"RR", "least", "weighted", "local_pref", "utilization"}
=============================================================================

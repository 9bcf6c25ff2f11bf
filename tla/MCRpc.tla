------------------------------- MODULE MCRpc -------------------------------
(* Instances of Rpc for TLC.                                               *)
EXTENDS Rpc

AllMethods == SyncMethods \cup AsyncMethods

\* Every class of method once: with and without a request buffer, with and
\* without a response, with and without response data, and the handle.
ClassMethods ==
    {"Launch", "SetupArgument", "Malloc", "MemcpyH2D", "MemcpyD2H", "RegisterFatBinary"}

=============================================================================

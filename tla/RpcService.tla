----------------------------- MODULE RpcService -----------------------------
(***************************************************************************)
(* What remote execution promises an application thread, with no packets,  *)
(* streams or servers: calls are made one at a time; on every connection   *)
(* they are executed in the order they were made, at most once each and    *)
(* none skipped; a call may be lost together with everything after it on   *)
(* its connection; and a synchronous call reports OK only after it was     *)
(* executed with success.                                                  *)
(***************************************************************************)
EXTENDS Naturals, Sequences

CONSTANTS
    Conns,      \* connections
    Methods,    \* methods an application calls
    Confirmed   \* the methods whose OK is a promise that they succeeded

VARIABLES issued, executed, returned

vars == <<issued, executed, returned>>

Init ==
    /\ issued = [c \in Conns |-> <<>>]
    /\ executed = [c \in Conns |-> <<>>]
    /\ returned = [c \in Conns |-> <<>>]

\* The thread makes a call when its previous one has returned.
Issue(c, m) ==
    /\ \A d \in Conns : Len(returned[d]) = Len(issued[d])
    /\ issued' = [issued EXCEPT ![c] = Append(@, m)]
    /\ UNCHANGED <<executed, returned>>

\* The next call of a connection is executed.
Perform(c) ==
    LET k == Len(executed[c]) + 1 IN
    /\ k <= Len(issued[c])
    /\ \E r \in {"unknown", "success", "failure", "handle", "null"} :
         executed' = [executed EXCEPT ![c] =
                         Append(@, [n |-> k, m |-> issued[c][k], ret |-> r])]
    /\ UNCHANGED <<issued, returned>>

\* The outstanding call returns; its data may or may not have arrived.
Answer(c) ==
    LET k == Len(returned[c]) + 1 IN
    /\ k <= Len(issued[c])
    /\ \E v \in {"OK", "ERROR"}, d \in {0, 1} :
         /\ v = "OK" /\ issued[c][k] \in Confirmed =>
              k <= Len(executed[c]) /\ executed[c][k].ret = "success"
         /\ returned' = [returned EXCEPT ![c] =
                            Append(@, [m |-> issued[c][k], v |-> v, size |-> d])]
    /\ UNCHANGED <<issued, executed>>

Next ==
    \E c \in Conns : (\E m \in Methods : Issue(c, m)) \/ Perform(c) \/ Answer(c)

Spec == Init /\ [][Next]_vars

=============================================================================

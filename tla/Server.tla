------------------------------- MODULE Server -------------------------------
(***************************************************************************)
(* The connection server of a node in its versions.  backend.c and         *)
(* backend_MP.c fork twice for a connection, so that the process that      *)
(* accepts only ever waits for the short-lived middle one; backend_orig.c  *)
(* forks once and waits for nobody; backend_MT.c, backend_back.c (which    *)
(* accepts in a second thread of its process) and backend_14092012.c (from *)
(* which the global scheduler comes) start a thread.                       *)
(*                                                                         *)
(* What is modelled is who holds which descriptor: a client sees the end   *)
(* of its connection, and a port can be bound again, only when the last    *)
(* holder has closed or ended.                                             *)
(***************************************************************************)
EXTENDS Integers, FiniteSets

CONSTANTS
    Conns,          \* connections of clients
    MaxStarts,      \* bound: starts of the server
    MaxCalls,       \* bound: calls of a client
    NoConn

ASSUME ServerAssumption ==
    /\ IsFiniteSet(Conns) /\ NoConn \notin Conns
    /\ MaxStarts \in Nat \ {0} /\ MaxCalls \in Nat

Kinds == {"backend", "MP", "orig", "MT", "back", "14092012"}
Main == <<"main", NoConn>>
Middle(c) == <<"middle", c>>
Serv(c) == <<"serv", c>>
Processes == {Main} \cup {Middle(c) : c \in Conns} \cup {Serv(c) : c \in Conns}

VARIABLES
    kind,       \* which version of the server
    main,       \* where the accepting process is
    starts,     \* starts so far
    bound,      \* its listening socket is bound
    cur,        \* the connection in pConn, NoConn after a failed accept
    listen,     \* processes that hold the (bound) listening socket
    fds,        \* processes that hold the accepted socket of a connection
    client,     \* client side of a connection
    conn,       \* server side: in the backlog or accepted
    req,        \* a request waits on the connection
    calls,      \* calls answered
    middle,     \* the process between the two forks
    serv        \* what serves the connection

mainVars == <<kind, main, starts, bound, cur>>
srvVars == <<kind, main, starts, bound, cur, listen, fds, client, conn, req, calls, middle, serv>>

Forks == kind \in {"backend", "MP", "orig"}
Twice == kind \in {"backend", "MP"}

ServerTypeOK ==
    /\ kind \in Kinds
    /\ main \in {"down", "bind", "accept", "spawn", "close", "wait"}
    /\ starts \in 0..MaxStarts
    /\ bound \in BOOLEAN
    /\ cur \in Conns \cup {NoConn}
    /\ listen \subseteq Processes
    /\ fds \in [Conns -> SUBSET Processes]
    /\ client \in [Conns -> {"idle", "connected", "closed", "refused"}]
    /\ conn \in [Conns -> {"none", "backlog", "accepted"}]
    /\ req \in [Conns -> BOOLEAN]
    /\ calls \in [Conns -> 0..MaxCalls]
    /\ middle \in [Conns -> {"none", "runs", "zombie", "reaped"}]
    /\ serv \in [Conns -> {"none", "starts", "serves", "ended", "leaked"}]

ServerInit ==
    /\ kind \in Kinds
    /\ main = "down" /\ starts = 0 /\ bound = FALSE /\ cur = NoConn
    /\ listen = {} /\ fds = [c \in Conns |-> {}]
    /\ client = [c \in Conns |-> "idle"]
    /\ conn = [c \in Conns |-> "none"]
    /\ req = [c \in Conns |-> FALSE]
    /\ calls = [c \in Conns |-> 0]
    /\ middle = [c \in Conns |-> "none"]
    /\ serv = [c \in Conns |-> "none"]

----------------------------------------------------------------------------
(* The process that accepts *)

Start ==
    /\ main = "down" /\ starts < MaxStarts
    /\ main' = "bind" /\ starts' = starts + 1 /\ bound' = FALSE /\ cur' = NoConn
    /\ UNCHANGED <<kind, listen, fds, client, conn, req, calls, middle, serv>>

\* A port is taken while anyone holds a listening socket on it, SO_REUSEADDR
\* or not; another program may hold it too.  The result of conn_localbind is
\* ignored.
conn_localbind ==
    /\ main = "bind"
    /\ main' = "accept"
    /\ bound' \in {FALSE, listen = {}}
    /\ listen' = IF bound' THEN {Main} ELSE listen
    /\ UNCHANGED <<kind, starts, cur, fds, client, conn, req, calls, middle, serv>>

conn_accept(c) ==
    /\ main = "accept" /\ bound /\ conn[c] = "backlog"
    /\ conn' = [conn EXCEPT ![c] = "accepted"]
    /\ fds' = [fds EXCEPT ![c] = {Main}]
    /\ cur' = c /\ main' = "spawn"
    /\ UNCHANGED <<kind, starts, bound, listen, client, req, calls, middle, serv>>

\* Without a bound socket accept fails at once; the loop goes on all the same
\* and what it starts finds the socket -1 and ends.
AcceptFails ==
    /\ main = "accept" /\ ~bound
    /\ cur' = NoConn /\ main' = "spawn"
    /\ UNCHANGED <<kind, starts, bound, listen, fds, client, conn, req, calls, middle, serv>>

SpawnNothing ==
    /\ main = "spawn" /\ cur = NoConn /\ kind # "14092012"
    /\ main' = IF Forks THEN "close" ELSE "accept"
    /\ UNCHANGED <<kind, starts, bound, cur, listen, fds, client, conn, req, calls, middle, serv>>

\* A new process inherits every descriptor of the one that forks it.
Inherits(p, q) ==
    /\ listen' = IF p \in listen THEN listen \cup {q} ELSE listen
    /\ fds' = [c \in Conns |-> IF p \in fds[c] THEN fds[c] \cup {q} ELSE fds[c]]

Fork ==
    /\ main = "spawn" /\ cur # NoConn /\ Forks
    /\ main' = "close"
    /\ IF Twice
       THEN middle' = [middle EXCEPT ![cur] = "runs"] /\ Inherits(Main, Middle(cur)) /\ UNCHANGED serv
       ELSE serv' = [serv EXCEPT ![cur] = "starts"] /\ Inherits(Main, Serv(cur)) /\ UNCHANGED middle
    /\ UNCHANGED <<kind, starts, bound, cur, client, conn, req, calls>>

\* fork returns -1, which the parent takes for a child.
ForkFails ==
    /\ main = "spawn" /\ cur # NoConn /\ Forks
    /\ main' = "close"
    /\ serv' = [serv EXCEPT ![cur] = "ended"]
    /\ UNCHANGED <<kind, starts, bound, cur, listen, fds, client, conn, req, calls, middle>>

\* handle_req runs in a thread: the process itself keeps the connection.
ThreadCreate ==
    /\ main = "spawn" /\ cur # NoConn /\ ~Forks
    /\ main' = "accept"
    /\ serv' = [serv EXCEPT ![cur] = "starts"]
    /\ UNCHANGED <<kind, starts, bound, cur, listen, fds, client, conn, req, calls, middle>>

\* The result of pthread_create is ignored and nobody is left to close pConn.
ThreadCreateFails ==
    /\ main = "spawn" /\ cur # NoConn /\ ~Forks
    /\ main' = "accept"
    /\ serv' = [serv EXCEPT ![cur] = "leaked"]
    /\ UNCHANGED <<kind, starts, bound, cur, listen, fds, client, conn, req, calls, middle>>

\* The parent's conn_close(pConn)
AfterClose == IF kind = "orig" THEN "accept" ELSE "wait"
CloseForgets ==
    /\ main = "close"
    /\ main' = AfterClose
    /\ UNCHANGED <<kind, starts, bound, cur, listen, fds, client, conn, req, calls, middle, serv>>
Close ==
    /\ main = "close"
    /\ main' = AfterClose
    /\ fds' = [c \in Conns |-> fds[c] \ {Main}]
    /\ UNCHANGED <<kind, starts, bound, cur, listen, client, conn, req, calls, middle, serv>>

\* waitpid(childpid): until the middle process has ended; with no such
\* process (fork failed) it returns at once.
WaitForServ ==
    /\ main = "wait"
    /\ cur # NoConn => middle[cur] # "runs" /\ serv[cur] = "ended"
    /\ middle' = [c \in Conns |-> IF middle[c] = "zombie" THEN "reaped" ELSE middle[c]]
    /\ main' = "accept"
    /\ UNCHANGED <<kind, starts, bound, cur, listen, fds, client, conn, req, calls, serv>>
Wait ==
    /\ main = "wait"
    /\ cur # NoConn => middle[cur] # "runs"
    /\ middle' = [c \in Conns |-> IF middle[c] = "zombie" THEN "reaped" ELSE middle[c]]
    /\ main' = "accept"
    /\ UNCHANGED <<kind, starts, bound, cur, listen, fds, client, conn, req, calls, serv>>

\* The accepting process ends.  Threads end with it, processes do not; what it
\* leaves unreaped goes to init.
MainEnds ==
    /\ main # "down"
    /\ main' = "down" /\ bound' = FALSE /\ cur' = NoConn
    /\ listen' = listen \ {Main}
    /\ fds' = [c \in Conns |-> fds[c] \ {Main}]
    /\ middle' = [c \in Conns |-> IF middle[c] = "zombie" THEN "reaped" ELSE middle[c]]
    /\ serv' = [c \in Conns |->
                  IF conn[c] = "accepted" /\ fds[c] \subseteq {Main} THEN "ended" ELSE serv[c]]
    /\ UNCHANGED <<kind, starts, client, conn, req, calls>>

\* It is killed, or cannot allocate the next conn_t and returns.
Kill == MainEnds

\* The thread that backend_14092012.c starts on the socket -1 has no device
\* either: see UnassignedEnds.
NothingEnds ==
    /\ main = "spawn" /\ cur = NoConn /\ kind = "14092012"
    /\ MainEnds

----------------------------------------------------------------------------
(* The processes of one connection *)

Leaves(p) ==
    /\ listen' = listen \ {p}
    /\ fds' = [c \in Conns |-> fds[c] \ {p}]

\* The middle process: second fork, then exit(0) whatever fork returned.
SecondFork(c) ==
    /\ middle[c] = "runs" /\ serv[c] = "none"
    /\ serv' = [serv EXCEPT ![c] = "starts"]
    /\ Inherits(Middle(c), Serv(c))
    /\ UNCHANGED <<mainVars, client, conn, req, calls, middle>>

SecondForkFails(c) ==
    /\ middle[c] = "runs" /\ serv[c] = "none"
    /\ serv' = [serv EXCEPT ![c] = "ended"]
    /\ UNCHANGED <<mainVars, listen, fds, client, conn, req, calls, middle>>

\* If the accepting process is gone, init reaps the middle one.
MiddleExits(c) ==
    /\ middle[c] = "runs" /\ serv[c] # "none"
    /\ middle' = [middle EXCEPT ![c] = IF main # "down" /\ cur = c THEN "zombie" ELSE "reaped"]
    /\ Leaves(Middle(c))
    /\ UNCHANGED <<mainVars, client, conn, req, calls, serv>>

\* Connection-related structures are set up; backend.c first attaches the
\* shared table and exits without it.
ServBegins(c) ==
    /\ serv[c] = "starts"
    /\ serv' = [serv EXCEPT ![c] = "serves"]
    /\ UNCHANGED <<mainVars, listen, fds, client, conn, req, calls, middle>>

\* One round of the request loop
ServeRound(k, c) ==
    /\ kind = k /\ serv[c] = "serves" /\ req[c]
    /\ req' = [req EXCEPT ![c] = FALSE]
    /\ calls' = [calls EXCEPT ![c] = @ + 1]
    /\ UNCHANGED <<mainVars, listen, fds, client, conn, middle, serv>>
ServeBackend(c) == ServeRound("backend", c)
ServeMP(c) == ServeRound("MP", c)
ServeOrig(c) == ServeRound("orig", c)
ServeMT(c) == ServeRound("MT", c)
ServeBack(c) == ServeRound("back", c)

\* backend_14092012.c counts the threads of a device: a request (rcudaGetDevice)
\* may assign a device, and at the end of the connection the count goes down.
ServeCounting(c) == ServeRound("14092012", c)

\* dec_thread_count_per_device follows the pointer DEVICE_ASSIGNED of the
\* thread, which is null if no request has assigned a device: the whole
\* server dies, and every connection with it.
UnassignedEnds(c) ==
    /\ kind = "14092012" /\ serv[c] = "serves" /\ (client[c] = "closed" \/ req[c])
    /\ MainEnds

\* The loop breaks (end of the connection, failed I/O, no memory for the data
\* of a request), both sockets are closed and the process or thread ends.
ServCloses(c) ==
    /\ serv' = [serv EXCEPT ![c] = "ended"]
    /\ IF Forks THEN Leaves(Serv(c))
       ELSE fds' = [fds EXCEPT ![c] = {}] /\ UNCHANGED listen

ServEnds(c) ==
    /\ serv[c] = "serves" /\ (client[c] = "closed" \/ req[c])
    /\ kind = "14092012" => calls[c] > 0
    /\ ServCloses(c)
    /\ UNCHANGED <<mainVars, client, conn, req, calls, middle>>

\* A call crashes the serving process: its descriptors are closed by the
\* kernel.  A crash of a thread takes the whole server with it (Kill).
ServDies(c) ==
    /\ serv[c] \in {"starts", "serves"} /\ Forks
    /\ ServCloses(c)
    /\ UNCHANGED <<mainVars, client, conn, req, calls, middle>>

----------------------------------------------------------------------------
(* Clients *)

\* conn_connect: accepted by the kernel as soon as somebody listens.
Connect(c) ==
    /\ client[c] = "idle"
    /\ IF listen = {}
       THEN client' = [client EXCEPT ![c] = "refused"] /\ UNCHANGED conn
       ELSE /\ client' = [client EXCEPT ![c] = "connected"]
            /\ conn' = [conn EXCEPT ![c] = "backlog"]
    /\ UNCHANGED <<mainVars, listen, fds, req, calls, middle, serv>>

\* The last holder of the listening socket has gone: the backlog is reset.
Reset(c) ==
    /\ listen = {} /\ conn[c] = "backlog"
    /\ conn' = [conn EXCEPT ![c] = "none"]
    /\ client' = [client EXCEPT ![c] = IF @ = "connected" THEN "refused" ELSE @]
    /\ UNCHANGED <<mainVars, listen, fds, req, calls, middle, serv>>

Send(c) ==
    /\ client[c] = "connected" /\ ~req[c] /\ calls[c] < MaxCalls
    /\ req' = [req EXCEPT ![c] = TRUE]
    /\ UNCHANGED <<mainVars, listen, fds, client, conn, calls, middle, serv>>

\* The application ends, or sees the end of the connection.
ClientCloses(c) ==
    /\ client[c] = "connected"
    /\ client' = [client EXCEPT ![c] = "closed"]
    /\ UNCHANGED <<mainVars, listen, fds, conn, req, calls, middle, serv>>

----------------------------------------------------------------------------
Accepting ==
    \/ conn_localbind \/ (\E c \in Conns : conn_accept(c)) \/ AcceptFails
    \/ SpawnNothing \/ NothingEnds \/ Fork \/ ForkFails \/ ThreadCreate \/ ThreadCreateFails
    \/ Close \/ Wait
Between(c) == SecondFork(c) \/ SecondForkFails(c) \/ MiddleExits(c)
Rounds(c) ==
    \/ ServeBackend(c) \/ ServeMP(c) \/ ServeOrig(c)
    \/ ServeMT(c) \/ ServeBack(c) \/ ServeCounting(c)
Serving(c) == ServBegins(c) \/ Rounds(c) \/ ServEnds(c) \/ UnassignedEnds(c)
Clients(c) == Connect(c) \/ Send(c) \/ ClientCloses(c)

ServerNext ==
    \/ Start \/ Kill \/ Accepting
    \/ \E c \in Conns : Between(c) \/ Serving(c) \/ ServDies(c) \/ Reset(c) \/ Clients(c)

ServerSpec == ServerInit /\ [][ServerNext]_srvVars

\* Processes run and the kernel resets orphaned connections; clients may do
\* nothing for ever, and nobody has to kill or to restart the server.
ServerFairness ==
    /\ WF_srvVars(Accepting)
    /\ \A c \in Conns : WF_srvVars(Between(c)) /\ WF_srvVars(Serving(c)) /\ WF_srvVars(Reset(c))

ServerFairSpec == ServerSpec /\ ServerFairness

----------------------------------------------------------------------------
(* Properties *)

\* A waiting client is accepted although other clients keep their connections
\* open for ever; the exception is a server that was killed: the processes it
\* forked keep the port, so clients wait on it and a new server cannot bind.
ClientAccepted ==
    \A c \in Conns : conn[c] = "backlog" ~> (conn[c] # "backlog" \/ ~bound)

\* When the process or thread that served a connection has ended, or the fork
\* that should have started it failed, every copy of the descriptor gets
\* closed, the one of the accepting process too, so that the client sees the
\* end.  Two clients see none and wait for an answer that nobody can give: one
\* whose thread could not be created ("leaked"), and one in the backlog of a
\* listening socket that has outlived its server (see ClientAccepted).
EndIsSeen ==
    \A c \in Conns : serv[c] = "ended" ~> fds[c] = {}

=============================================================================

-------------------------------- MODULE Rpc --------------------------------
(***************************************************************************)
(* The remote-execution protocol of kidron: one application thread that    *)
(* interposes CUDA calls (l_do_cuda_rpc and the nvback..._rpc wrappers of   *)
(* remote_api_wrapper.c) and, for every connection it opens, one server     *)
(* process that executes the calls (the request loop of backend.c; the     *)
(* loop of global_sched.c has the same control).                           *)
(*                                                                         *)
(* A connection is a pair of in-order streams.  A request is a header, a   *)
(* packet and, for some methods, a data buffer; a response has the same    *)
(* three parts.  Nothing on the wire says which request a response answers *)
(* or where a message starts: both ends must agree on the framing and on   *)
(* which methods are answered at all.  The fields n and m of a message are *)
(* tags of the model: the position of the call among the calls of its      *)
(* connection, and its method.                                             *)
(***************************************************************************)
EXTENDS Naturals, Sequences

CONSTANTS
    Conns,      \* the entries of the thread's connection array that are used
    Methods,    \* the methods the application calls
    MaxCalls,   \* bound: number of calls on one connection
    BufCap      \* bound: messages a stream holds before send() blocks

\* The methods of include/method_id.h that the interposer sends, with the
\* directions of the symbol copies told apart.
SyncMethods ==
    {"RegisterFatBinary", "RegisterFunction", "RegisterVar", "Malloc",
     "MemcpyH2D", "MemcpyD2H", "MemcpyD2D",
     "MemcpyToSymbolH2D", "MemcpyToSymbolD2D",
     "MemcpyFromSymbolD2H", "MemcpyFromSymbolD2D",
     "GetDeviceCount", "GetDeviceProperties", "GetDevice", "ThreadSynchronize"}

AsyncMethods ==
    {"Free", "SetupArgument", "ConfigureCall", "Launch", "SetDevice",
     "ThreadExit", "UnregisterFatBinary"}

ASSUME RpcAssumption ==
    /\ Conns # {}
    /\ Methods # {}
    /\ Methods \subseteq SyncMethods \cup AsyncMethods
    /\ MaxCalls \in Nat
    /\ BufCap \in Nat \ {0}

\* strm_expects_response: evaluated by both ends, each on its own copy of the
\* last packet.
ExpectsResponse(m) == m \in SyncMethods

\* Sizes of buffers tell only empty (0) from not empty (1).
Sizes == {0, 1}

\* reqbuf_size: the wrapper passes a request buffer to l_do_cuda_rpc.
ReqSize(m) ==
    IF m \in {"SetupArgument", "MemcpyH2D", "MemcpyToSymbolH2D",
              "RegisterFatBinary", "RegisterFunction", "RegisterVar"}
    THEN 1 ELSE 0

\* Methods whose wrapper passes a response buffer to l_do_cuda_rpc.
RspBuffer(m) ==
    m \in {"GetDeviceProperties", "MemcpyD2H", "MemcpyFromSymbolD2H"}

\* ret_ex_val, the union of a packet that holds the error or the handle.
\* "unknown" is the cudaErrorUnknown every packet is created with.
Rets == {"unknown", "success", "failure", "handle", "null"}

\* What the handler of each method can leave in ret_ex_val (build with PAGER):
\* the result of the CUDA library ("success" or "failure"), a value of its own,
\* or, on an early return, what was there.
GetDeviceCountRets == {"success", "failure"}
GetDevicePropertiesRets == {"success", "failure"}
GetDeviceRets == {"success"}
SetDeviceRets == {"success", "failure"}
MallocRets == {"success", "unknown"}      \* the semaphore cannot be had
FreeRets == {"success", "unknown"}        \* the pointer is not found
SetupArgumentRets == {"success"}
ConfigureCallRets == {"success"}
LaunchRets == {"success", "failure"}      \* the kernel is not found
MemcpyRets == {"success"}
ThreadSynchronizeRets == {"success", "failure"}
ThreadExitRets == {"success", "failure"}
MemcpyToSymbolRets == {"success", "failure"}
MemcpyFromSymbolRets == {"success", "failure"}
NotYetImplemented == {"failure"}          \* symbol copies within the device
RegisterFatBinaryRets == {"handle", "null"}
RegisterFunctionRets == {"success"}
RegisterVarRets == {"success"}
UnregisterFatBinaryRets == {"success"}

HandlerRets(m) == Rets \cap [
    GetDeviceCount |-> GetDeviceCountRets,
    GetDeviceProperties |-> GetDevicePropertiesRets,
    GetDevice |-> GetDeviceRets,
    SetDevice |-> SetDeviceRets,
    Malloc |-> MallocRets,
    Free |-> FreeRets,
    SetupArgument |-> SetupArgumentRets,
    ConfigureCall |-> ConfigureCallRets,
    Launch |-> LaunchRets,
    MemcpyH2D |-> MemcpyRets,
    MemcpyD2H |-> MemcpyRets,
    MemcpyD2D |-> MemcpyRets,
    ThreadSynchronize |-> ThreadSynchronizeRets,
    ThreadExit |-> ThreadExitRets,
    MemcpyToSymbolH2D |-> MemcpyToSymbolRets,
    MemcpyToSymbolD2D |-> NotYetImplemented,
    MemcpyFromSymbolD2H |-> MemcpyFromSymbolRets,
    MemcpyFromSymbolD2D |-> NotYetImplemented,
    RegisterFatBinary |-> RegisterFatBinaryRets,
    RegisterFunction |-> RegisterFunctionRets,
    RegisterVar |-> RegisterVarRets,
    UnregisterFatBinary |-> UnregisterFatBinaryRets][m]

\* ret_ex_val, response_data_size, and the buffer pRspBuffer really holds.  A
\* handler that cannot allocate it returns before it sets ret_ex_val.
Outcomes(m) ==
    IF RspBuffer(m)
    THEN [ret : HandlerRets(m), size : {1}, buf : {1}]
           \cup {[ret |-> "unknown", size |-> 1, buf |-> 0]}
    ELSE [ret : HandlerRets(m), size : {0}, buf : {0}]

NoOutcome == [ret |-> "unknown", size |-> 0, buf |-> 0]

\* Wrong variant of Verdict: only a reported failure is an error.
VerdictUnlessFailure(m, r) == IF r # "failure" THEN "OK" ELSE "ERROR"

\* What the wrapper of method m returns when l_do_cuda_rpc is over and the
\* packet holds r: the return code of l_do_cuda_rpc itself is ignored.
Verdict(m, r) ==
    IF \/ ~ ExpectsResponse(m)
       \/ m = "RegisterFatBinary" /\ r # "null"
       \/ m # "RegisterFatBinary" /\ r = "success"
    THEN "OK" ELSE "ERROR"

VARIABLES
    cpc,        \* where the application thread is in l_do_cuda_rpc
    conn,       \* the connection of its current (or last) call
    meth,       \* the method of that call
    ret,        \* ret_ex_val of its packet
    rsp,        \* data_size in the response header it received
    link,       \* "none" until connected (valid = 0), "open", then "cut"
    up, down,   \* the streams to and from the server
    spc,        \* where the server of a connection is in its loop
    sn, sm,     \* the packet it received
    sdata,      \* data_size in the header it received
    sres,       \* the outcome of the handler
    issued,     \* the methods of the calls begun on a connection, in order
    executed,   \* the calls executed for a connection, in order
    returned    \* the calls that returned to the application, in order

client == <<cpc, conn, meth, ret, rsp>>
server == <<spc, sn, sm, sdata, sres>>
vars == <<client, link, up, down, server, issued, executed, returned>>

Parts == {"hdr", "pkt", "buf"}
Request == [part : Parts, n : Nat, m : Methods, size : Sizes]
Response == [part : Parts, n : Nat, ret : Rets, size : Sizes]
Outcome == [ret : Rets, size : Sizes, buf : Sizes]

ExecRec == [n : Nat, m : Methods, ret : Rets]
ReturnRec == [m : Methods, v : {"OK", "ERROR"}, size : Sizes]

Putting == {"put_hdr", "put_pkt", "put_buf"}
Getting == {"get_hdr", "get_pkt", "get_buf"}

TypeOK ==
    /\ cpc \in {"idle", "exited"} \cup Putting \cup Getting
    /\ conn \in Conns
    /\ meth \in Methods
    /\ ret \in Rets
    /\ rsp \in Sizes
    /\ link \in [Conns -> {"none", "open", "cut"}]
    /\ up \in [Conns -> Seq(Request)]
    /\ down \in [Conns -> Seq(Response)]
    /\ spc \in [Conns -> {"none", "execute", "closed"} \cup Putting \cup Getting]
    /\ sn \in [Conns -> Nat]
    /\ sm \in [Conns -> Methods]
    /\ sdata \in [Conns -> Sizes]
    /\ sres \in [Conns -> Outcome]
    /\ issued \in [Conns -> Seq(Methods)]
    /\ executed \in [Conns -> Seq(ExecRec)]
    /\ returned \in [Conns -> Seq(ReturnRec)]

Init ==
    /\ cpc = "idle"
    /\ conn = CHOOSE c \in Conns : TRUE
    /\ meth = CHOOSE m \in Methods : TRUE
    /\ ret = "unknown"
    /\ rsp = 0
    /\ link = [c \in Conns |-> "none"]
    /\ up = [c \in Conns |-> <<>>]
    /\ down = [c \in Conns |-> <<>>]
    /\ spc = [c \in Conns |-> "none"]
    /\ sn = [c \in Conns |-> 0]
    /\ sm = [c \in Conns |-> meth]
    /\ sdata = [c \in Conns |-> 0]
    /\ sres = [c \in Conns |-> NoOutcome]
    /\ issued = [c \in Conns |-> <<>>]
    /\ executed = [c \in Conns |-> <<>>]
    /\ returned = [c \in Conns |-> <<>>]

-----------------------------------------------------------------------------
(* send() on a socket blocks while the stream is full.  On a cut connection *)
(* it may still accept the data, which is then lost.                        *)

CanSend(q, c) == link[c] = "cut" \/ Len(q[c]) < BufCap

Deliver(q, c, msg) ==
    IF link[c] = "open" THEN [q EXCEPT ![c] = Append(@, msg)] ELSE q

-----------------------------------------------------------------------------
(* The application thread.                                                  *)

\* The end of the process, whatever the reason: the kernel closes its sockets.
Quit ==
    /\ cpc' = "exited"
    /\ link' = [c \in Conns |-> IF link[c] = "open" THEN "cut" ELSE link[c]]
    /\ UNCHANGED <<conn, meth, ret, rsp, up, down, server, issued, executed, returned>>

\* l_do_cuda_rpc returns and the wrapper decides what the caller sees.
Return(r, got) ==
    /\ cpc' = "idle"
    /\ returned' = [returned EXCEPT ![conn] =
                       Append(@, [m |-> meth, v |-> Verdict(meth, r), size |-> got])]

\* A wrapper is called with a fresh packet; the connection is made by the
\* first call that uses it and is never made again.
Call(c, m) ==
    /\ cpc = "idle"
    /\ Len(issued[c]) < MaxCalls
    /\ cpc' = "put_hdr"
    /\ conn' = c
    /\ meth' = m
    /\ ret' = "unknown"
    /\ link' = IF link[c] = "none" THEN [link EXCEPT ![c] = "open"] ELSE link
    /\ issued' = [issued EXCEPT ![c] = Append(@, m)]
    /\ UNCHANGED <<rsp, up, down, server, executed, returned>>

\* conn_connect fails: exit(ERROR).
ConnectFails(c) ==
    /\ cpc = "idle"
    /\ link[c] = "none"
    /\ Quit

\* The application ends between two calls.
Exit ==
    /\ cpc = "idle"
    /\ Quit

PutHdr ==
    /\ cpc = "put_hdr"
    /\ CanSend(up, conn)
    /\ up' = Deliver(up, conn, [part |-> "hdr", n |-> Len(issued[conn]), m |-> meth,
                                size |-> ReqSize(meth)])
    /\ cpc' = "put_pkt"
    /\ UNCHANGED <<conn, meth, ret, rsp, link, down, server, issued, executed, returned>>

\* Wrong variant of Sent: no method waits for its response.
SentNoWait == Return("success", 0)

\* What follows the last part of a request.
Sent ==
    IF ExpectsResponse(meth)
    THEN cpc' = "get_hdr" /\ UNCHANGED returned
    ELSE Return(ret, 0)

PutPkt ==
    /\ cpc = "put_pkt"
    /\ CanSend(up, conn)
    /\ up' = Deliver(up, conn, [part |-> "pkt", n |-> Len(issued[conn]), m |-> meth,
                                size |-> 0])
    /\ IF ReqSize(meth) > 0 THEN cpc' = "put_buf" /\ UNCHANGED returned ELSE Sent
    /\ UNCHANGED <<conn, meth, ret, rsp, link, down, server, issued, executed>>

PutBuf ==
    /\ cpc = "put_buf"
    /\ CanSend(up, conn)
    /\ up' = Deliver(up, conn, [part |-> "buf", n |-> Len(issued[conn]), m |-> meth,
                                size |-> 0])
    /\ Sent
    /\ UNCHANGED <<conn, meth, ret, rsp, link, down, server, issued, executed>>

\* put() fails on a cut connection: l_do_cuda_rpc returns ERROR, and the
\* connection stays valid.
PutFails ==
    /\ cpc \in Putting
    /\ link[conn] = "cut"
    /\ Return(ret, 0)
    /\ UNCHANGED <<conn, meth, ret, rsp, link, up, down, server, issued, executed>>

\* send() is called without MSG_NOSIGNAL and SIGPIPE is not handled.
PutKills ==
    /\ cpc \in Putting
    /\ link[conn] = "cut"
    /\ Quit

GetHdr ==
    /\ cpc = "get_hdr"
    /\ down[conn] # <<>>
    /\ rsp' = Head(down[conn]).size
    /\ down' = [down EXCEPT ![conn] = Tail(@)]
    /\ cpc' = "get_pkt"
    /\ UNCHANGED <<conn, meth, ret, link, up, server, issued, executed, returned>>

GetPkt ==
    /\ cpc = "get_pkt"
    /\ down[conn] # <<>>
    /\ ret' = Head(down[conn]).ret
    /\ down' = [down EXCEPT ![conn] = Tail(@)]
    /\ IF rsp > 0 THEN cpc' = "get_buf" /\ UNCHANGED returned ELSE Return(ret', 0)
    /\ UNCHANGED <<conn, meth, rsp, link, up, server, issued, executed>>

GetBuf ==
    /\ cpc = "get_buf"
    /\ down[conn] # <<>>
    /\ down' = [down EXCEPT ![conn] = Tail(@)]
    /\ Return(ret, 1)
    /\ UNCHANGED <<conn, meth, ret, rsp, link, up, server, issued, executed>>

\* Wrong variant of GetFails: recv() returning 0 is taken for "try again".
GetRetries ==
    /\ cpc \in Getting
    /\ link[conn] = "cut"
    /\ down[conn] = <<>>
    /\ UNCHANGED vars

\* get() meets the end of the stream or an error.
GetFails ==
    /\ cpc \in Getting
    /\ link[conn] = "cut"
    /\ down[conn] = <<>>
    /\ Return(ret, 0)
    /\ UNCHANGED <<conn, meth, ret, rsp, link, up, down, server, issued, executed>>

ClientStep ==
    \/ PutHdr \/ PutPkt \/ PutBuf \/ PutFails \/ PutKills
    \/ GetHdr \/ GetPkt \/ GetBuf \/ GetFails

-----------------------------------------------------------------------------
(* The server of connection c.                                              *)

Accept(c) ==
    /\ link[c] # "none"
    /\ spc[c] = "none"
    /\ spc' = [spc EXCEPT ![c] = "get_hdr"]
    /\ UNCHANGED <<client, link, up, down, sn, sm, sdata, sres, issued, executed, returned>>

\* The loop is left, or the process dies: its socket is closed, and what the
\* application still sends is discarded.
Teardown(c) ==
    /\ spc' = [spc EXCEPT ![c] = "closed"]
    /\ link' = [link EXCEPT ![c] = "cut"]
    /\ up' = [up EXCEPT ![c] = <<>>]
    /\ UNCHANGED <<client, down, sn, sm, sdata, sres, issued, executed, returned>>

SrvGetHdr(c) ==
    /\ spc[c] = "get_hdr"
    /\ up[c] # <<>>
    /\ sdata' = [sdata EXCEPT ![c] = Head(up[c]).size]
    /\ up' = [up EXCEPT ![c] = Tail(@)]
    /\ spc' = [spc EXCEPT ![c] = "get_pkt"]
    /\ UNCHANGED <<client, link, down, sn, sm, sres, issued, executed, returned>>

\* Wrong variant of SrvGetPkt: every packet is followed by a buffer.
SrvGetPktAlwaysBuf(c) ==
    /\ spc[c] = "get_pkt"
    /\ up[c] # <<>>
    /\ sn' = [sn EXCEPT ![c] = Head(up[c]).n]
    /\ sm' = [sm EXCEPT ![c] = Head(up[c]).m]
    /\ up' = [up EXCEPT ![c] = Tail(@)]
    /\ spc' = [spc EXCEPT ![c] = "get_buf"]
    /\ UNCHANGED <<client, link, down, sdata, sres, issued, executed, returned>>

SrvGetPkt(c) ==
    /\ spc[c] = "get_pkt"
    /\ up[c] # <<>>
    /\ sn' = [sn EXCEPT ![c] = Head(up[c]).n]
    /\ sm' = [sm EXCEPT ![c] = Head(up[c]).m]
    /\ up' = [up EXCEPT ![c] = Tail(@)]
    /\ spc' = [spc EXCEPT ![c] = IF sdata[c] > 0 THEN "get_buf" ELSE "execute"]
    /\ UNCHANGED <<client, link, down, sdata, sres, issued, executed, returned>>

SrvGetBuf(c) ==
    /\ spc[c] = "get_buf"
    /\ up[c] # <<>>
    /\ up' = [up EXCEPT ![c] = Tail(@)]
    /\ spc' = [spc EXCEPT ![c] = "execute"]
    /\ UNCHANGED <<client, link, down, sn, sm, sdata, sres, issued, executed, returned>>

\* Wrong variants of Execute: every method is answered; a failed call is
\* tried again.
ExecuteAnswersAll(c) ==
    /\ spc[c] = "execute"
    /\ \E o \in Outcomes(sm[c]) :
         /\ sres' = [sres EXCEPT ![c] = o]
         /\ executed' = [executed EXCEPT ![c] =
                            Append(@, [n |-> sn[c], m |-> sm[c], ret |-> o.ret])]
    /\ spc' = [spc EXCEPT ![c] = "put_hdr"]
    /\ UNCHANGED <<client, link, up, down, sn, sm, sdata, issued, returned>>

ExecuteRetries(c) ==
    /\ spc[c] = "execute"
    /\ \E o \in Outcomes(sm[c]) :
         /\ sres' = [sres EXCEPT ![c] = o]
         /\ executed' = [executed EXCEPT ![c] =
                            Append(@, [n |-> sn[c], m |-> sm[c], ret |-> o.ret])]
         /\ spc' = [spc EXCEPT ![c] = IF o.ret = "failure" THEN "execute"
                                      ELSE IF ExpectsResponse(sm[c]) THEN "put_hdr"
                                      ELSE "get_hdr"]
    /\ Len(executed[c]) < MaxCalls
    /\ UNCHANGED <<client, link, up, down, sn, sm, sdata, issued, returned>>

\* A handler returns.  It may never do so: SetDevice waits for a scheduler and
\* Launch for the pager, over pipes nobody may be reading; the loop that sets
\* up the arguments of a kernel does not advance; Malloc and Launch wait for a
\* semaphore; and any call of the CUDA library waits for the device.
Execute(c) ==
    /\ spc[c] = "execute"
    /\ \E o \in Outcomes(sm[c]) :
         /\ sres' = [sres EXCEPT ![c] = o]
         /\ executed' = [executed EXCEPT ![c] =
                            Append(@, [n |-> sn[c], m |-> sm[c], ret |-> o.ret])]
    /\ spc' = [spc EXCEPT ![c] = IF ExpectsResponse(sm[c]) THEN "put_hdr" ELSE "get_hdr"]
    /\ UNCHANGED <<client, link, up, down, sn, sm, sdata, issued, returned>>

\* Wrong variant of SrvPutHdr: the header of the request is sent back with
\* its data_size.
SrvPutHdrEcho(c) ==
    /\ spc[c] = "put_hdr"
    /\ CanSend(down, c)
    /\ down' = Deliver(down, c, [part |-> "hdr", n |-> sn[c], ret |-> "unknown",
                                 size |-> IF sdata[c] > 0 THEN 1 ELSE sres[c].size])
    /\ spc' = [spc EXCEPT ![c] = "put_pkt"]
    /\ UNCHANGED <<client, link, up, sn, sm, sdata, sres, issued, executed, returned>>

SrvPutHdr(c) ==
    /\ spc[c] = "put_hdr"
    /\ CanSend(down, c)
    /\ down' = Deliver(down, c, [part |-> "hdr", n |-> sn[c], ret |-> "unknown",
                                 size |-> sres[c].size])
    /\ spc' = [spc EXCEPT ![c] = "put_pkt"]
    /\ UNCHANGED <<client, link, up, sn, sm, sdata, sres, issued, executed, returned>>

SrvPutPkt(c) ==
    /\ spc[c] = "put_pkt"
    /\ CanSend(down, c)
    /\ down' = Deliver(down, c, [part |-> "pkt", n |-> sn[c], ret |-> sres[c].ret,
                                 size |-> 0])
    /\ spc' = [spc EXCEPT ![c] = IF sres[c].size > 0 THEN "put_buf" ELSE "get_hdr"]
    /\ UNCHANGED <<client, link, up, sn, sm, sdata, sres, issued, executed, returned>>

SrvPutBuf(c) ==
    /\ spc[c] = "put_buf"
    /\ sres[c].buf > 0
    /\ CanSend(down, c)
    /\ down' = Deliver(down, c, [part |-> "buf", n |-> sn[c], ret |-> "unknown",
                                 size |-> 0])
    /\ spc' = [spc EXCEPT ![c] = "get_hdr"]
    /\ UNCHANGED <<client, link, up, sn, sm, sdata, sres, issued, executed, returned>>

\* put() is given a NULL buffer, or an I/O call of the loop fails.
SrvIoFails(c) ==
    /\ \/ spc[c] = "put_buf" /\ sres[c].buf = 0
       \/ spc[c] \in Putting /\ link[c] = "cut"
       \/ spc[c] \in Getting /\ link[c] = "cut" /\ up[c] = <<>>
    /\ Teardown(c)

\* shmget() fails in the new process, malloc() fails, or a handler aborts.
SrvDies(c) ==
    /\ spc[c] \notin {"none", "closed"}
    /\ Teardown(c)

ServerStep(c) ==
    \/ Accept(c) \/ SrvGetHdr(c) \/ SrvGetPkt(c) \/ SrvGetBuf(c) \/ Execute(c)
    \/ SrvPutHdr(c) \/ SrvPutPkt(c) \/ SrvPutBuf(c) \/ SrvIoFails(c)

-----------------------------------------------------------------------------
(* The network (external).                                                  *)

Cut(c) ==
    /\ link[c] = "open"
    /\ link' = [link EXCEPT ![c] = "cut"]
    /\ UNCHANGED <<client, up, down, server, issued, executed, returned>>

\* The tail of what is in flight on a cut connection is lost.
Drop(c) ==
    /\ link[c] = "cut"
    /\ \/ \E i \in 0 .. Len(up[c]) :
            up' = [up EXCEPT ![c] = SubSeq(@, 1, i)] /\ UNCHANGED down
       \/ \E i \in 0 .. Len(down[c]) :
            down' = [down EXCEPT ![c] = SubSeq(@, 1, i)] /\ UNCHANGED up
    /\ UNCHANGED <<client, link, server, issued, executed, returned>>

\* The application is gone and so are its servers.
Terminated ==
    /\ cpc = "exited"
    /\ \A c \in Conns : spc[c] = "closed" \/ link[c] = "none"
    /\ UNCHANGED vars

Next ==
    \/ \E c \in Conns, m \in Methods : Call(c, m)
    \/ \E c \in Conns : ConnectFails(c)
    \/ Exit
    \/ ClientStep
    \/ \E c \in Conns : ServerStep(c) \/ SrvDies(c) \/ Cut(c) \/ Drop(c)
    \/ Terminated

Spec == Init /\ [][Next]_vars

\* The thread inside a call and every server process are scheduled; nothing
\* obliges the application to call, a handler to return, or anyone to fail.
FairSpec ==
    /\ Spec
    /\ WF_vars(ClientStep)
    /\ \A c \in Conns : WF_vars(spc[c] # "execute" /\ ServerStep(c))

-----------------------------------------------------------------------------
(* The promise of RpcService is kept, for every synchronous method but the  *)
(* one whose wrapper tests the handle: ret_ex_val is a union preset to      *)
(* cudaErrorUnknown, so a lost registration looks like one with a handle.   *)

Service == INSTANCE RpcService WITH Confirmed <- SyncMethods \ {"RegisterFatBinary"}

-----------------------------------------------------------------------------
(* Properties.                                                              *)

\* Framing: the server's get() of a header, packet or buffer finds exactly
\* that part of the next request in the stream, and so does the client's for
\* the response to its own call.  (Both loops read by size alone.)
Framing ==
    \A c \in Conns :
      /\ up[c] # <<>> =>
           /\ spc[c] \in {"none", "get_hdr", "execute"} \cup Putting => Head(up[c]).part = "hdr"
           /\ spc[c] = "get_pkt" => Head(up[c]).part = "pkt"
           /\ spc[c] = "get_buf" => Head(up[c]).part = "buf" /\ Head(up[c]).n = sn[c]
      /\ down[c] # <<>> =>
           /\ c = conn /\ cpc \in Getting
           /\ Head(down[c]).n = Len(issued[c])
           /\ <<cpc, Head(down[c]).part>> \in
                {<<"get_hdr", "hdr">>, <<"get_pkt", "pkt">>, <<"get_buf", "buf">>}

\* The server executes the calls of a connection in the order they were made,
\* each at most once and none skipped, also when the connection breaks.
InOrderOnce ==
    \A c \in Conns :
      /\ Len(executed[c]) <= Len(issued[c])
      /\ \A k \in 1 .. Len(executed[c]) :
           executed[c][k].n = k /\ executed[c][k].m = issued[c][k]

\* A synchronous call that returns OK to the application was executed and
\* succeeded, and with it every asynchronous call before it was executed
\* (by InOrderOnce).  RegisterFatBinary is left out: its wrapper
\* takes the preset error code of a lost call for a handle.
OkWasExecuted ==
    \A c \in Conns : \A k \in 1 .. Len(returned[c]) :
      LET r == returned[c][k] IN
      r.v = "OK" /\ ExpectsResponse(r.m) /\ r.m # "RegisterFatBinary" =>
        /\ k <= Len(executed[c])
        /\ executed[c][k].m = r.m
        /\ executed[c][k].ret = "success"

\* The assertions of l_do_cuda_rpc on the response buffer hold: data comes
\* back only for a call that passed a buffer for it.
ResponseFits == cpc \in Getting /\ cpc # "get_hdr" /\ rsp > 0 => RspBuffer(meth)

\* Seen from the application, this protocol is the in-order at-most-once
\* service of RpcService.
ImplementsService == Service!Spec

\* The server of c is in a handler.
InHandler(c) == spc[c] = "execute"

\* The protocol never leaves both ends waiting for each other: l_do_cuda_rpc
\* ends unless, from some moment on, the server of its connection is in one
\* handler that never returns.  (send() and recv() have no timeout, so in that
\* case the call does wait for ever.)
CallReturns ==
    \A c \in Conns :
      cpc \in Putting \cup Getting /\ conn = c
        ~> (cpc \in {"idle", "exited"} \/ []InHandler(c))

\* Every call, asynchronous ones too, is executed unless the connection breaks
\* or an earlier call (or the call itself) never returns from its handler.
EventuallyExecuted ==
    \A c \in Conns : \A k \in 1 .. MaxCalls :
      Len(issued[c]) >= k
        ~> (Len(executed[c]) >= k \/ link[c] = "cut" \/ []InHandler(c))

\* A copy to the host that returns OK delivered the data.
OkDeliversData ==
    \A c \in Conns : \A k \in 1 .. Len(returned[c]) :
      returned[c][k].v = "OK" /\ RspBuffer(returned[c][k].m) => returned[c][k].size > 0

=============================================================================

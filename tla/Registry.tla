------------------------------ MODULE Registry ------------------------------
(***************************************************************************)
(* The registry of fat binaries, kept on both sides of the RPC.            *)
(*                                                                         *)
(* Client (interposer/libci.c): the constructor of a binary calls          *)
(* __cudaRegisterFatBinary, then __cudaRegisterFunction and                *)
(* __cudaRegisterVar; its destructor calls __cudaUnregisterFatBinary.  Each *)
(* of them goes to all nodes in turn.  The handles the nodes return are    *)
(* kept in a stack, fatcubinhandle_array, and all four functions use the   *)
(* top of the stack, whatever handle they are given.                       *)
(*                                                                         *)
(* Backend (remote/remote_api_wrapper.c): every connection has a process,  *)
(* and every thread its own connection to every node, so fatCInfoArr is    *)
(* one array for each thread and node, absent until the first registration *)
(* over that connection.                                                   *)
(*                                                                         *)
(* Constructors and destructors run under the lock of the dynamic loader.  *)
(* Binaries have one variable each, and the format of CUDA 4 or of CUDA    *)
(* 3.2: the client packs each in its own way, the backend unpacks all of   *)
(* them as CUDA 4.  It notices nothing, unless it dies: what it registers  *)
(* for a binary of CUDA 3.2 is garbage under that binary's handle.  An RPC *)
(* is one step: the order of the calls of one connection is what module    *)
(* Rpc is about.                                                           *)
(***************************************************************************)
EXTENDS Integers, Sequences, FiniteSets

CONSTANTS
    Threads,               \* threads of the application
    NNodes,                \* BACKEND_NODES
    Bins,                  \* binaries the application loads
    Old,                   \* those in the format of CUDA 3.2
    Fns,                   \* the number of kernels of each
    MAX_REGISTERED_FUNCS,  \* 10 in the code
    MaxLoads               \* bound: loads and unloads

ASSUME RegistryAssumption ==
    /\ NNodes \in Nat \ {0}
    /\ IsFiniteSet(Bins) /\ Old \subseteq Bins
    /\ Fns \in [Bins -> Nat \ {0}]
    /\ MAX_REGISTERED_FUNCS \in Nat
    /\ MaxLoads \in Nat

Nodes == 0 .. NNodes - 1
Procs == Threads \X Nodes

\* A handle is an address in the process that registered the binary: unique
\* there, but two processes may use the same.  0 is the value the packet was
\* created with, which the client takes for a handle when the RPC failed.
Handles == 0 .. Cardinality(Bins)
Bogus == 0

Nobody == [thread |-> "nobody", bin |-> "none", phase |-> "idle", fn |-> 0, node |-> 0]
Phases == {"idle", "binary", "function", "variable", "unload"}

VARIABLES
    fatcubinhandle_array,    \* handles[k][n]: k-th entry of the stack, node n
    fatcubin_handle_counter, \* height of the stack
    regHostVarsTab,          \* binaries whose variable is in the table
    loader,                  \* the call that holds the loader's lock
    server,                  \* "none", "up" or "ended", for each process
    hasArr,                  \* the process has allocated its fatCInfoArr
    fatCInfoArr,             \* the registered binaries of a process
    rows,                    \* history: thread and binary of the stack's entries
    misordered,              \* history: an unload that did not match the top
    forgot,                  \* history: loaded binaries that saw an unload
    loads                    \* loads and unloads so far

client == <<fatcubinhandle_array, fatcubin_handle_counter, regHostVarsTab, rows, misordered,
            forgot, loads>>
backend == <<server, hasArr, fatCInfoArr>>
vars == <<client, backend, loader>>

Info == [handle : Handles, bin : Bins, num_reg_fns : 0 .. MAX_REGISTERED_FUNCS,
         num_reg_vars : 0 .. 1]
Owners == [thread : Threads, bin : Bins]

TypeOK ==
    /\ fatcubinhandle_array \in [1 .. Cardinality(Bins) -> [Nodes -> Handles]]
    /\ fatcubin_handle_counter \in 0 .. Cardinality(Bins)
    /\ regHostVarsTab \subseteq Bins
    /\ loader \in [thread : Threads \cup {"nobody"}, bin : Bins \cup {"none"}, phase : Phases,
                   fn : Nat, node : Nodes]
    /\ server \in [Procs -> {"none", "up", "ended"}]
    /\ hasArr \in [Procs -> BOOLEAN]
    /\ \A p \in Procs :
         /\ fatCInfoArr[p] \in Seq(Info)
         /\ Len(fatCInfoArr[p]) =< Cardinality(Bins)
    /\ rows \in Seq(Owners)
    /\ misordered \in BOOLEAN
    /\ forgot \subseteq Bins
    /\ loads \in 0 .. MaxLoads

Init ==
    /\ fatcubinhandle_array = [k \in 1 .. Cardinality(Bins) |-> [n \in Nodes |-> Bogus]]
    /\ fatcubin_handle_counter = 0
    /\ regHostVarsTab = {}
    /\ loader = Nobody
    /\ server = [p \in Procs |-> "none"]
    /\ hasArr = [p \in Procs |-> FALSE]
    /\ fatCInfoArr = [p \in Procs |-> <<>>]
    /\ rows = <<>>
    /\ misordered = FALSE
    /\ forgot = {}
    /\ loads = 0

-----------------------------------------------------------------------------
(* The arrays of the backend.                                              *)

\* g_fcia_idx: the first entry with handle h, or 0.
g_fcia_idx(arr, h) ==
    LET found == {i \in DOMAIN arr : arr[i].handle = h}
    IN  IF found = {} THEN 0 ELSE CHOOSE i \in found : \A j \in found : i =< j

\* Wrong variant of RemoveFast: the first entry is removed.
RemoveFirst(arr, i) == Tail(arr)

\* g_array_remove_index_fast: the last entry takes the place of entry i.
RemoveFast(arr, i) ==
    [j \in 1 .. Len(arr) - 1 |-> IF j = i THEN arr[Len(arr)] ELSE arr[j]]

\* cudaLaunch_srv and g_fcia_host_var: some entry has the kernel, the variable.
HasFunction(arr, b, f) == \E i \in DOMAIN arr : arr[i].bin = b /\ f =< arr[i].num_reg_fns
HasVariable(arr, b) == \E i \in DOMAIN arr : arr[i].bin = b /\ arr[i].num_reg_vars > 0

-----------------------------------------------------------------------------
(* Steps of a call that holds the loader's lock.                           *)

\* The thread and binary that are loaded, from its first call to its unload.
Stack == {rows[k] : k \in DOMAIN rows}
Loaded == {o \in Stack : o.bin # loader.bin}

At == <<loader.thread, loader.node>>

Top == fatcubinhandle_array[fatcubin_handle_counter][loader.node]

\* The call goes on to the next node, and after the last one to the next call.
NextCall ==
    IF loader.phase = "function" /\ loader.fn < Fns[loader.bin]
      THEN [loader EXCEPT !.node = 0, !.fn = @ + 1]
    ELSE IF loader.phase = "binary"
      THEN [loader EXCEPT !.node = 0, !.phase = "function", !.fn = 1]
    ELSE IF loader.phase = "function"
      THEN [loader EXCEPT !.node = 0, !.phase = "variable", !.fn = 0]
    ELSE Nobody

Advance ==
    loader' = IF loader.node < NNodes - 1 THEN [loader EXCEPT !.node = @ + 1] ELSE NextCall

\* Connect, if this is the first call of the thread to the node.  An application
\* that cannot connect exits: no call is made after that.
Answers(p) == server[p] \in {"none", "up"}

\* A backend process ends, and its array with it: its connection is lost, or it
\* crashes of a handle that is not in its array, a launch without an array, a
\* kernel too many, a binary of CUDA 3.2 unpacked as one of CUDA 4 or the use of
\* what came of that, or the release of a binary, which treats the 24 bytes of
\* CUDA 4 as the larger structure of CUDA 3.
Dies(p) ==
    /\ server' = [server EXCEPT ![p] = "ended"]
    /\ fatCInfoArr' = [fatCInfoArr EXCEPT ![p] = <<>>]

\* A call reaches the process, and leaves its array alone.
Reaches(p) ==
    /\ server' = [server EXCEPT ![p] = IF @ = "none" THEN "up" ELSE @]
    /\ UNCHANGED fatCInfoArr

\* __cudaRegisterFatBinary begins: the counter first.
Load(t, b) ==
    /\ loader = Nobody
    /\ loads < MaxLoads
    /\ \A o \in Stack : o.bin # b
    /\ fatcubin_handle_counter' = fatcubin_handle_counter + 1
    /\ rows' = Append(rows, [thread |-> t, bin |-> b])
    /\ loader' = [thread |-> t, bin |-> b, phase |-> "binary", fn |-> 0, node |-> 0]
    /\ loads' = loads + 1
    /\ UNCHANGED <<fatcubinhandle_array, regHostVarsTab, misordered, forgot, backend>>

\* __nvback_cudaRegisterFatBinary2_srv: a new entry, with handle h.
SrvRegisterFatBinary(p, h) ==
    /\ fatCInfoArr' = [fatCInfoArr EXCEPT ![p] =
         Append(@, [handle |-> h, bin |-> loader.bin, num_reg_fns |-> 0, num_reg_vars |-> 0])]
    /\ server' = [server EXCEPT ![p] = "up"]
    /\ hasArr' = [hasArr EXCEPT ![p] = TRUE]

\* r__cudaRegisterFatBinary_4, and r__cudaRegisterFatBinary for a binary of CUDA
\* 3.2 that the process survives: the handle the node returns goes on the stack.
RegisterFatBinary ==
    /\ loader.phase = "binary"
    /\ Answers(At)
    /\ \E h \in Handles \ ({Bogus} \cup {fatCInfoArr[At][i].handle : i \in DOMAIN fatCInfoArr[At]}) :
         /\ SrvRegisterFatBinary(At, h)
         /\ fatcubinhandle_array' =
              [fatcubinhandle_array EXCEPT ![fatcubin_handle_counter][loader.node] = h]
    /\ Advance
    /\ UNCHANGED <<fatcubin_handle_counter, regHostVarsTab, rows, misordered, forgot, loads>>

\* r__cudaRegisterFatBinary packs a binary of CUDA 3.2, and the server takes a
\* length from where CUDA 4 has it: whatever lies there decides whether the
\* process copies beyond its buffers and dies, or registers what it has copied.
r__cudaRegisterFatBinary ==
    /\ loader.phase = "binary" /\ loader.bin \in Old
    /\ Answers(At)
    /\ Dies(At)
    /\ fatcubinhandle_array' =
         [fatcubinhandle_array EXCEPT ![fatcubin_handle_counter][loader.node] = Bogus]
    /\ Advance
    /\ UNCHANGED <<fatcubin_handle_counter, regHostVarsTab, rows, misordered, forgot, loads,
                   hasArr>>

\* The RPC fails, and what the packet was created with is taken for a handle.
RegisterFatBinaryFails ==
    /\ loader.phase = "binary"
    /\ ~ Answers(At)
    /\ fatcubinhandle_array' =
         [fatcubinhandle_array EXCEPT ![fatcubin_handle_counter][loader.node] = Bogus]
    /\ Advance
    /\ UNCHANGED <<fatcubin_handle_counter, regHostVarsTab, rows, misordered, forgot, loads,
                   backend>>

\* __nvback_cudaRegisterFunction_srv with entry i: a handle that is not found
\* is followed as a null pointer, and the array of kernels must not be full.
SrvRegisterFunction(p, i) ==
    IF i = 0 THEN Dies(p)
    ELSE IF fatCInfoArr[p][i].num_reg_fns >= MAX_REGISTERED_FUNCS
      THEN Dies(p)
    ELSE /\ fatCInfoArr' = [fatCInfoArr EXCEPT ![p][i].num_reg_fns = @ + 1]
         /\ UNCHANGED server

\* __cudaRegisterFunction at one node, with the handle on top of the stack.
RegisterFunction ==
    /\ loader.phase = "function"
    /\ IF server[At] = "up"
         THEN SrvRegisterFunction(At, g_fcia_idx(fatCInfoArr[At], Top))
         ELSE UNCHANGED <<server, fatCInfoArr>>
    /\ Advance
    /\ UNCHANGED <<client, hasArr>>

\* __nvback_cudaRegisterVar_srv with entry i.
SrvRegisterVar(p, i) ==
    IF i = 0 THEN Dies(p)
    ELSE /\ fatCInfoArr' = [fatCInfoArr EXCEPT ![p][i].num_reg_vars = @ + 1]
         /\ UNCHANGED server

\* The table of the client: a variable is entered, looked up, and all of them
\* are dropped (removing only those of one binary is compiled out).
g_vars_insert(b) == regHostVarsTab' = regHostVarsTab \cup {b}
g_vars_find(b) == b \in regHostVarsTab
DropVars == regHostVarsTab' = {}

\* __cudaRegisterVar at one node: the variable enters the table of the client
\* even when the RPC failed.
RegisterVar ==
    /\ loader.phase = "variable"
    /\ IF server[At] = "up"
         THEN SrvRegisterVar(At, g_fcia_idx(fatCInfoArr[At], Top))
         ELSE UNCHANGED <<server, fatCInfoArr>>
    /\ g_vars_insert(loader.bin)
    /\ Advance
    /\ UNCHANGED <<fatcubinhandle_array, fatcubin_handle_counter, rows, misordered, forgot,
                   loads, hasArr>>

\* Thread t begins to unload a binary it or another thread has loaded.
Unload(t, b) ==
    /\ loader = Nobody
    /\ loads < MaxLoads
    /\ \E o \in Stack : o.bin = b
    /\ loader' = [thread |-> t, bin |-> b, phase |-> "unload", fn |-> 0, node |-> 0]
    /\ misordered' = (misordered \/ rows[Len(rows)] # [thread |-> t, bin |-> b])
    /\ forgot' = (forgot \cup {o.bin : o \in Stack}) \ {b}
    /\ loads' = loads + 1
    /\ UNCHANGED <<fatcubinhandle_array, fatcubin_handle_counter, regHostVarsTab, rows, backend>>

\* After the last node the stack is popped.
Pop ==
    IF loader.node < NNodes - 1 THEN UNCHANGED <<fatcubin_handle_counter, rows>>
    ELSE /\ fatcubin_handle_counter' = fatcubin_handle_counter - 1
         /\ \E k \in DOMAIN rows :
              /\ rows[k].bin = loader.bin
              /\ rows' = SubSeq(rows, 1, k - 1) \o SubSeq(rows, k + 1, Len(rows))

\* Wrong variant of SrvUnregister: the entry of the process stays.
SrvUnregisterKeeps(p, i) ==
    IF i = 0 THEN Dies(p)
    ELSE Dies(p) \/ UNCHANGED <<server, fatCInfoArr>>

\* __nvback_cudaUnregisterFatBinary_srv with entry i.
SrvUnregister(p, i) ==
    IF i = 0 THEN Dies(p)
    ELSE \/ Dies(p)
         \/ /\ fatCInfoArr' = [fatCInfoArr EXCEPT ![p] = RemoveFast(@, i)]
            /\ UNCHANGED server

\* __cudaUnregisterFatBinary at one node.  No response is expected, so the
\* client goes on in any case, and forgets the variables of all binaries.
UnregisterFatBinary ==
    /\ loader.phase = "unload"
    /\ IF Answers(At) THEN SrvUnregister(At, g_fcia_idx(fatCInfoArr[At], Top))
                      ELSE UNCHANGED <<server, fatCInfoArr>>
    /\ DropVars
    /\ Pop
    /\ Advance
    /\ UNCHANGED <<fatcubinhandle_array, misordered, forgot, loads, hasArr>>

-----------------------------------------------------------------------------
(* Calls of the threads that are not loading.                               *)

Free(t) == loader.thread # t
Own(t, b) == [thread |-> t, bin |-> b] \in Loaded

\* nvbackCudaLaunch_srv: what becomes of a launch of kernel f of binary b by
\* thread t on node n.  It needs an array, and an entry with the kernel: that is
\* then launched, or some other code if the entry is of a binary of CUDA 3.2.
LaunchOutcome(t, b, f, n) ==
    LET p == <<t, n>> IN
    CASE ~ Answers(p) -> "lost"
      [] Answers(p) /\ ~ hasArr[p] -> "died"
      [] Answers(p) /\ hasArr[p] /\ HasFunction(fatCInfoArr[p], b, f) ->
           IF b \in Old THEN "garbage" ELSE "launched"
      [] OTHER -> "notfound"

\* cudaLaunch, for which no response is expected.  The server looks at its array
\* only if it gets the semaphore of the launches (see VirtMem).
Launch(t, b, n) ==
    /\ Free(t)
    /\ \E o \in Loaded : o.bin = b
    /\ \E f \in 1 .. Fns[b] :
         \/ LaunchOutcome(t, b, f, n) \in {"died", "garbage"} /\ Dies(<<t, n>>)
         \/ Reaches(<<t, n>>)
    /\ UNCHANGED <<client, loader, hasArr>>

\* Wrong variant of CopyOutcome: only the first binary of the process is searched.
CopyOutcomeFirst(t, b, n) ==
    LET p == <<t, n>> IN
    CASE ~ g_vars_find(b) -> "symbol"
      [] g_vars_find(b) /\ Answers(p) /\ hasArr[p] /\ Len(fatCInfoArr[p]) > 0
           /\ fatCInfoArr[p][1].bin = b -> IF b \in Old THEN "garbage" ELSE "found"
      [] OTHER -> "unknown"

\* cudaMemcpyToSymbol and cudaMemcpyFromSymbol with the variable of binary b:
\* looked up in the table of the client, and then in the arrays of the backend.
CopyOutcome(t, b, n) ==
    LET p == <<t, n>> IN
    CASE ~ g_vars_find(b) -> "symbol"
      [] g_vars_find(b) /\ Answers(p) /\ hasArr[p] /\ HasVariable(fatCInfoArr[p], b) ->
           IF b \in Old THEN "garbage" ELSE "found"
      [] OTHER -> "unknown"

CopySymbol(t, b, n) ==
    /\ Free(t)
    /\ \E o \in Loaded : o.bin = b
    /\ \/ CopyOutcome(t, b, n) = "symbol" /\ UNCHANGED <<server, fatCInfoArr>>
       \/ CopyOutcome(t, b, n) # "symbol" /\ Reaches(<<t, n>>)
       \/ CopyOutcome(t, b, n) = "garbage" /\ Dies(<<t, n>>)
    /\ UNCHANGED <<client, loader, hasArr>>

\* A connection, or the backend process behind it, is lost.
Lose(p) ==
    /\ server[p] = "up"
    /\ Dies(p)
    /\ UNCHANGED <<client, loader, hasArr>>

Loading ==
    \/ RegisterFatBinary \/ r__cudaRegisterFatBinary \/ RegisterFatBinaryFails
    \/ RegisterFunction \/ RegisterVar \/ UnregisterFatBinary

\* The bound on loads is reached.
Finished == loader = Nobody /\ loads = MaxLoads /\ UNCHANGED vars

Next ==
    \/ \E t \in Threads, b \in Bins : Load(t, b) \/ Unload(t, b)
    \/ Loading
    \/ \E t \in Threads, b \in Bins, n \in Nodes :
         Launch(t, b, n) \/ CopySymbol(t, b, n)
    \/ \E p \in Procs : Lose(p)
    \/ Finished

Spec == Init /\ [][Next]_vars

-----------------------------------------------------------------------------
Complete(b) == [bin |-> b, num_reg_fns |-> Fns[b], num_reg_vars |-> 1]

(* As long as binaries are unloaded by the thread that loaded them and in  *)
(* reverse order, the stack of the client and the arrays of the backends    *)
(* agree: the backend processes of a thread hold exactly the binaries that  *)
(* the thread has loaded, each with all of its kernels and its variable,    *)
(* under the handle the client has on its stack for that node.              *)
RegistriesAgree ==
    ~ misordered /\ loader = Nobody =>
      \A t \in Threads, n \in Nodes : server[<<t, n>>] = "up" =>
        LET arr == fatCInfoArr[<<t, n>>] IN
        /\ {arr[i].bin : i \in DOMAIN arr} = {o.bin : o \in {o \in Stack : o.thread = t}}
        /\ \A k \in DOMAIN rows : rows[k].thread = t =>
             \E i \in DOMAIN arr :
               /\ arr[i].handle = fatcubinhandle_array[k][n]
               /\ [bin |-> arr[i].bin, num_reg_fns |-> arr[i].num_reg_fns,
                   num_reg_vars |-> arr[i].num_reg_vars] = Complete(rows[k].bin)

(* As long as binaries are unloaded in order, a launch finds its kernel     *)
(* exactly for the thread that loaded its binary and whose backend lives,   *)
(* or, in place of a kernel of CUDA 3.2, what was unpacked for it.  The     *)
(* processes of other threads never hear of the binary: there a launch goes *)
(* unnoticed, or kills a process that has registered nothing.               *)
LaunchFound ==
    ~ misordered =>
      \A o \in Loaded, t \in Threads, n \in Nodes : \A f \in 1 .. Fns[o.bin] :
        LET outcome == LaunchOutcome(t, o.bin, f, n) IN
        /\ o.thread = t => outcome \in {"lost", IF o.bin \in Old THEN "garbage" ELSE "launched"}
        /\ o.thread # t => outcome \notin {"launched", "garbage"}

(* A thread finds the variable of a binary it has loaded, at its backend as *)
(* well as in the table of the client, unless a binary was unloaded since   *)
(* (which empties the table for all of them) or its backend is gone.  For a *)
(* binary of CUDA 3.2 it finds an entry, and behind it no such variable.    *)
SymbolFound ==
    ~ misordered =>
      \A o \in Loaded, n \in Nodes :
        server[<<o.thread, n>>] = "up" /\ o.bin \notin forgot =>
          CopyOutcome(o.thread, o.bin, n) = IF o.bin \in Old THEN "garbage" ELSE "found"

=============================================================================

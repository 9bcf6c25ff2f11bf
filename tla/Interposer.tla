----------------------------- MODULE Interposer -----------------------------
(***************************************************************************)
(* The interposed CUDA runtime of interposer/libci.c, as the threads of an *)
(* application see it.  A call is of one of three kinds:                   *)
(*   - forwarded: the stub fills a packet, calls the nvback..._rpc wrapper  *)
(*     for the node of the thread's device, stores a result in cuda_err    *)
(*     and returns cuda_err;                                               *)
(*   - answered here, from the tables of the interposer;                   *)
(*   - passed through to the CUDA library of the application's own node,   *)
(*     found with dlsym(RTLD_NEXT, ...).                                   *)
(* All threads share cuda_err; the current device (CUR_DEV) and the        *)
(* connections belong to a thread, so a forwarded call reaches the backend *)
(* process of its thread on one node.                                      *)
(*                                                                         *)
(* What an RPC does is the subject of module Rpc: here a stub may get any  *)
(* result that module allows it.                                           *)
(***************************************************************************)
EXTENDS Integers, Sequences, FiniteSets

CONSTANTS
    Threads,      \* threads of the application
    Remotes,      \* network:remote0, remote1, ... of kidron.ini, "" if not there
    PerNode,      \* the devices of each node
    MaxDevices,   \* MAX_BACKEND_DEVICES, the entries of the device tables
    Answers,      \* the device numbers the global scheduler answers with
    Calls,        \* the functions the application calls
    MaxCalls      \* bound: calls of one thread

\* The keys are read up to the first that is not there; first_node is the last
\* node named "localhost", and stays the first one (0) if none is.
l_getLocalFromConfig ==
    LET named == {i \in DOMAIN Remotes : \A j \in 1 .. i : Remotes[j] # ""}
        local == {i \in named : Remotes[i] = "localhost"}
    IN  [BACKEND_NODES |-> Cardinality(named),
         first_node |-> IF local = {} THEN 0
                        ELSE (CHOOSE i \in local : \A j \in local : j =< i) - 1]

NNodes == l_getLocalFromConfig.BACKEND_NODES
FirstNode == l_getLocalFromConfig.first_node

Nodes == 0 .. NNodes - 1
Local == -1   \* the CUDA library of the application's own node

\* Devices of the nodes before node i.
Before(devs, i) ==
    LET sum[j \in 0 .. i] == IF j = 0 THEN 0 ELSE sum[j - 1] + devs[j - 1]
    IN  sum[i]

Cap == Before(PerNode, NNodes)   \* most devices there can be
Slots == 0 .. MaxDevices - 1     \* entries of the device tables, all zero at first

\* The tables have room for the devices of all nodes, and for the answers of
\* the global scheduler, which need not be devices this application knows.  The
\* code checks neither (nor that there are at most MAX_BACKEND_NODES nodes).
ASSUME InterposerAssumption ==
    /\ Remotes \in Seq(STRING) /\ NNodes # 0
    /\ PerNode \in [0 .. NNodes - 1 -> Nat]
    /\ MaxDevices \in Nat /\ Cap < MaxDevices
    /\ Answers \subseteq Slots
    /\ MaxCalls \in Nat

-----------------------------------------------------------------------------
(* The functions that pass through, file order.                            *)

ThreadCalls == {"cudaThreadSetLimit", "cudaThreadGetLimit",
                "cudaThreadGetCacheConfig", "cudaThreadSetCacheConfig"}
ErrorCalls == {"cudaPeekAtLastError", "cudaGetErrorString"}
ChooseCalls == {"cudaChooseDevice"}
DeviceCalls == {"cudaSetValidDevices", "cudaSetDeviceFlags"}
StreamCalls == {"cudaStreamCreate", "cudaStreamDestroy", "cudaStreamWaitEvent",
                "cudaStreamSynchronize", "cudaStreamQuery"}
EventCalls == {"cudaEventCreate", "cudaEventCreateWithFlags", "cudaEventRecord",
               "cudaEventQuery", "cudaEventSynchronize", "cudaEventDestroy",
               "cudaEventElapsedTime"}
CacheCalls == {"cudaFuncSetCacheConfig"}
FuncCalls == {"cudaFuncGetAttributes", "cudaSetDoubleForDevice", "cudaSetDoubleForHost"}
AllocCalls == {"cudaMallocHost", "cudaMallocPitch", "cudaMallocArray"}
HostCalls == {"cudaFreeHost", "cudaFreeArray", "cudaHostAlloc",
              "cudaHostGetDevicePointer", "cudaHostGetFlags", "cudaMalloc3D",
              "cudaMalloc3DArray"}
VolumeCalls == {"cudaMemcpy3D", "cudaMemcpy3DAsync", "cudaMemGetInfo"}
ArrayCalls == {"cudaMemcpyToArray", "cudaMemcpyFromArray", "cudaMemcpyArrayToArray",
               "cudaMemcpy2D", "cudaMemcpy2DToArray", "cudaMemcpy2DFromArray",
               "cudaMemcpy2DArrayToArray"}
AsyncCalls == {"cudaMemcpyAsync", "cudaMemcpyToArrayAsync", "cudaMemcpyFromArrayAsync",
               "cudaMemcpy2DAsync", "cudaMemcpy2DToArrayAsync",
               "cudaMemcpy2DFromArrayAsync"}
SymbolCalls == {"cudaMemcpyToSymbolAsync", "cudaMemcpyFromSymbolAsync"}
MemsetCalls == {"cudaMemset", "cudaMemset2D", "cudaMemset3D", "cudaMemsetAsync",
                "cudaMemset2DAsync", "cudaMemset3DAsync"}
AddressCalls == {"cudaGetSymbolAddress", "cudaGetSymbolSize"}
GraphicsCalls == {"cudaGraphicsUnregisterResource", "cudaGraphicsResourceSetMapFlags",
                  "cudaGraphicsMapResources", "cudaGraphicsUnmapResources",
                  "cudaGraphicsResourceGetMappedPointer",
                  "cudaGraphicsSubResourceGetMappedArray"}
ChannelCalls == {"cudaGetChannelDesc", "cudaCreateChannelDesc"}
TextureCalls == {"cudaBindTexture", "cudaBindTexture2D", "cudaBindTextureToArray",
                 "cudaUnbindTexture", "cudaGetTextureAlignmentOffset",
                 "cudaGetTextureReference"}
SurfaceCalls == {"cudaBindSurfaceToArray", "cudaGetSurfaceReference",
                 "cudaDriverGetVersion", "cudaRuntimeGetVersion", "cudaGetExportTable"}
RegisterCalls == {"__cudaRegisterTexture", "__cudaRegisterShared"}
\* Sets application_share as well, from its second argument: a number that
\* travels with every cudaSetDevice and weighs the time slices of module
\* FairShare, whose length is left out there.
ShareCalls == {"getcwd"}

PassThrough ==
    UNION {ThreadCalls, ErrorCalls, ChooseCalls, DeviceCalls, StreamCalls, EventCalls,
           CacheCalls, FuncCalls, AllocCalls, HostCalls, VolumeCalls, ArrayCalls,
           AsyncCalls, SymbolCalls, MemsetCalls, AddressCalls, GraphicsCalls,
           ChannelCalls, TextureCalls, SurfaceCalls, RegisterCalls, ShareCalls}

-----------------------------------------------------------------------------
(* The forwarded functions, each with the values its stub may store in      *)
(* cuda_err: after calloc() failed ("memory"), after the wrapper returned   *)
(* ERROR, and after it returned OK.  A wrapper that expects no response     *)
(* always returns OK.  cudaThreadExit then stores what it finds in its      *)
(* packet: the cudaErrorUnknown the packet was created with.                *)

Errors == {"success", "unknown", "memory", "symbol"}

ThreadExitStores == {"memory", "unknown"}
ThreadSynchronizeStores == {"memory", "success", "unknown"}
GetDevicePropertiesStores == {"memory", "success", "unknown"}
ConfigureCallStores == {"memory", "success"}
SetupArgumentStores == {"memory", "success"}
LaunchStores == {"memory", "success"}
MallocStores == {"memory", "success"}
FreeStores == {"memory", "success"}
MemcpyStores == {"memory", "success", "unknown"}
MemcpyToSymbolStores == {"symbol", "memory", "success", "unknown"}
MemcpyFromSymbolStores == {"symbol", "memory", "success", "unknown"}

Stores == [
    cudaThreadExit |-> ThreadExitStores,
    cudaThreadSynchronize |-> ThreadSynchronizeStores,
    cudaGetDeviceProperties |-> GetDevicePropertiesStores,
    cudaConfigureCall |-> ConfigureCallStores,
    cudaSetupArgument |-> SetupArgumentStores,
    cudaLaunch |-> LaunchStores,
    cudaMalloc |-> MallocStores,
    cudaFree |-> FreeStores,
    cudaMemcpy |-> MemcpyStores,
    cudaMemcpyToSymbol |-> MemcpyToSymbolStores,
    cudaMemcpyFromSymbol |-> MemcpyFromSymbolStores]

Forwarded == DOMAIN Stores
Makes == {"cudaMalloc"}    \* they return device memory

AnsweredHere == {"cudaGetLastError", "cudaGetDeviceCount", "cudaGetDevice"}
AllCalls == Forwarded \cup AnsweredHere \cup PassThrough \cup {"cudaSetDevice"}

-----------------------------------------------------------------------------
VARIABLES
    nodes_done,       \* nodes whose devices have been counted (DONE = 2: all)
    DEVICES_IN_NODE,  \* number of devices of a node
    BACKEND_DEVICES,  \* number of devices of all nodes
    DEV_TO_INDEX,     \* the node of a device
    DEV_TO_LOCALDEV,  \* its number on that node
    first_local,      \* the first device of FirstNode
    cuda_err,         \* the last error, of any thread
    CUR_DEV,          \* current device of a thread
    pc,               \* where a thread is in a stub
    device_DRR,       \* device_DRR of its cudaSetDevice
    ret,              \* what its last call returned
    own,              \* history: what its last stub stored in cuda_err
    overtaken,        \* history: another thread has stored cuda_err since
    answered,         \* history: the scheduler answered the cudaSetDevice under way
                      \* with a device this application knows
    chosen,           \* history: that was so of the one that set CUR_DEV
    split,            \* history: that call took the result of another thread's
    bound,            \* history: node and device its last cudaSetDevice reached
    res,              \* history: the nodes where it has allocated memory
    late,             \* history: it called cudaSetDevice after it had
    calls             \* number of its calls

tables == <<nodes_done, DEVICES_IN_NODE, BACKEND_DEVICES, DEV_TO_INDEX, DEV_TO_LOCALDEV,
            first_local>>
device == <<CUR_DEV, device_DRR, answered, chosen, split, bound>>
resources == <<res, late>>
vars == <<tables, device, resources, cuda_err, pc, ret, own, overtaken, calls>>

Unbound == <<Local, 0>>

TypeOK ==
    /\ nodes_done \in 0 .. NNodes
    /\ \A i \in Nodes : DEVICES_IN_NODE[i] \in {0, PerNode[i]}
    /\ BACKEND_DEVICES \in 0 .. Cap
    /\ DEV_TO_INDEX \in [Slots -> Nodes]
    /\ DEV_TO_LOCALDEV \in [Slots -> 0 .. Cap]
    /\ first_local \in 0 .. Cap
    /\ cuda_err \in Errors
    /\ CUR_DEV \in [Threads -> Slots]
    /\ pc \in [Threads -> {"idle", "stored", "ask", "asked", "set"}]
    /\ device_DRR \in [Threads -> Slots]
    /\ ret \in [Threads -> Errors]
    /\ own \in [Threads -> Errors]
    /\ overtaken \in [Threads -> BOOLEAN]
    /\ answered \in [Threads -> BOOLEAN]
    /\ chosen \in [Threads -> BOOLEAN]
    /\ split \in [Threads -> BOOLEAN]
    /\ bound \in [Threads -> (Nodes \cup {Local}) \X (0 .. Cap)]
    /\ res \in [Threads -> SUBSET Nodes]
    /\ late \in [Threads -> BOOLEAN]
    /\ calls \in [Threads -> 0 .. MaxCalls]

Init ==
    /\ nodes_done = 0
    /\ DEVICES_IN_NODE = [i \in Nodes |-> 0]
    /\ BACKEND_DEVICES = 0
    /\ DEV_TO_INDEX = [k \in Slots |-> 0]
    /\ DEV_TO_LOCALDEV = [k \in Slots |-> 0]
    /\ first_local = 0
    /\ cuda_err = "success"
    /\ CUR_DEV = [t \in Threads |-> 0]
    /\ pc = [t \in Threads |-> "idle"]
    /\ device_DRR = [t \in Threads |-> 0]
    /\ ret = [t \in Threads |-> "success"]
    /\ own = [t \in Threads |-> "success"]
    /\ overtaken = [t \in Threads |-> FALSE]
    /\ answered = [t \in Threads |-> TRUE]
    /\ chosen = [t \in Threads |-> TRUE]
    /\ split = [t \in Threads |-> FALSE]
    /\ bound = [t \in Threads |-> Unbound]
    /\ res = [t \in Threads |-> {}]
    /\ late = [t \in Threads |-> FALSE]
    /\ calls = [t \in Threads |-> 0]

-----------------------------------------------------------------------------
(* Before main() runs, the first __cudaRegisterFatBinary counts the devices *)
(* of the nodes, one node after the other, and fills the device tables.    *)

\* Wrong variant of CountDevices: the inner loop starts anew at each node.
CountDevicesRestart(i, c) ==
    /\ nodes_done = i
    /\ nodes_done' = i + 1
    /\ DEVICES_IN_NODE' = [DEVICES_IN_NODE EXCEPT ![i] = c]
    /\ BACKEND_DEVICES' = BACKEND_DEVICES + c
    /\ DEV_TO_INDEX' = [k \in Slots |-> IF k < BACKEND_DEVICES' THEN i ELSE 0]
    /\ DEV_TO_LOCALDEV' = [k \in Slots |-> IF k < c THEN k ELSE 0]
    /\ first_local' = Before(DEVICES_IN_NODE', FirstNode)
    /\ UNCHANGED <<device, resources, cuda_err, pc, ret, own, overtaken, calls>>

\* rcudaGetDeviceCount: what it may store in cuda_err when it reports c devices.
rcudaGetDeviceCount(c) == IF c = 0 THEN {"success", "unknown", "memory"} ELSE {"success"}

\* The devices of node i are counted: all of them, or none when the call fails
\* (its result is in cuda_err, which nobody reads).  The inner loop goes on
\* from the device where the previous node ended.
CountDevices(i, c) ==
    /\ nodes_done = i
    /\ nodes_done' = i + 1
    /\ DEVICES_IN_NODE' = [DEVICES_IN_NODE EXCEPT ![i] = c]
    /\ BACKEND_DEVICES' = BACKEND_DEVICES + c
    /\ LET new == BACKEND_DEVICES .. BACKEND_DEVICES' - 1 IN
       /\ DEV_TO_INDEX' = [k \in Slots |-> IF k \in new THEN i ELSE DEV_TO_INDEX[k]]
       /\ DEV_TO_LOCALDEV' =
            [k \in Slots |-> IF k \in new THEN k - BACKEND_DEVICES ELSE DEV_TO_LOCALDEV[k]]
    /\ first_local' = Before(DEVICES_IN_NODE', FirstNode)
    /\ cuda_err' \in rcudaGetDeviceCount(c)
    /\ UNCHANGED <<device, resources, pc, ret, own, overtaken, calls>>

Ready == nodes_done = NNodes

-----------------------------------------------------------------------------
(* Shared parts of the stubs.                                               *)

Begin(t) ==
    /\ Ready
    /\ pc[t] = "idle"
    /\ calls[t] < MaxCalls
    /\ calls' = [calls EXCEPT ![t] = @ + 1]

\* cuda_err = e, by thread t.
Store(t, e) ==
    /\ cuda_err' = e
    /\ own' = [own EXCEPT ![t] = e]
    /\ overtaken' = [u \in Threads |-> u # t /\ (overtaken[u] \/ pc[u] # "idle")]

\* The node a forwarded call of thread t goes to.
Route(t) == DEV_TO_INDEX[CUR_DEV[t]]

-----------------------------------------------------------------------------
(* Forwarded calls.  The stub has done its RPC and stores the result ...    *)

ForwardPlain(t, f) ==
    /\ f \in Forwarded \ Makes
    /\ Begin(t)
    /\ \E e \in Stores[f] : Store(t, e)
    /\ pc' = [pc EXCEPT ![t] = "stored"]
    /\ UNCHANGED <<tables, device, resources, ret>>

\* Memory is allocated on the node the call goes to.
ForwardMake(t, f) ==
    /\ f \in Forwarded \cap Makes
    /\ Begin(t)
    /\ \E e \in Stores[f] :
         /\ Store(t, e)
         /\ res' = IF e = "success" THEN [res EXCEPT ![t] = @ \cup {Route(t)}] ELSE res
    /\ pc' = [pc EXCEPT ![t] = "stored"]
    /\ UNCHANGED <<tables, device, late, ret>>

\* Wrong variant of Return: cuda_err is reset by the one who reads it first.
ReturnReset(t) ==
    /\ pc[t] = "stored"
    /\ ret' = [ret EXCEPT ![t] = cuda_err]
    /\ cuda_err' = "success"
    /\ pc' = [pc EXCEPT ![t] = "idle"]
    /\ UNCHANGED <<tables, device, resources, own, overtaken, calls>>

\* ... frees the packet and returns cuda_err, whatever it holds by then.
Return(t) ==
    /\ pc[t] = "stored"
    /\ ret' = [ret EXCEPT ![t] = cuda_err]
    /\ pc' = [pc EXCEPT ![t] = "idle"]
    /\ UNCHANGED <<tables, device, resources, cuda_err, own, overtaken, calls>>

-----------------------------------------------------------------------------
(* cudaSetDevice.  The device the application asks for is ignored: the      *)
(* global scheduler chooses.                                               *)

\* device_DRR carries the number of devices to the scheduler.
AskDevice(t) ==
    /\ "cudaSetDevice" \in Calls
    /\ Begin(t)
    /\ device_DRR' = [device_DRR EXCEPT ![t] = BACKEND_DEVICES]
    /\ late' = [late EXCEPT ![t] = @ \/ res[t] # {}]
    /\ pc' = [pc EXCEPT ![t] = "ask"]
    /\ UNCHANGED <<tables, res, cuda_err, ret, own, overtaken, CUR_DEV, answered,
                   chosen, split, bound>>

\* Wrong variant of GotDevice: the answer is not taken out of the packet.
GotDeviceDropped(t, d) ==
    /\ pc[t] = "ask"
    /\ answered' = [answered EXCEPT ![t] = d < BACKEND_DEVICES]
    /\ Store(t, "success")
    /\ pc' = [pc EXCEPT ![t] = "asked"]
    /\ UNCHANGED <<tables, resources, ret, CUR_DEV, device_DRR, chosen, split, bound, calls>>

\* rcudaGetDevice: the scheduler answers with one of its devices, and nobody
\* looks whether this application knows it.
GotDevice(t, d) ==
    /\ pc[t] = "ask"
    /\ device_DRR' = [device_DRR EXCEPT ![t] = d]
    /\ answered' = [answered EXCEPT ![t] = d < BACKEND_DEVICES]
    /\ Store(t, "success")
    /\ pc' = [pc EXCEPT ![t] = "asked"]
    /\ UNCHANGED <<tables, resources, ret, CUR_DEV, chosen, split, bound, calls>>

\* rcudaGetDevice fails, and nobody looks at its result.
NoDevice(t) ==
    /\ pc[t] = "ask"
    /\ answered' = [answered EXCEPT ![t] = FALSE]
    /\ \E e \in {"memory", "unknown"} : Store(t, e)
    /\ pc' = [pc EXCEPT ![t] = "asked"]
    /\ UNCHANGED <<tables, resources, ret, CUR_DEV, device_DRR, chosen, split, bound,
                   calls>>

\* rcudaSetDevice sends the device and expects no answer.
SentDevice(t) ==
    /\ pc[t] = "asked"
    /\ bound' = [bound EXCEPT ![t] = <<DEV_TO_INDEX[device_DRR[t]],
                                       DEV_TO_LOCALDEV[device_DRR[t]]>>]
    /\ Store(t, "success")
    /\ pc' = [pc EXCEPT ![t] = "set"]
    /\ UNCHANGED <<tables, resources, ret, CUR_DEV, device_DRR, answered, chosen, split,
                   calls>>

\* rcudaSetDevice cannot allocate its packet.
UnsentDevice(t) ==
    /\ pc[t] = "asked"
    /\ Store(t, "memory")
    /\ pc' = [pc EXCEPT ![t] = "set"]
    /\ UNCHANGED <<tables, resources, device, ret, calls>>

\* Wrong variant of SetReturns: the result is not looked at.
SetReturnsAlways(t) ==
    /\ pc[t] = "set"
    /\ ret' = [ret EXCEPT ![t] = cuda_err]
    /\ split' = [split EXCEPT ![t] = cuda_err # own[t]]
    /\ CUR_DEV' = [CUR_DEV EXCEPT ![t] = device_DRR[t]]
    /\ chosen' = [chosen EXCEPT ![t] = answered[t]]
    /\ answered' = [answered EXCEPT ![t] = TRUE]
    /\ pc' = [pc EXCEPT ![t] = "idle"]
    /\ UNCHANGED <<tables, resources, cuda_err, own, overtaken, device_DRR, bound, calls>>

\* Wrong variant of SetReturns: the current device is one variable.
SetReturnsShared(t) ==
    /\ pc[t] = "set"
    /\ ret' = [ret EXCEPT ![t] = cuda_err]
    /\ split' = [split EXCEPT ![t] = cuda_err # own[t]]
    /\ CUR_DEV' = IF cuda_err = "success" THEN [u \in Threads |-> device_DRR[t]] ELSE CUR_DEV
    /\ chosen' = [chosen EXCEPT ![t] = answered[t]]
    /\ answered' = [answered EXCEPT ![t] = TRUE]
    /\ pc' = [pc EXCEPT ![t] = "idle"]
    /\ UNCHANGED <<tables, resources, cuda_err, own, overtaken, device_DRR, bound, calls>>

\* rcudaSetDevice returns cuda_err, which decides about the current device.
SetReturns(t) ==
    /\ pc[t] = "set"
    /\ ret' = [ret EXCEPT ![t] = cuda_err]
    /\ split' = [split EXCEPT ![t] =
         \/ own[t] = "success" /\ cuda_err # "success"
         \/ own[t] # "success" /\ cuda_err = "success"
         \/ @ /\ cuda_err # "success"]
    /\ CUR_DEV' = [CUR_DEV EXCEPT ![t] = IF cuda_err = "success" THEN device_DRR[t] ELSE @]
    /\ chosen' = [chosen EXCEPT ![t] = IF cuda_err = "success" THEN answered[t] ELSE @]
    /\ answered' = [answered EXCEPT ![t] = TRUE]
    /\ pc' = [pc EXCEPT ![t] = "idle"]
    /\ UNCHANGED <<tables, resources, cuda_err, own, overtaken, device_DRR, bound, calls>>

-----------------------------------------------------------------------------
(* Calls that need no backend.                                              *)

GetLastError(t) ==
    /\ "cudaGetLastError" \in Calls
    /\ Begin(t)
    /\ ret' = [ret EXCEPT ![t] = cuda_err]
    /\ own' = [own EXCEPT ![t] = cuda_err]
    /\ UNCHANGED <<tables, device, resources, cuda_err, pc, overtaken>>

\* BACKEND_DEVICES is reported ...
GetDeviceCount(t) ==
    /\ "cudaGetDeviceCount" \in Calls
    /\ Begin(t)
    /\ ret' = [ret EXCEPT ![t] = "success"]
    /\ own' = [own EXCEPT ![t] = "success"]
    /\ UNCHANGED <<tables, device, resources, cuda_err, pc, overtaken>>

\* ... and CUR_DEV.
GetDevice(t) ==
    /\ "cudaGetDevice" \in Calls
    /\ Begin(t)
    /\ ret' = [ret EXCEPT ![t] = "success"]
    /\ own' = [own EXCEPT ![t] = "success"]
    /\ UNCHANGED <<tables, device, resources, cuda_err, pc, overtaken>>

\* A function of the local library: its error goes to the caller and not to
\* cuda_err (cudaErrorDL, cudaErrorUnknown, when dlsym() fails).
PassPlain(t, f) ==
    /\ f \in PassThrough
    /\ Begin(t)
    /\ \E e \in {"success", "unknown"} :
         /\ ret' = [ret EXCEPT ![t] = e]
         /\ own' = [own EXCEPT ![t] = e]
    /\ UNCHANGED <<tables, device, resources, cuda_err, pc, overtaken>>

Call(t) ==
    \/ \E f \in Calls : ForwardPlain(t, f)
    \/ \E f \in Calls : ForwardMake(t, f)
    \/ \E f \in Calls : PassPlain(t, f)
    \/ AskDevice(t)
    \/ GetLastError(t)
    \/ GetDeviceCount(t)
    \/ GetDevice(t)

Finished ==
    /\ Ready
    /\ \A t \in Threads : pc[t] = "idle" /\ calls[t] = MaxCalls
    /\ UNCHANGED vars

Next ==
    \/ \E i \in Nodes : \E c \in {0, PerNode[i]} : CountDevices(i, c)
    \/ \E t \in Threads :
         \/ Call(t) \/ Return(t)
         \/ \E d \in Answers : GotDevice(t, d)
         \/ NoDevice(t) \/ SentDevice(t) \/ UnsentDevice(t) \/ SetReturns(t)
    \/ Finished

Spec == Init /\ [][Next]_vars

-----------------------------------------------------------------------------
(* The device tables built by __cudaRegisterFatBinary number the devices of *)
(* all nodes without gap and without overlap: device k is device            *)
(* DEV_TO_LOCALDEV[k] of node DEV_TO_INDEX[k], every device of every node   *)
(* has a number, and first_local is the first device of the local node.     *)
TablesInverse ==
    Ready =>
      /\ \A k \in 0 .. BACKEND_DEVICES - 1 :
           k = Before(DEVICES_IN_NODE, DEV_TO_INDEX[k]) + DEV_TO_LOCALDEV[k]
      /\ \A i \in Nodes : \A l \in 0 .. DEVICES_IN_NODE[i] - 1 :
           \E k \in 0 .. BACKEND_DEVICES - 1 :
             DEV_TO_INDEX[k] = i /\ DEV_TO_LOCALDEV[k] = l
      /\ DEVICES_IN_NODE[FirstNode] > 0 =>
           /\ first_local < BACKEND_DEVICES
           /\ DEV_TO_INDEX[first_local] = FirstNode
           /\ DEV_TO_LOCALDEV[first_local] = 0

(* A call returns the error its own stub stored in cuda_err, unless a stub  *)
(* of another thread stored there between the store and the return.  With   *)
(* one thread every error is reported to the call that failed.              *)
ErrorIsOwn ==
    \A t \in Threads : pc[t] = "idle" /\ ~ overtaken[t] => ret[t] = own[t]

(* The current device of a thread is one of the tables, with two            *)
(* exceptions: the global scheduler left the cudaSetDevice that set it       *)
(* unanswered (then it is the number of devices), or answered with a device  *)
(* of another application, whose count it has taken for the global one.      *)
(* Then the thread works with device 0 of node 0, which is what the unused   *)
(* table entries hold, and cudaGetDevice returns a number that is no device. *)
DeviceKnown ==
    \A t \in Threads :
      Ready /\ BACKEND_DEVICES > 0 =>
        \/ CUR_DEV[t] < BACKEND_DEVICES
        \/ /\ ~ chosen[t]
           /\ DEV_TO_INDEX[CUR_DEV[t]] = 0 /\ DEV_TO_LOCALDEV[CUR_DEV[t]] = 0

(* The calls of a thread go to the node, and its allocations to the device, *)
(* that the backend was told by the thread's last cudaSetDevice, unless     *)
(* that call decided by the error of another thread's call.                 *)
RoutedToBound ==
    \A t \in Threads :
      pc[t] \notin {"set"} /\ bound[t] # Unbound /\ ~ split[t] =>
        bound[t] = <<Route(t), DEV_TO_LOCALDEV[CUR_DEV[t]]>>

(* A thread that sets no device after its first allocation stays on the     *)
(* node where its memory is, whatever the other threads set, and whichever   *)
(* calls fail.                                                               *)
StaysWithMemory ==
    \A t \in Threads : ~ late[t] => \A n \in res[t] : n = Route(t)

=============================================================================

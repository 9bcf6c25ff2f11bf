---------------------------- MODULE GlobalSched ----------------------------
(***************************************************************************)
(* The global scheduler: Global_Sched/global_sched.c accepts connections,  *)
(* runs one handle_req thread for each, and answers CUDA_GET_DEVICE with   *)
(* the device the application should use (nvbackCudaGetDevice_srv and the  *)
(* get_next_device... policies of remote/remote_api_wrapper.c).  When the  *)
(* connection ends the thread gives its device back                        *)
(* (dec_thread_count_per_device).  The threads share BACKEND_DEVICES,      *)
(* DEV_RR and thread_count_per_device; only the last two are accessed      *)
(* under the mutex MU.                                                     *)
(*                                                                         *)
(* A critical section under MU makes no other shared access and never      *)
(* waits, so it is one step.  The policy in force is the one               *)
(* nvbackCudaGetDevice_srv calls: get_next_device_RR in the shipped build; *)
(* the others replace it by moving a comment.  L2_FEEDBACK_ENABLED is not  *)
(* defined, so the tables the feedback policies look at keep their initial *)
(* values: no data was ever received.                                      *)
(***************************************************************************)
EXTENDS Integers, FiniteSets

CONSTANTS
    Threads,      \* connections, each with its handle_req thread
    MaxDevices,   \* devices a client can count (its MAX_BACKEND_DEVICES, 1000)
    MaxCounted,   \* size of thread_count_per_device (the scheduler's, 100)
    Weights,      \* size of gpu_weight and of the rows of gpu_utilization (4)
    DevicesOf,    \* the number of devices the client of a thread knows of
    LocalOf,      \* first_local of that client
    AppOf,        \* the application type it sends along
    Weight,       \* gpu_weight, scaled to integers
    M,            \* the counters are ints: -M .. M - 1
    Policies,     \* the policies a build may choose from
    MaxGets       \* bound: CUDA_GET_DEVICE requests on a connection

AllPolicies ==
    {"RR", "least", "weighted", "local_pref", "execution_time", "async_memcpy", "utilization"}

ASSUME GlobalSchedAssumption ==
    /\ MaxDevices \in Nat /\ MaxCounted \in 1 .. MaxDevices /\ Weights \in 1 .. MaxCounted
    /\ DevicesOf \in [Threads -> 0 .. MaxDevices]
    /\ LocalOf \in [Threads -> 0 .. MaxDevices - 1]
    /\ AppOf \in [Threads -> {0, 1}]
    /\ Weight \in [0 .. Weights - 1 -> Nat \ {0}]
    /\ M \in Nat \ {0}
    /\ Policies \subseteq AllPolicies
    /\ MaxGets \in [Threads -> Nat]

Devices == 0 .. MaxDevices - 1
Counted == 0 .. MaxCounted - 1
Ints == - M .. M - 1
NoDevice == -1

VARIABLES
    policy,           \* the policy compiled in
    alive,            \* the scheduler process runs, its memory intact
    wild,             \* an entry past the end of a table was read or written
    BACKEND_DEVICES,  \* number of devices, as the last request told it
    DEV_RR,           \* next device of the round robin
    thread_count,     \* thread_count_per_device
    pc,               \* where the thread of a connection is
    assigned,         \* its DEVICE_ASSIGNED (thread-specific), or NoDevice
    gets,             \* its number of requests
    handed            \* how often a device was handed out since the start

vars == <<policy, alive, wild, BACKEND_DEVICES, DEV_RR, thread_count, pc, assigned, gets, handed>>

TypeOK ==
    /\ policy \in AllPolicies
    /\ alive \in BOOLEAN
    /\ wild \in BOOLEAN
    /\ BACKEND_DEVICES \in 0 .. MaxDevices
    /\ DEV_RR \in Devices
    /\ thread_count \in [Counted -> Ints]
    /\ pc \in [Threads -> {"none", "wait", "store", "pick", "reply", "done"}]
    /\ assigned \in [Threads -> Devices \cup {NoDevice}]
    /\ gets \in [Threads -> Nat]
    /\ handed \in [Devices -> Nat]

Init ==
    /\ policy \in Policies
    /\ alive = TRUE
    /\ wild = FALSE
    /\ BACKEND_DEVICES = 0
    /\ DEV_RR = 0
    /\ thread_count = [d \in Counted |-> 0]
    /\ pc = [t \in Threads |-> "none"]
    /\ assigned = [t \in Threads |-> NoDevice]
    /\ gets = [t \in Threads |-> 0]
    /\ handed = [d \in Devices |-> 0]

-----------------------------------------------------------------------------
(* A connection is accepted, asks for a device and gets it.                 *)

Connect(t) ==
    /\ alive
    /\ pc[t] = "none"
    /\ pc' = [pc EXCEPT ![t] = "wait"]
    /\ UNCHANGED <<policy, alive, wild, BACKEND_DEVICES, DEV_RR, thread_count, assigned, gets, handed>>

\* A CUDA_GET_DEVICE packet has been received.
Receive(t) ==
    /\ alive
    /\ pc[t] = "wait"
    /\ gets[t] < MaxGets[t]
    /\ gets' = [gets EXCEPT ![t] = @ + 1]
    /\ pc' = [pc EXCEPT ![t] = "store"]
    /\ UNCHANGED <<policy, alive, wild, BACKEND_DEVICES, DEV_RR, thread_count, assigned, handed>>

\* The number of devices is taken from the packet, without the mutex and
\* without a look at the size of the tables.
Store(t) ==
    /\ alive
    /\ pc[t] = "store"
    /\ BACKEND_DEVICES' = DevicesOf[t]
    /\ pc' = [pc EXCEPT ![t] = "pick"]
    /\ UNCHANGED <<policy, alive, wild, DEV_RR, thread_count, assigned, gets, handed>>

Assign(t, d) ==
    /\ assigned' = [assigned EXCEPT ![t] = d]
    /\ handed' = [handed EXCEPT ![d] = @ + 1]
    /\ pc' = [pc EXCEPT ![t] = "reply"]

\* Wrong variant of PickRR: the round is one device too short.
PickRRShort(t) ==
    /\ alive
    /\ pc[t] = "pick"
    /\ policy = "RR"
    /\ BACKEND_DEVICES > 1
    /\ DEV_RR' = (DEV_RR + 1) % (BACKEND_DEVICES - 1)
    /\ Assign(t, DEV_RR)
    /\ UNCHANGED <<policy, alive, wild, BACKEND_DEVICES, thread_count, gets>>

\* get_next_device_RR.  The modulus is zero when no devices are known.
PickRR(t) ==
    /\ alive
    /\ pc[t] = "pick"
    /\ policy = "RR"
    /\ BACKEND_DEVICES > 0
    /\ DEV_RR' = (DEV_RR + 1) % BACKEND_DEVICES
    /\ Assign(t, DEV_RR)
    /\ UNCHANGED <<policy, alive, wild, BACKEND_DEVICES, thread_count, gets>>

PickRRDivides(t) ==
    /\ alive
    /\ pc[t] = "pick"
    /\ policy = "RR"
    /\ BACKEND_DEVICES = 0
    /\ alive' = FALSE
    /\ UNCHANGED <<policy, wild, BACKEND_DEVICES, DEV_RR, thread_count, pc, assigned, gets, handed>>

WeightedPolicies == {"weighted", "async_memcpy", "utilization"}

\* The entries of the tables the policy in force looks at.
TableSize == IF policy \in WeightedPolicies THEN Weights ELSE MaxCounted
Table == 0 .. TableSize - 1

\* The other policies scan the devices for the smallest cost and keep the
\* first one they meet.  The scan of get_next_device_local_pref starts at the
\* client's own device and wraps at BACKEND_DEVICES.
Start(t) == IF policy = "local_pref" THEN LocalOf[t] ELSE 0

\* Wrong variant of Scanned: one device too many.
ScannedTooFar(t) == {Start(t)} \cup 0 .. BACKEND_DEVICES

Scanned(t) ==
    IF Start(t) < BACKEND_DEVICES
    THEN 0 .. BACKEND_DEVICES - 1
    ELSE {Start(t)} \cup 0 .. BACKEND_DEVICES - 2

ScanRank(t, d) ==
    IF Start(t) < BACKEND_DEVICES
    THEN (d - Start(t)) % BACKEND_DEVICES
    ELSE IF d = Start(t) THEN 0 ELSE d + 1

\* Wrong variant of Cost: gpu_weight is forgotten.
CostUnweighted(d) == thread_count[d]

\* The cost of a device the tables have an entry for.
Cost(d) == thread_count[d] * (IF policy \in WeightedPolicies THEN Weight[d] ELSE 1)

\* What the scan may return: the cheapest device of the tables, or any that
\* is past their end, whose cost is whatever lies in memory there.
Cheapest(t) ==
    {d \in Scanned(t) :
       d \in Table => \A e \in Scanned(t) \cap Table :
         \/ Cost(d) < Cost(e)
         \/ Cost(d) = Cost(e) /\ ScanRank(t, d) <= ScanRank(t, e)}

\* What a connection may count for.  get_next_weighted_device_overall_utilization_feedback
\* divides the two utilizations of the device, which are 0 but for device 0:
\* the quotient is no number, and as an int it is the smallest one.  It
\* counts for the application type that is not less, which is 0.  Past the
\* tables the quotient may be any.
Charge(t, d) ==
    IF policy # "utilization" \/ d = 0 THEN {1}
    ELSE IF d >= Weights THEN Ints
    ELSE IF AppOf[t] = 0 THEN {- M} ELSE {1}

\* Addition of ints.
Add(x, y) == ((x + y + M) % (2 * M)) - M

\* get_next_device, get_next_weighted_device, get_next_device_local_pref and
\* the feedback policies, which have received no data.
PickCheapest(t) ==
    /\ alive
    /\ pc[t] = "pick"
    /\ policy # "RR"
    /\ \E d \in Cheapest(t) \cap Counted : \E n \in Charge(t, d) :
         /\ thread_count' = [thread_count EXCEPT ![d] = Add(@, n)]
         /\ Assign(t, d)
    /\ wild' = (wild \/ ~ (Scanned(t) \subseteq Table))
    /\ UNCHANGED <<policy, alive, BACKEND_DEVICES, DEV_RR, gets>>

\* The device that was picked has no counter: whatever lies in memory there is
\* incremented, and what the process does after that is anybody's guess.
PickOverruns(t) ==
    /\ alive
    /\ pc[t] = "pick"
    /\ policy # "RR"
    /\ Cheapest(t) \ Counted # {}
    /\ alive' = FALSE
    /\ wild' = TRUE
    /\ UNCHANGED <<policy, BACKEND_DEVICES, DEV_RR, thread_count, pc, assigned, gets, handed>>

\* The response is sent; the thread waits for the next request.
Reply(t) ==
    /\ alive
    /\ pc[t] = "reply"
    /\ pc' = [pc EXCEPT ![t] = "wait"]
    /\ UNCHANGED <<policy, alive, wild, BACKEND_DEVICES, DEV_RR, thread_count, assigned, gets, handed>>

-----------------------------------------------------------------------------
(* The connection ends: get() or put() failed, the loop is left, and        *)
(* dec_thread_count_per_device follows DEVICE_ASSIGNED without a test.      *)

\* Wrong variant of Close: the device is not given back.
CloseKeeps(t) ==
    /\ alive
    /\ pc[t] \in {"wait", "reply"}
    /\ assigned[t] # NoDevice
    /\ pc' = [pc EXCEPT ![t] = "done"]
    /\ UNCHANGED <<policy, alive, wild, BACKEND_DEVICES, DEV_RR, thread_count, assigned, gets, handed>>

Close(t) ==
    /\ alive
    /\ pc[t] \in {"wait", "reply"}
    /\ assigned[t] \in Counted
    /\ thread_count' = [thread_count EXCEPT ![assigned[t]] = Add(@, -1)]
    /\ pc' = [pc EXCEPT ![t] = "done"]
    /\ UNCHANGED <<policy, alive, wild, BACKEND_DEVICES, DEV_RR, assigned, gets, handed>>

\* The device has no counter: see PickOverruns.
CloseOverruns(t) ==
    /\ alive
    /\ pc[t] \in {"wait", "reply"}
    /\ assigned[t] \in Devices \ Counted
    /\ alive' = FALSE
    /\ wild' = TRUE
    /\ pc' = [pc EXCEPT ![t] = "done"]
    /\ UNCHANGED <<policy, BACKEND_DEVICES, DEV_RR, thread_count, assigned, gets, handed>>

CloseUnassigned(t) ==
    /\ alive
    /\ pc[t] = "wait"
    /\ assigned[t] = NoDevice
    /\ alive' = FALSE
    /\ pc' = [pc EXCEPT ![t] = "done"]
    /\ UNCHANGED <<policy, wild, BACKEND_DEVICES, DEV_RR, thread_count, assigned, gets, handed>>

\* Nothing is left to do.
Terminated ==
    /\ ~ alive \/ \A t \in Threads : pc[t] = "done"
    /\ UNCHANGED vars

Next ==
    \/ \E t \in Threads :
         \/ Connect(t) \/ Receive(t) \/ Store(t)
         \/ PickRR(t) \/ PickRRDivides(t) \/ PickCheapest(t) \/ PickOverruns(t)
         \/ Reply(t) \/ Close(t) \/ CloseOverruns(t) \/ CloseUnassigned(t)
    \/ Terminated

Spec == Init /\ [][Next]_vars

-----------------------------------------------------------------------------
(* Properties.                                                              *)

\* The threads bound to a device and not yet finished.
Bound(d) == {t \in Threads : assigned[t] = d /\ pc[t] # "done"}

\* The clients that have asked so far know the same devices; each asked once.
Asked == {t \in Threads : gets[t] > 0}
Agree == \A t, u \in Asked : DevicesOf[t] = DevicesOf[u]
AskedOnce == \A t \in Threads : gets[t] <= 1

\* Round robin hands every device out equally often, up to one, whatever the
\* interleaving of the threads, as long as the clients that have asked know
\* the same devices.
Balanced ==
    policy = "RR" /\ Agree =>
      \A t \in Asked : \A d, e \in 0 .. DevicesOf[t] - 1 : handed[d] <= handed[e] + 1

\* A client that has devices is given one it knows of, as long as the clients
\* that have asked know the same devices: cudaSetDevice uses the answer as an
\* index into DEV_TO_INDEX.
KnownDevice ==
    Agree => \A t \in Threads : assigned[t] # NoDevice /\ DevicesOf[t] > 0 =>
               assigned[t] < DevicesOf[t]

\* Policies that count every connection as one.
CountingPolicies == AllPolicies \ {"RR", "utilization"}

\* The counters of the counting policies are the numbers of threads bound to
\* the devices, as long as each connection asked once.
CountsThreads ==
    policy \in CountingPolicies /\ AskedOnce =>
      \A d \in Counted : thread_count[d] = Cardinality(Bound(d))

\* A client that has devices, no more than the tables have entries, its own
\* among them.
Fits(t) ==
    /\ DevicesOf[t] \in 1 .. TableSize
    /\ policy = "local_pref" => LocalOf[t] < DevicesOf[t]

\* A counting policy never hands out a device while another one the client
\* knows is cheaper by the threads really bound to it.  That is so as long as
\* each connection asked once, the clients that have asked agree on the
\* devices (BACKEND_DEVICES is the number of whoever stored last, and a scan
\* that starts past it leaves the last device out) and the client fits the
\* tables.
Load(d) == Cardinality(Bound(d)) * (IF policy \in WeightedPolicies THEN Weight[d] ELSE 1)

PicksLeastLoaded ==
    [][\A t \in Threads :
         /\ policy \in CountingPolicies /\ AskedOnce /\ Agree /\ Fits(t)
         /\ pc[t] = "pick" /\ pc'[t] = "reply"
         => \A e \in 0 .. DevicesOf[t] - 1 : Load(assigned'[t]) <= Load(e)]_vars

\* Clients that fit the tables, however many devices each knows and whatever
\* the order of their requests, never make the scheduler read or write past
\* the end of a table or divide by zero: one that was given a device by the
\* round robin of another's number, or is scanned for up to it, still finds
\* its counter.  The process then dies only of a connection that ended before
\* it was given a device.
FittingClientsHarmless ==
    (\A t \in Asked : Fits(t)) =>
      ~ wild /\ (alive \/ \E t \in Threads : pc[t] = "done" /\ assigned[t] = NoDevice)

=============================================================================

------------------------------ MODULE LasSched ------------------------------
(***************************************************************************)
(* The least-attained-service scheduler (build option SCHED_LAS): the      *)
(* listener and control threads of l2scheduler/las_scheduler.c, one of     *)
(* each per GPU, and the backend processes that talk to them with the las_ *)
(* functions of backend/libl2scheduler.c.  A process registers when its    *)
(* application sets a device, reports the time of every call it executes,  *)
(* fetches its priority before every call, and deregisters at the end.     *)
(*                                                                         *)
(* The threads share Scheduler_Data.  las_lock protects execution_time and *)
(* priority only; registration takes no lock, so each of its statements is *)
(* a step, and each reads polling_thread_count anew.  Messages go through  *)
(* one FIFO per listener, which the processes write one at a time (semid), *)
(* and one FIFO per process for the replies.  A local variable that is     *)
(* not read again is set back to its first value, to keep states few.      *)
(***************************************************************************)
EXTENDS Integers, Sequences, FiniteSetsExt

CONSTANTS
    Procs,      \* backend processes
    NumGpus,    \* num_gpus of las_start_scheduler
    N,          \* MAX_CONTROLLER_COUNT
    Costs,      \* times a call may take
    Mortal,     \* bound: the processes that may be killed
    FifoCap,    \* bound: messages a listener's FIFO holds
    MaxReqs     \* bound: requests the processes serve together

None == "none"          \* INVALID_PROCEESS; no process holds the semaphore
NoGpu == -1             \* running_gpu = -1; no control thread holds las_lock
NoIndex == -1

ASSUME LasAssumption ==
    /\ None \notin Procs
    /\ NumGpus \in Nat \ {0}
    /\ N \in Nat \ {0}
    /\ Costs \subseteq Nat
    /\ Mortal \subseteq Procs
    /\ FifoCap \in Nat \ {0}
    /\ MaxReqs \in Nat

GPUs == 0 .. NumGpus - 1
Slots == 0 .. N - 1

\* Nice values: PRIORITY_HIGH, what a new slot is given, PRIORITY_NORMAL.
HIGH == -20
FRESH == 0
NORMAL == 19
Priorities == {HIGH, FRESH, NORMAL}

VARIABLES
    process_list, valid, gpu_binding, priority, execution_time,
    count,      \* polling_thread_count
    inherited,  \* the time its slot held when a process got it (history)
    las_lock,   \* the control thread that holds it, or NoGpu
    lpc,        \* where the listener of a GPU is
    pcd,        \* the message it handles
    lidx,       \* idx of las_register_process
    kpc,        \* where the control thread of a GPU is
    minval,     \* its minval
    sem,        \* the process that holds semid, or None
    fifo,       \* the FIFO of a listener
    reply,      \* the FIFO of a process
    ppc,        \* where a process is in the loop of backend_thread
    device,     \* the device its current request sets, or NoGpu
    signo,      \* what las_add_queue returned for it
    running_gpu, index,
    reqs,       \* requests received so far, by all processes
    served,     \* the time it has reported (history)
    broken      \* what went wrong so far, see below (history)

slots == <<process_list, valid, gpu_binding, priority, execution_time, count, inherited>>
listeners == <<lpc, pcd, lidx>>
controls == <<kpc, minval, las_lock>>
procs == <<ppc, device, signo, running_gpu, index, reqs, served>>
vars == <<slots, listeners, controls, sem, fifo, reply, procs, broken>>

\* arg is the GPU of ADD_Q, the time of NOTIFY_SCHED, the index of GET_PRIORITY.
Actions == {"ADD_Q", "REM_Q", "NOTIFY_SCHED", "GET_PRIORITY"}
Message == [pid : Procs, action : Actions, arg : Nat]
NoMessage == [pid |-> None, action |-> "none", arg |-> 0]

\* What the scheduler does not survive intact: two registrations at a time, a
\* registration in a slot that is in use, a polling_thread_count that starts
\* again at 0, a listener that clears the flags when processes are already
\* registered, a process that dies inside a las_ call.
Mishaps == {"overlap", "reuse", "wrap", "late start", "crash"}

Registering == {"reg_pid", "reg_valid", "reg_gpu", "reg_priority", "reg_index", "reg_count"}
Sending == {"add_send", "notify_send", "priority_send", "rem_send"}
Reading == {"add_read", "priority_read"}

TypeOK ==
    /\ process_list \in [Slots -> Procs \cup {None}]
    /\ valid \in [Slots -> BOOLEAN]
    /\ gpu_binding \in [Slots -> GPUs]
    /\ priority \in [Slots -> Priorities]
    /\ execution_time \in [Slots -> Nat]
    /\ count \in Slots
    /\ inherited \in [Procs -> Nat]
    /\ las_lock \in GPUs \cup {NoGpu}
    /\ lpc \in [GPUs -> {"start", "mapped", "read", "reply_index", "reply_priority"} \cup Registering]
    /\ pcd \in [GPUs -> Message \cup {NoMessage}]
    /\ lidx \in [GPUs -> Slots]
    /\ kpc \in [GPUs -> {"sleep", "scan", "mark"}]
    /\ minval \in [GPUs -> Nat]
    /\ sem \in Procs \cup {None}
    /\ fifo \in [GPUs -> Seq(Message)]
    /\ reply \in [Procs -> Seq(Priorities \cup Slots)]
    /\ ppc \in [Procs -> {"serve", "add", "add_lost", "notify", "priority", "rem", "gone", "dead"}
                           \cup Sending \cup Reading]
    /\ device \in [Procs -> GPUs \cup {NoGpu}]
    /\ signo \in [Procs -> Slots \cup {NoIndex}]
    /\ running_gpu \in [Procs -> GPUs \cup {NoGpu}]
    /\ index \in [Procs -> Slots \cup {NoIndex}]
    /\ reqs \in Nat
    /\ served \in [Procs -> Nat]
    /\ broken \subseteq Mishaps

Init ==
    /\ process_list = [i \in Slots |-> None]
    /\ valid = [i \in Slots |-> FALSE]
    /\ gpu_binding = [i \in Slots |-> 0]
    /\ priority = [i \in Slots |-> FRESH]
    /\ execution_time = [i \in Slots |-> 0]
    /\ count = 0
    /\ inherited = [p \in Procs |-> 0]
    /\ las_lock = NoGpu
    /\ lpc = [g \in GPUs |-> "start"]
    /\ pcd = [g \in GPUs |-> NoMessage]
    /\ lidx = [g \in GPUs |-> 0]
    /\ kpc = [g \in GPUs |-> "sleep"]
    /\ minval = [g \in GPUs |-> 0]
    /\ sem = None
    /\ fifo = [g \in GPUs |-> <<>>]
    /\ reply = [p \in Procs |-> <<>>]
    /\ ppc = [p \in Procs |-> "serve"]
    /\ device = [p \in Procs |-> NoGpu]
    /\ signo = [p \in Procs |-> NoIndex]
    /\ running_gpu = [p \in Procs |-> NoGpu]
    /\ index = [p \in Procs |-> NoIndex]
    /\ reqs = 0
    /\ served = [p \in Procs |-> 0]
    /\ broken = {}

-----------------------------------------------------------------------------
(* A backend process.                                                       *)

\* A request to set a device: las_add_queue is called by its handler.
ServeSetDevice(p, g) ==
    /\ ppc[p] = "serve"
    /\ reqs < MaxReqs
    /\ reqs' = reqs + 1
    /\ device' = [device EXCEPT ![p] = g]
    /\ ppc' = [ppc EXCEPT ![p] = "add"]
    /\ UNCHANGED <<slots, listeners, controls, sem, fifo, reply, signo, running_gpu, index,
                   served, broken>>

\* Any other request is received and executed.
ServeCall(p) ==
    /\ ppc[p] = "serve"
    /\ reqs < MaxReqs
    /\ reqs' = reqs + 1
    /\ device' = [device EXCEPT ![p] = NoGpu]
    /\ ppc' = [ppc EXCEPT ![p] = "notify"]
    /\ UNCHANGED <<slots, listeners, controls, sem, fifo, reply, signo, running_gpu, index,
                   served, broken>>

\* The connection ends; las_rem_queue returns at once if no device was set.
Close(p) ==
    /\ ppc[p] = "serve"
    /\ ppc' = [ppc EXCEPT ![p] = IF running_gpu[p] = NoGpu THEN "gone" ELSE "rem"]
    /\ UNCHANGED <<slots, listeners, controls, sem, fifo, reply, device, signo, running_gpu,
                   index, reqs, served, broken>>

\* P(semid).
Wait(p, from, to) ==
    /\ ppc[p] = from
    /\ sem = None
    /\ sem' = p
    /\ ppc' = [ppc EXCEPT ![p] = to]
    /\ UNCHANGED <<slots, listeners, controls, fifo, reply, device, signo, running_gpu, index,
                   reqs, served, broken>>

\* las_add_queue found the line of the listener of its GPU in the mapping file.
\* open(O_WRONLY) waits until the listener has opened its FIFO.
AddWait(p) ==
    ppc[p] = "add" /\ lpc[device[p]] \notin {"start", "mapped"} /\ Wait(p, "add", "add_send")

\* The file is read before the line is written: the path is LISTEN_PATH alone,
\* which nobody makes, open and write fail, and nothing is sent.  The read that
\* follows waits for ever.
AddLost(p) ==
    /\ ppc[p] = "add"
    /\ lpc[device[p]] = "start"
    /\ ppc' = [ppc EXCEPT ![p] = "add_lost"]
    /\ UNCHANGED <<slots, listeners, controls, sem, fifo, reply, device, signo, running_gpu,
                   index, reqs, served, broken>>

\* No listener has written its line: there is no file to read, and feof(NULL)
\* ends the process.
AddCrash(p) ==
    /\ ppc[p] = "add"
    /\ \A g \in GPUs : lpc[g] = "start"
    /\ ppc' = [ppc EXCEPT ![p] = "dead"]
    /\ UNCHANGED <<slots, listeners, controls, sem, fifo, reply, device, signo, running_gpu,
                   index, reqs, served, broken>>
NotifyWait(p) == running_gpu[p] # NoGpu /\ Wait(p, "notify", "notify_send")
PriorityWait(p) == Wait(p, "priority", "priority_send")
RemWait(p) == Wait(p, "rem", "rem_send")

\* write() to the listener of g, which waits while the FIFO is full.
Write(g, msg) ==
    /\ Len(fifo[g]) < FifoCap
    /\ fifo' = [fifo EXCEPT ![g] = Append(@, msg)]

\* The rest of las_add_queue: the semaphore is released before the read.
AddSend(p) ==
    /\ ppc[p] = "add_send"
    /\ Write(device[p], [pid |-> p, action |-> "ADD_Q", arg |-> device[p]])
    /\ sem' = None
    /\ ppc' = [ppc EXCEPT ![p] = "add_read"]
    /\ UNCHANGED <<slots, listeners, controls, reply, device, signo, running_gpu, index, reqs,
                   served, broken>>

AddRead(p) ==
    /\ ppc[p] = "add_read"
    /\ reply[p] # <<>>
    /\ signo' = [signo EXCEPT ![p] = Head(reply[p])]
    /\ reply' = [reply EXCEPT ![p] = Tail(@)]
    /\ ppc' = [ppc EXCEPT ![p] = "notify"]
    /\ UNCHANGED <<slots, listeners, controls, sem, fifo, device, running_gpu, index, reqs,
                   served, broken>>

\* What follows las_notify_scheduler: the new device is recorded, and the
\* loop begins again, with las_get_priority if the process is registered.
Loop(p) ==
    /\ index' = IF device[p] = NoGpu THEN index ELSE [index EXCEPT ![p] = signo[p]]
    /\ running_gpu' = IF device[p] = NoGpu THEN running_gpu
                      ELSE [running_gpu EXCEPT ![p] = device[p]]
    /\ device' = [device EXCEPT ![p] = NoGpu]
    /\ signo' = [signo EXCEPT ![p] = NoIndex]
    /\ ppc' = [ppc EXCEPT ![p] = IF index'[p] = NoIndex THEN "serve" ELSE "priority"]

\* las_notify_scheduler with no device.
NotifySkip(p) ==
    /\ ppc[p] = "notify"
    /\ running_gpu[p] = NoGpu
    /\ Loop(p)
    /\ UNCHANGED <<slots, listeners, controls, sem, fifo, reply, reqs, served, broken>>

NotifySend(p) ==
    /\ ppc[p] = "notify_send"
    /\ \E t \in Costs :
         /\ Write(running_gpu[p], [pid |-> p, action |-> "NOTIFY_SCHED", arg |-> t])
         /\ served' = [served EXCEPT ![p] = @ + t]
    /\ sem' = None
    /\ Loop(p)
    /\ UNCHANGED <<slots, listeners, controls, reply, reqs, broken>>

\* las_get_priority keeps the semaphore until it has the reply.
PrioritySend(p) ==
    /\ ppc[p] = "priority_send"
    /\ Write(running_gpu[p], [pid |-> p, action |-> "GET_PRIORITY", arg |-> index[p]])
    /\ ppc' = [ppc EXCEPT ![p] = "priority_read"]
    /\ UNCHANGED <<slots, listeners, controls, sem, reply, device, signo, running_gpu, index,
                   reqs, served, broken>>

\* Wrong variant of PriorityRead: V(semid) is forgotten.
PriorityReadKeeps(p) ==
    /\ ppc[p] = "priority_read"
    /\ reply[p] # <<>>
    /\ reply' = [reply EXCEPT ![p] = Tail(@)]
    /\ ppc' = [ppc EXCEPT ![p] = "serve"]
    /\ UNCHANGED <<slots, listeners, controls, sem, fifo, device, signo, running_gpu, index, reqs,
                   served, broken>>

PriorityRead(p) ==
    /\ ppc[p] = "priority_read"
    /\ reply[p] # <<>>
    /\ reply' = [reply EXCEPT ![p] = Tail(@)]
    /\ sem' = None
    /\ ppc' = [ppc EXCEPT ![p] = "serve"]
    /\ UNCHANGED <<slots, listeners, controls, fifo, device, signo, running_gpu, index, reqs,
                   served, broken>>

RemSend(p) ==
    /\ ppc[p] = "rem_send"
    /\ Write(running_gpu[p], [pid |-> p, action |-> "REM_Q", arg |-> 0])
    /\ sem' = None
    /\ ppc' = [ppc EXCEPT ![p] = "gone"]
    /\ UNCHANGED <<slots, listeners, controls, reply, device, signo, running_gpu, index, reqs,
                   served, broken>>

\* The process is killed: it does not deregister, and a semaphore it holds
\* stays taken (semop without SEM_UNDO).
Die(p) ==
    /\ p \in Mortal
    /\ ppc[p] \notin {"gone", "dead"}
    /\ ppc' = [ppc EXCEPT ![p] = "dead"]
    /\ broken' = IF ppc[p] \in Sending \cup Reading THEN broken \cup {"crash"} ELSE broken
    /\ UNCHANGED <<slots, listeners, controls, sem, fifo, reply, device, signo, running_gpu,
                   index, reqs, served>>

ProcStep(p) ==
    \/ AddLost(p) \/ AddCrash(p) \/ AddWait(p) \/ AddSend(p) \/ AddRead(p)
    \/ NotifySkip(p) \/ NotifyWait(p) \/ NotifySend(p)
    \/ PriorityWait(p) \/ PrioritySend(p) \/ PriorityRead(p)
    \/ RemWait(p) \/ RemSend(p)

-----------------------------------------------------------------------------
(* The listener of GPU g.                                                   *)

\* A listener that starts appends its line to the mapping file.
WriteMapping(g) ==
    /\ lpc[g] = "start"
    /\ lpc' = [lpc EXCEPT ![g] = "mapped"]
    /\ UNCHANGED <<slots, pcd, lidx, controls, sem, fifo, reply, procs, broken>>

\* It clears the flag of every slot, and opens its FIFO.
Start(g) ==
    /\ lpc[g] = "mapped"
    /\ valid' = [i \in Slots |-> FALSE]
    /\ lpc' = [lpc EXCEPT ![g] = "read"]
    /\ broken' = IF \E i \in Slots : process_list[i] # None THEN broken \cup {"late start"}
                 ELSE broken
    /\ UNCHANGED <<process_list, gpu_binding, priority, execution_time, count, inherited, pcd,
                   lidx, controls, sem, fifo, reply, procs>>

\* las_already_added: on any GPU.
AlreadyAdded(p) == \E i \in Slots : process_list[i] = p

\* The slot of p that the listener of g finds first.
Mine(p, g) == {i \in Slots : process_list[i] = p /\ gpu_binding[i] = g}
First(S) == CHOOSE i \in S : \A j \in S : i <= j

Take(g, action) ==
    /\ lpc[g] = "read"
    /\ fifo[g] # <<>>
    /\ Head(fifo[g]).action = action
    /\ fifo' = [fifo EXCEPT ![g] = Tail(@)]

\* ADD_Q of a new process begins las_register_process.
TakeAdd(g) ==
    /\ Take(g, "ADD_Q")
    /\ ~ AlreadyAdded(Head(fifo[g]).pid)
    /\ pcd' = [pcd EXCEPT ![g] = Head(fifo[g])]
    /\ lpc' = [lpc EXCEPT ![g] = "reg_pid"]
    /\ broken' = IF \E h \in GPUs : lpc[h] \in Registering THEN broken \cup {"overlap"}
                 ELSE broken
    /\ UNCHANGED <<slots, lidx, controls, sem, reply, procs>>

\* ADD_Q of a known process is an "Illegal pcd": nothing is answered.
TakeAgain(g) ==
    /\ Take(g, "ADD_Q")
    /\ AlreadyAdded(Head(fifo[g]).pid)
    /\ UNCHANGED <<slots, listeners, controls, sem, reply, procs, broken>>

\* Wrong variant of TakeRem: only the flag is cleared.
TakeRemFlag(g) ==
    /\ Take(g, "REM_Q")
    /\ LET S == Mine(Head(fifo[g]).pid, g) IN
       IF S = {} THEN UNCHANGED valid
       ELSE valid' = [valid EXCEPT ![First(S)] = FALSE]
    /\ UNCHANGED <<process_list, gpu_binding, priority, execution_time, count, inherited, listeners,
                   controls, sem,
                   reply, procs, broken>>

TakeRem(g) ==
    /\ Take(g, "REM_Q")
    /\ LET S == Mine(Head(fifo[g]).pid, g) IN
       IF S = {} THEN UNCHANGED <<process_list, valid>>
       ELSE /\ process_list' = [process_list EXCEPT ![First(S)] = None]
            /\ valid' = [valid EXCEPT ![First(S)] = FALSE]
    /\ UNCHANGED <<gpu_binding, priority, execution_time, count, inherited, listeners, controls, sem,
                   reply, procs, broken>>

\* Wrong variant of TakeNotify: the last time replaces the sum.
TakeNotifyLast(g) ==
    /\ Take(g, "NOTIFY_SCHED")
    /\ LET S == Mine(Head(fifo[g]).pid, g) IN
       IF S = {} THEN UNCHANGED execution_time
       ELSE /\ las_lock = NoGpu
            /\ execution_time' = [execution_time EXCEPT ![First(S)] = Head(fifo[g]).arg]
    /\ UNCHANGED <<process_list, valid, gpu_binding, priority, count, inherited, listeners, controls, sem,
                   reply, procs, broken>>

\* The time is added under las_lock.
TakeNotify(g) ==
    /\ Take(g, "NOTIFY_SCHED")
    /\ LET S == Mine(Head(fifo[g]).pid, g) IN
       IF S = {} THEN UNCHANGED execution_time
       ELSE /\ las_lock = NoGpu
            /\ execution_time' = [execution_time EXCEPT ![First(S)] = @ + Head(fifo[g]).arg]
    /\ UNCHANGED <<process_list, valid, gpu_binding, priority, count, inherited, listeners, controls, sem,
                   reply, procs, broken>>

TakePriority(g) ==
    /\ Take(g, "GET_PRIORITY")
    /\ pcd' = [pcd EXCEPT ![g] = Head(fifo[g])]
    /\ lpc' = [lpc EXCEPT ![g] = "reply_priority"]
    /\ UNCHANGED <<slots, lidx, controls, sem, reply, procs, broken>>

\* The statements of las_register_process.
RegPid(g) ==
    /\ lpc[g] = "reg_pid"
    /\ process_list' = [process_list EXCEPT ![count] = pcd[g].pid]
    /\ lpc' = [lpc EXCEPT ![g] = "reg_valid"]
    /\ inherited' = [inherited EXCEPT ![pcd[g].pid] = execution_time[count]]
    /\ broken' = IF process_list[count] # None THEN broken \cup {"reuse"} ELSE broken
    /\ UNCHANGED <<valid, gpu_binding, priority, execution_time, count, pcd, lidx, controls,
                   sem, fifo, reply, procs>>

RegValid(g) ==
    /\ lpc[g] = "reg_valid"
    /\ valid' = [valid EXCEPT ![count] = TRUE]
    /\ lpc' = [lpc EXCEPT ![g] = "reg_gpu"]
    /\ UNCHANGED <<process_list, gpu_binding, priority, execution_time, count, inherited, pcd, lidx,
                   controls, sem, fifo, reply, procs, broken>>

RegGpu(g) ==
    /\ lpc[g] = "reg_gpu"
    /\ gpu_binding' = [gpu_binding EXCEPT ![count] = pcd[g].arg]
    /\ lpc' = [lpc EXCEPT ![g] = "reg_priority"]
    /\ UNCHANGED <<process_list, valid, priority, execution_time, count, inherited, pcd, lidx, controls,
                   sem, fifo, reply, procs, broken>>

RegPriority(g) ==
    /\ lpc[g] = "reg_priority"
    /\ priority' = [priority EXCEPT ![count] = FRESH]
    /\ lpc' = [lpc EXCEPT ![g] = "reg_index"]
    /\ UNCHANGED <<process_list, valid, gpu_binding, execution_time, count, inherited, pcd, lidx, controls,
                   sem, fifo, reply, procs, broken>>

\* Wrong variant of RegIndex: the index is taken after the increment.
RegIndexNext(g) ==
    /\ lpc[g] = "reg_index"
    /\ lidx' = [lidx EXCEPT ![g] = (count + 1) % N]
    /\ lpc' = [lpc EXCEPT ![g] = "reg_count"]
    /\ UNCHANGED <<slots, pcd, controls, sem, fifo, reply, procs, broken>>

RegIndex(g) ==
    /\ lpc[g] = "reg_index"
    /\ lidx' = [lidx EXCEPT ![g] = count]
    /\ lpc' = [lpc EXCEPT ![g] = "reg_count"]
    /\ UNCHANGED <<slots, pcd, controls, sem, fifo, reply, procs, broken>>

\* The increment races with the other listener: it may read the value of
\* polling_thread_count from now or from the statement before.
RegCount(g) ==
    /\ lpc[g] = "reg_count"
    /\ \E n \in {count, lidx[g]} : count' = (n + 1) % N
    /\ lpc' = [lpc EXCEPT ![g] = "reply_index"]
    /\ broken' = IF count' = 0 THEN broken \cup {"wrap"} ELSE broken
    /\ UNCHANGED <<process_list, valid, gpu_binding, priority, execution_time, inherited, pcd, lidx,
                   controls, sem, fifo, reply, procs>>

\* The reply.  open(O_WRONLY) waits for a reader: for ever if the process died.
Answer(g, from, val) ==
    /\ lpc[g] = from
    /\ ppc[pcd[g].pid] # "dead"
    /\ reply' = [reply EXCEPT ![pcd[g].pid] = Append(@, val)]
    /\ lpc' = [lpc EXCEPT ![g] = "read"]
    /\ pcd' = [pcd EXCEPT ![g] = NoMessage]
    /\ lidx' = [lidx EXCEPT ![g] = 0]
    /\ UNCHANGED <<slots, controls, sem, fifo, procs, broken>>

ReplyIndex(g) == Answer(g, "reply_index", lidx[g])
ReplyPriority(g) == lpc[g] = "reply_priority" /\ Answer(g, "reply_priority", priority[pcd[g].arg])

Listener(g) ==
    \/ WriteMapping(g) \/ Start(g)
    \/ TakeAdd(g) \/ TakeAgain(g) \/ TakeRem(g) \/ TakeNotify(g) \/ TakePriority(g)
    \/ RegPid(g) \/ RegValid(g) \/ RegGpu(g) \/ RegPriority(g) \/ RegIndex(g) \/ RegCount(g)
    \/ ReplyIndex(g) \/ ReplyPriority(g)

-----------------------------------------------------------------------------
(* The control thread of GPU g.                                             *)

\* An epoch begins: minval starts as the time of slot 0, whosever it is.
Wake(g) ==
    /\ kpc[g] = "sleep"
    /\ count # 0
    /\ minval' = [minval EXCEPT ![g] = execution_time[0]]
    /\ kpc' = [kpc EXCEPT ![g] = "scan"]
    /\ UNCHANGED <<slots, listeners, las_lock, sem, fifo, reply, procs, broken>>

\* polling_thread_count is 0: the epoch is skipped.
WakeSkip(g) ==
    /\ kpc[g] = "sleep"
    /\ count = 0
    /\ UNCHANGED vars

\* The slots the control thread of g looks at.
Seen(g) == {i \in Slots : gpu_binding[i] = g /\ valid[i]}

Smallest(S) == CHOOSE x \in S : \A y \in S : x <= y

\* Wrong variant of Scan: slots that are not in use count too.
ScanAll(g) ==
    /\ kpc[g] = "scan"
    /\ las_lock = NoGpu
    /\ las_lock' = g
    /\ minval' = [minval EXCEPT ![g] =
                     Smallest({@} \cup {execution_time[i] : i \in Slots})]
    /\ kpc' = [kpc EXCEPT ![g] = "mark"]
    /\ UNCHANGED <<slots, listeners, sem, fifo, reply, procs, broken>>

\* las_lock is taken; the first loop.
Scan(g) ==
    /\ kpc[g] = "scan"
    /\ las_lock = NoGpu
    /\ las_lock' = g
    /\ minval' = [minval EXCEPT ![g] =
                     Smallest({@} \cup {execution_time[i] : i \in Seen(g)})]
    /\ kpc' = [kpc EXCEPT ![g] = "mark"]
    /\ UNCHANGED <<slots, listeners, sem, fifo, reply, procs, broken>>

\* The second loop; las_lock is released.
Mark(g) ==
    /\ kpc[g] = "mark"
    /\ priority' = [i \in Slots |->
                      IF i \notin Seen(g) THEN priority[i]
                      ELSE IF execution_time[i] = minval[g] THEN HIGH ELSE NORMAL]
    /\ las_lock' = NoGpu
    /\ kpc' = [kpc EXCEPT ![g] = "sleep"]
    /\ minval' = [minval EXCEPT ![g] = 0]
    /\ UNCHANGED <<process_list, valid, gpu_binding, execution_time, count, inherited, listeners, sem,
                   fifo, reply, procs, broken>>

Control(g) == Wake(g) \/ WakeSkip(g) \/ Scan(g) \/ Mark(g)

-----------------------------------------------------------------------------

Next ==
    \/ \E p \in Procs : \/ \E g \in GPUs : ServeSetDevice(p, g)
                        \/ ServeCall(p) \/ Close(p) \/ ProcStep(p) \/ Die(p)
    \/ \E g \in GPUs : Listener(g) \/ Control(g)

Spec == Init /\ [][Next]_vars

\* Processes, listeners and control threads are scheduled, and neither the
\* semaphore (System V semaphores serve their queue in order) nor las_lock is
\* denied for ever to a thread that wants it.  Requests need not come.
FairSpec ==
    /\ Spec
    /\ \A p \in Procs : SF_vars(ProcStep(p))
    /\ \A g \in GPUs : SF_vars(Listener(g)) /\ SF_vars(Control(g))

-----------------------------------------------------------------------------
(* Properties.                                                              *)

\* p holds an index and has not deregistered; it may have died since.
Registered(p) == index[p] # NoIndex /\ ppc[p] # "gone"

\* Registrations did not overlap, take a used slot or meet a starting listener.
Orderly == broken \subseteq {"wrap", "crash"}

\* The index a process was given is its own slot, for the GPU it uses, and
\* the control thread sees it (las_register_process takes no lock).
SlotOwned ==
    Orderly => \A p \in Procs : Registered(p) =>
      /\ process_list[index[p]] = p
      /\ valid[index[p]]
      /\ gpu_binding[index[p]] = running_gpu[p]

\* What the messages S of a FIFO say together.
SumOf(q, S) == MapThenSumSet(LAMBDA k : q[k].arg, S)

\* The time of its calls that is still on the way to the listener.
Pending(p) ==
    LET q == fifo[running_gpu[p]] IN
    SumOf(q, {k \in 1 .. Len(q) : q[k].pid = p /\ q[k].action = "NOTIFY_SCHED"})

\* What a slot gains while a process has it is exactly the time the process
\* reports: nothing is lost, counted twice or charged to another.  The time an
\* earlier owner left in the slot stays in it, las_register_process does not
\* reset it, so the new owner begins with a debt that is not its own.
ServiceCharged ==
    Orderly => \A p \in Procs : Registered(p) =>
      execution_time[index[p]] + Pending(p) = inherited[p] + served[p]

\* Inside a las_ function.
Inside(p) == ppc[p] \notin {"serve", "gone", "dead"}

\* It registers a second time.
Again(p) == ppc[p] = "add_read" /\ index[p] # NoIndex

\* A call of a las_ function returns, unless the process is registered
\* already, a process died inside such a call, or las_add_queue was called
\* before the listener of the GPU had written its line in the mapping file.
CallsReturn ==
    \A p \in Procs :
      Inside(p) ~> (~ Inside(p) \/ Again(p) \/ ppc[p] = "add_lost" \/ "crash" \in broken)

\* The process has the least service of its GPU, and no more than slot 0 has.
Least(p) ==
    /\ Registered(p)
    /\ Orderly /\ "wrap" \notin broken
    /\ \A i \in Seen(running_gpu[p]) \cup {0} : execution_time[index[p]] <= execution_time[i]

\* The process has more service than another of its GPU.
Overtaken(p) ==
    /\ Registered(p)
    /\ Orderly /\ "wrap" \notin broken
    /\ \E i \in Seen(running_gpu[p]) : execution_time[i] < execution_time[index[p]]

\* Priorities follow the service received: a process that stays the one with
\* the least gets high priority, one that stays overtaken loses it.
FavourFollowsService ==
    \A p \in Procs :
      /\ Least(p) ~> (~ Least(p) \/ priority[index[p]] = HIGH)
      /\ Overtaken(p) ~> (~ Overtaken(p) \/ priority[index[p]] = NORMAL)

\* The slot of a process that deregistered becomes free.
SlotFreed ==
    \A p \in Procs : ppc[p] = "gone" ~> (~ AlreadyAdded(p) \/ ~ Orderly \/ "crash" \in broken)
=============================================================================

----------------------------- MODULE FairShare -----------------------------
(***************************************************************************)
(* The fair-share scheduler (build option SCHED_FAIR_SHARE): the listener  *)
(* and control threads of l2scheduler/fair_share_sched.c, one of each per  *)
(* GPU, and the backend processes with the fs_ functions and the signal    *)
(* handlers of backend/libl2scheduler.c.                                   *)
(*                                                                         *)
(* A process registers when its application sets a device: it takes the    *)
(* semaphore, writes to the FIFO of a listener, reads a signal number,     *)
(* installs its handlers, answers, and gives the semaphore back.  The      *)
(* listener then sends it SIGALRM and enters it in the table.  The handler *)
(* of SIGALRM sleeps until a control thread sends SIGSCHED.                *)
(*                                                                         *)
(* The name of the FIFO is in a mapping file, to which each listener adds  *)
(* its line.  fs_add_queue reads that file before it takes the semaphore   *)
(* and does not wait for the line: while there is no file the process dies *)
(* (feof(NULL)); while the line of its GPU is missing, it sends nothing    *)
(* and waits for an answer for ever, inside the semaphore.                 *)
(*                                                                         *)
(* Signals.  signal_block_all() has blocked every real-time signal in all  *)
(* threads of the scheduler, so the SIGRTMAX of a process that has used up *)
(* its slice stays pending there and redirection_handler never runs: a     *)
(* control thread that waits for the end of a slice waits for ever.  A     *)
(* backend process blocks SIGALRM and SIGSCHED while it executes a call,   *)
(* until fs_register_handler unblocks them, while it sends and receives,   *)
(* and in fs_rem_queue.  SIGSCHED has no handler: outside sigwaitinfo() it *)
(* kills the process once it is unblocked.  What it carries is a pointer   *)
(* of the scheduler: reading it kills the process or yields any value.     *)
(*                                                                         *)
(* Left out, because no step reaches it: what follows sigwaitinfo() and the *)
(* second lock in fs_control_thread.  So execution_time stays zero and     *)
(* penalty_epochs never is positive.                                       *)
(***************************************************************************)
EXTENDS Integers, Sequences, FiniteSets, Functions

CONSTANTS
    Procs,      \* backend processes
    NumGpus,    \* num_gpus of fs_start_scheduler
    N,          \* MAX_CONTROLLER_COUNT
    MaxAdds     \* bound: cudaSetDevice calls of all processes

None == "none"       \* INVALID_PROCEESS
NoGpu == -1          \* running_gpu = -1; sched_index_mut is free

ASSUME FairShareAssumption ==
    /\ None \notin Procs
    /\ NumGpus \in Nat \ {0}
    /\ N \in Nat \ {0, 1}
    /\ MaxAdds \in Nat

GPUs == 0 .. NumGpus - 1
Slots == 0 .. N - 1

VARIABLES
    process_list, active, gpu_binding,
    count,      \* polling_thread_count
    sched_index_mut,
    lpc,        \* where the listener of a GPU is
    pcd,        \* the message it handles
    lidx,       \* the slot it removes
    fifo,       \* its FIFO
    kpc,        \* where the control thread of a GPU is
    thid,       \* its thid, while it waits for the lock
    process_id, \* its process_id
    sem,        \* value of semid
    pc,         \* where a process is
    target,     \* the GPU it registers with
    running_gpu,
    alarm,      \* SIGALRM is pending
    sched,      \* SIGSCHED is pending
    timer,      \* its interval timer runs
    asleep,     \* it is in sigwaitinfo() of a handler
    adds,       \* number of its registrations
    slices,     \* history: number of slices given
    overlap,    \* history: two registrations overlapped
    slept       \* history: it has been put to sleep

table == <<process_list, active, gpu_binding, count, overlap>>
listeners == <<lpc, pcd, lidx, fifo>>
controls == <<sched_index_mut, kpc, thid, process_id, slices>>
signals == <<alarm, sched, timer, asleep, slept>>
calls == <<sem, pc, target, running_gpu, adds>>
vars == <<table, listeners, controls, signals, calls>>

Message == [pid : Procs, action : {"ADD_Q", "REM_Q"}, gpuid : GPUs]
NoMessage == [pid |-> None, action |-> "none", gpuid |-> NoGpu]

ListenerPlaces == {"start", "mapped", "read", "reply", "alarm", "list", "active", "gpu",
                   "count", "inactive"}
\* between the message and the last statement of fs_register_process
Registering == {"reply", "alarm", "list", "active", "gpu", "count"}
ControlPlaces == {"loop", "lock", "wait", "relock"}
\* between P() and V()
Inside == {"addS", "addR", "addV", "lost", "remS", "remV"}
Places == {"new", "addP", "lostP", "serve", "remP", "gone", "dead"} \cup Inside

TypeOK ==
    /\ process_list \in [Slots -> Procs \cup {None}]
    /\ active \in [Slots -> BOOLEAN]
    /\ gpu_binding \in [Slots -> GPUs]
    /\ count \in Slots
    /\ sched_index_mut \in GPUs \cup {NoGpu}
    /\ lpc \in [GPUs -> ListenerPlaces]
    /\ pcd \in [GPUs -> Message \cup {NoMessage}]
    /\ lidx \in [GPUs -> Slots]
    /\ \A g \in GPUs : \A i \in DOMAIN fifo[g] : fifo[g][i] \in Message
    /\ kpc \in [GPUs -> ControlPlaces]
    /\ thid \in [GPUs -> Slots]
    /\ process_id \in [GPUs -> Procs \cup {None}]
    /\ sem \in Nat
    /\ pc \in [Procs -> Places]
    /\ target \in [Procs -> GPUs]
    /\ running_gpu \in [Procs -> GPUs \cup {NoGpu}]
    /\ {alarm, sched, timer, asleep, slept} \subseteq [Procs -> BOOLEAN]
    /\ adds \in [Procs -> Nat]
    /\ slices \in Nat
    /\ overlap \in BOOLEAN

Init ==
    /\ process_list = [s \in Slots |-> None]
    /\ active = [s \in Slots |-> FALSE]
    /\ gpu_binding = [s \in Slots |-> 0]
    /\ count = 0
    /\ sched_index_mut = NoGpu
    /\ lpc = [g \in GPUs |-> "start"]
    /\ pcd = [g \in GPUs |-> NoMessage]
    /\ lidx = [g \in GPUs |-> 0]
    /\ fifo = [g \in GPUs |-> <<>>]
    /\ kpc = [g \in GPUs |-> "loop"]
    /\ thid = [g \in GPUs |-> 0]
    /\ process_id = [g \in GPUs |-> None]
    /\ sem = 1
    /\ pc = [p \in Procs |-> "new"]
    /\ target = [p \in Procs |-> 0]
    /\ running_gpu = [p \in Procs |-> NoGpu]
    /\ alarm = [p \in Procs |-> FALSE]
    /\ sched = [p \in Procs |-> FALSE]
    /\ timer = [p \in Procs |-> FALSE]
    /\ asleep = [p \in Procs |-> FALSE]
    /\ slept = [p \in Procs |-> FALSE]
    /\ adds = [p \in Procs |-> 0]
    /\ slices = 0
    /\ overlap = FALSE

Alive(p) == p # None /\ pc[p] \notin {"gone", "dead"}

-----------------------------------------------------------------------------
(* The backend processes.  Process p moves from one place to the next.      *)

Go(p, from, to) ==
    /\ pc[p] = from
    /\ ~ asleep[p]
    /\ pc' = [pc EXCEPT ![p] = to]

\* Listener g has written its line of the mapping file.
Mapped(g) == lpc[g] # "start"

\* A device is set, for the first time or again: fs_add_queue looks for the
\* line of the listener (without a file the process dies; it is not registered).
SetDevice(p, g) ==
    /\ pc[p] \in {"new", "serve"}
    /\ \/ Mapped(g) /\ Go(p, pc[p], "addP")
       \/ ~ Mapped(g) /\ (\E h \in GPUs : Mapped(h)) /\ Go(p, pc[p], "lostP")
       \/ (\A h \in GPUs : ~ Mapped(h)) /\ Go(p, "new", "gone")
    /\ FoldFunction(+, 0, adds) < MaxAdds
    /\ adds' = [adds EXCEPT ![p] = @ + 1]
    /\ target' = [target EXCEPT ![p] = g]
    /\ UNCHANGED <<table, listeners, controls, signals, sem, running_gpu>>

\* A process that found no line keeps the semaphore.
P(p) ==
    /\ Go(p, "addP", "addS") \/ Go(p, "lostP", "lost") \/ Go(p, "remP", "remS")
    /\ sem > 0
    /\ sem' = sem - 1
    /\ UNCHANGED <<table, listeners, controls, signals, target, running_gpu, adds>>

\* The request is written to the FIFO of the listener, once that has opened it.
Send(p) ==
    /\ \/ Go(p, "addS", "addR") /\ lpc[target[p]] # "mapped" /\ fifo' = [fifo EXCEPT ![target[p]] =
            Append(@, [pid |-> p, action |-> "ADD_Q", gpuid |-> target[p]])]
       \/ Go(p, "remS", "remV") /\ fifo' = [fifo EXCEPT ![running_gpu[p]] =
            Append(@, [pid |-> p, action |-> "REM_Q", gpuid |-> running_gpu[p]])]
    /\ UNCHANGED <<table, lpc, pcd, lidx, controls, signals, sem, target, running_gpu, adds>>

\* Wrong variant of Handshake: the semaphore is given back before the answer.
HandshakeAfterV(p) ==
    /\ Go(p, "addR", "addV")
    /\ \E g \in GPUs :
         /\ lpc[g] = "reply" /\ pcd[g].pid = p
         /\ lpc' = [lpc EXCEPT ![g] = "alarm"]
    /\ sem' = sem + 1
    /\ UNCHANGED <<table, pcd, lidx, fifo, controls, signals, target, running_gpu, adds>>

\* The signal number is read, fs_register_handler installs the handlers, and
\* the answer is written: the listener waits for it.
Handshake(p) ==
    /\ Go(p, "addR", "addV")
    /\ \E g \in GPUs :
         /\ lpc[g] = "reply" /\ pcd[g].pid = p
         /\ lpc' = [lpc EXCEPT ![g] = "alarm"]
    /\ UNCHANGED <<table, pcd, lidx, fifo, controls, signals, sem, target, running_gpu, adds>>

\* The semaphore is given back, by fs_add_queue, after which backend_thread
\* notes the device, or by fs_rem_queue, after which the process ends.
V(p) ==
    /\ \/ /\ Go(p, "addV", "serve")
          /\ running_gpu' = [running_gpu EXCEPT ![p] = target[p]]
          /\ target' = [target EXCEPT ![p] = 0]
       \/ /\ Go(p, "remV", "gone")
          /\ UNCHANGED <<running_gpu, target>>
    /\ sem' = sem + 1
    /\ UNCHANGED <<table, listeners, controls, signals, adds>>

\* The connection ends.  A process that has set no device is not registered.
Close(p) ==
    /\ \/ running_gpu[p] = NoGpu /\ Go(p, "new", "gone")
       \/ running_gpu[p] # NoGpu /\ Go(p, "serve", "remP")
    /\ UNCHANGED <<table, listeners, controls, signals, sem, target, running_gpu, adds>>

-----------------------------------------------------------------------------
(* Its signals.  In "serve" the process passes moments where they are       *)
(* blocked and moments where they are not.                                  *)

Blocked(p) == pc[p] \in {"addP", "addS", "addR", "lostP", "lost", "remP", "remS", "remV"}

\* sigschedulehandler: the process tells the scheduler and sleeps.
SigSchedule(p) ==
    /\ alarm[p] /\ ~ asleep[p] /\ Alive(p)
    /\ ~ Blocked(p)
    /\ alarm' = [alarm EXCEPT ![p] = FALSE]
    /\ asleep' = [asleep EXCEPT ![p] = TRUE]
    /\ slept' = [slept EXCEPT ![p] = TRUE]
    /\ UNCHANGED <<table, listeners, controls, sched, timer, calls>>

\* SIGSCHED ends its sleep; it sets a timer from the pointer it was sent.
Wake(p) ==
    /\ asleep[p] /\ sched[p]
    /\ sched' = [sched EXCEPT ![p] = FALSE]
    /\ asleep' = [asleep EXCEPT ![p] = FALSE]
    /\ timer' \in {timer, [timer EXCEPT ![p] = TRUE]}
    /\ UNCHANGED <<table, listeners, controls, alarm, slept, calls>>

\* SIGSCHED kills it: the pointer is no address of its own, or it did not sleep.
Killed(p) ==
    /\ sched[p] /\ Alive(p)
    /\ asleep[p] \/ ~ Blocked(p)
    /\ pc' = [pc EXCEPT ![p] = "dead"]
    /\ alarm' = [alarm EXCEPT ![p] = FALSE]
    /\ sched' = [sched EXCEPT ![p] = FALSE]
    /\ timer' = [timer EXCEPT ![p] = FALSE]
    /\ asleep' = [asleep EXCEPT ![p] = FALSE]
    /\ UNCHANGED <<table, listeners, controls, slept, sem, target, running_gpu, adds>>

\* The interval timer that a woken process has set.
Expire(p) ==
    /\ timer[p] /\ Alive(p)
    /\ timer' = [timer EXCEPT ![p] = FALSE]
    /\ alarm' = [alarm EXCEPT ![p] = TRUE]
    /\ UNCHANGED <<table, listeners, controls, sched, asleep, slept, calls>>

-----------------------------------------------------------------------------
(* The listener of GPU g.                                                   *)

\* It creates its FIFO and writes its line of the mapping file ...
WriteMapping(g) ==
    /\ lpc[g] = "start"
    /\ lpc' = [lpc EXCEPT ![g] = "mapped"]
    /\ UNCHANGED <<table, pcd, lidx, fifo, controls, signals, calls>>

\* ... sets the states of all slots to PROC_INACTIVE, and opens the FIFO.
Start(g) ==
    /\ lpc[g] = "mapped"
    /\ lpc' = [lpc EXCEPT ![g] = "read"]
    /\ active' = [s \in Slots |-> FALSE]
    /\ UNCHANGED <<process_list, gpu_binding, count, overlap, pcd, lidx, fifo, controls, signals, calls>>

\* Wrong variant of already_added: a free slot is taken for the process.
already_addedFree(p) == \E s \in Slots : process_list[s] \in {p, None}

already_added(p) == \E s \in Slots : process_list[s] = p

\* The slot of process p on GPU g.
SlotsOf(p, g) == {s \in Slots : process_list[s] = p /\ gpu_binding[s] = g}
FirstOf(S) == CHOOSE s \in S : \A u \in S : s =< u

\* It reads a message m; a second registration gets no answer at all.
Read(g) ==
    /\ lpc[g] = "read"
    /\ fifo[g] # <<>>
    /\ fifo' = [fifo EXCEPT ![g] = Tail(@)]
    /\ LET m == Head(fifo[g])
           mine == SlotsOf(m.pid, g) IN
       \/ /\ m.action = "ADD_Q" /\ ~ already_added(m.pid)
          /\ lpc' = [lpc EXCEPT ![g] = "reply"]
          /\ pcd' = [pcd EXCEPT ![g] = m]
          /\ overlap' = (overlap \/ \E h \in GPUs : lpc[h] \in Registering)
          /\ UNCHANGED <<lidx, process_list>>
       \/ /\ m.action = "REM_Q" /\ mine # {}
          /\ process_list' = [process_list EXCEPT ![FirstOf(mine)] = None]
          /\ lpc' = [lpc EXCEPT ![g] = "inactive"]
          /\ lidx' = [lidx EXCEPT ![g] = FirstOf(mine)]
          /\ UNCHANGED <<pcd, overlap>>
       \/ /\ \/ m.action = "ADD_Q" /\ already_added(m.pid)
             \/ m.action = "REM_Q" /\ mine = {}
          /\ UNCHANGED <<lpc, pcd, lidx, process_list, overlap>>
    /\ UNCHANGED <<active, gpu_binding, count, controls, signals, calls>>

Remove(g) ==
    /\ lpc[g] = "inactive"
    /\ active' = [active EXCEPT ![lidx[g]] = FALSE]
    /\ lpc' = [lpc EXCEPT ![g] = "read"]
    /\ lidx' = [lidx EXCEPT ![g] = 0]
    /\ UNCHANGED <<process_list, gpu_binding, count, overlap, pcd, fifo, controls, signals, calls>>

\* The process has answered: it is sent to sleep ...
SendAlarm(g) ==
    /\ lpc[g] = "alarm"
    /\ lpc' = [lpc EXCEPT ![g] = "list"]
    /\ alarm' = [alarm EXCEPT ![pcd[g].pid] = Alive(pcd[g].pid)]
    /\ UNCHANGED <<table, pcd, lidx, fifo, controls, sched, timer, asleep, slept, calls>>

\* ... and entered in the table by fs_register_process, which holds no lock and
\* reads polling_thread_count anew in every statement.
RegPid(g) ==
    /\ lpc[g] = "list"
    /\ lpc' = [lpc EXCEPT ![g] = "active"]
    /\ process_list' = [process_list EXCEPT ![count] = pcd[g].pid]
    /\ UNCHANGED <<active, gpu_binding, count, overlap, pcd, lidx, fifo, controls, signals, calls>>

RegActive(g) ==
    /\ lpc[g] = "active"
    /\ lpc' = [lpc EXCEPT ![g] = "gpu"]
    /\ active' = [active EXCEPT ![count] = TRUE]
    /\ UNCHANGED <<process_list, gpu_binding, count, overlap, pcd, lidx, fifo, controls, signals, calls>>

\* Wrong variant of RegGpu: the statement is missing.
RegGpuMissing(g) ==
    /\ lpc[g] = "gpu"
    /\ lpc' = [lpc EXCEPT ![g] = "count"]
    /\ UNCHANGED <<table, pcd, lidx, fifo, controls, signals, calls>>

RegGpu(g) ==
    /\ lpc[g] = "gpu"
    /\ lpc' = [lpc EXCEPT ![g] = "count"]
    /\ gpu_binding' = [gpu_binding EXCEPT ![count] = pcd[g].gpuid]
    /\ UNCHANGED <<process_list, active, count, overlap, pcd, lidx, fifo, controls, signals, calls>>

RegCount(g) ==
    /\ lpc[g] = "count"
    /\ lpc' = [lpc EXCEPT ![g] = "read"]
    /\ pcd' = [pcd EXCEPT ![g] = NoMessage]
    /\ count' = (count + 1) % N
    /\ UNCHANGED <<process_list, active, gpu_binding, overlap, lidx, fifo, controls, signals, calls>>

-----------------------------------------------------------------------------
(* The control thread of GPU g goes round the table, once a process is      *)
(* registered and not while polling_thread_count has wrapped to zero.  It   *)
(* passes over a slot that is not active or of another GPU, and over any    *)
(* slot when share_unit, which is never set, happens to be zero; at the end *)
(* of a round fs_calculate_timeslice computes times which reach nobody (the *)
(* pointer to them is read in another process).  So the next slot it stops  *)
(* at may be any that is active and of its GPU.                             *)

Pick(g, s) ==
    /\ kpc[g] = "loop" /\ count # 0
    /\ active[s] /\ gpu_binding[s] = g
    /\ thid' = [thid EXCEPT ![g] = s]
    /\ process_id' = [process_id EXCEPT ![g] = process_list[s]]
    /\ kpc' = [kpc EXCEPT ![g] = "lock"]
    /\ UNCHANGED <<table, listeners, signals, calls, sched_index_mut, slices>>

\* SIGSCHED is sent to process p (None, or a process that has ended: nobody).
Signal(p) ==
    /\ sched' = [q \in Procs |-> sched[q] \/ (q = p /\ Alive(p))]
    /\ UNCHANGED <<alarm, timer, asleep, slept>>

\* The lock is taken.  If the process is still active it is sent SIGSCHED, and
\* the thread waits for a signal that never comes; if not, the thread takes
\* the lock that it holds a second time.
Dispatch(g) ==
    /\ kpc[g] = "lock"
    /\ sched_index_mut = NoGpu
    /\ sched_index_mut' = g
    /\ \/ /\ active[thid[g]]
          /\ kpc' = [kpc EXCEPT ![g] = "wait"]
          /\ Signal(process_id[g])
          /\ slices' = slices + 1
       \/ /\ ~ active[thid[g]]
          /\ kpc' = [kpc EXCEPT ![g] = "relock"]
          /\ UNCHANGED <<signals, slices>>
    /\ thid' = [thid EXCEPT ![g] = 0]
    /\ process_id' = [process_id EXCEPT ![g] = None]
    /\ UNCHANGED <<table, listeners, calls>>

-----------------------------------------------------------------------------
ProcStep(p) == P(p) \/ Send(p) \/ Handshake(p) \/ V(p)
SignalStep(p) == SigSchedule(p) \/ Wake(p) \/ Killed(p) \/ Expire(p)
ListenStep(g) ==
    \/ WriteMapping(g) \/ Start(g) \/ Read(g) \/ Remove(g) \/ SendAlarm(g)
    \/ RegPid(g) \/ RegActive(g) \/ RegGpu(g) \/ RegCount(g)
ControlStep(g) == (\E s \in Slots : Pick(g, s)) \/ Dispatch(g)

Next ==
    \/ \E p \in Procs : ProcStep(p) \/ SignalStep(p) \/ Close(p) \/ \E g \in GPUs : SetDevice(p, g)
    \/ \E g \in GPUs : ListenStep(g) \/ ControlStep(g)

Spec == Init /\ [][Next]_vars

\* Threads and processes that can go on are scheduled by the operating system.
FairSpec ==
    /\ Spec
    /\ \A p \in Procs : WF_vars(ProcStep(p))
    /\ \A g \in GPUs : WF_vars(ListenStep(g)) /\ WF_vars(ControlStep(g))

-----------------------------------------------------------------------------
(* The semaphore admits one process at a time to the FIFO of a listener,    *)
(* also when processes are killed, and although P() ignores an interrupted  *)
(* semop(): the signals that could interrupt it are blocked.                *)
Exclusive ==
    /\ sem + Cardinality({p \in Procs : pc[p] \in Inside}) =< 1
    /\ sem = 0 => \E p \in Procs : pc[p] \in Inside \cup {"dead"}

(* A process that has registered is in the table once, with its GPU, as     *)
(* long as registrations have not overlapped (the semaphore covers the      *)
(* handshake and not fs_register_process, so they may, even those of one    *)
(* process with two GPUs) and there are enough slots.                       *)
Registered ==
    (/\ ~ overlap
     /\ Cardinality({p \in Procs : adds[p] > 0}) =< N
     /\ \A g \in GPUs : lpc[g] \notin Registering)
    => \A p \in Procs : pc[p] = "serve" =>
         \E s \in Slots :
           /\ gpu_binding[s] = running_gpu[p]
           /\ \A u \in Slots : process_list[u] = p <=> u = s

(* A process that holds the semaphore leaves the section, by V() or by its  *)
(* death, with three exceptions, each a defect of the handshake: it began    *)
(* fs_add_queue before the listener had written its line; it waits for the   *)
(* answer to a second registration, which is never given; or the listener's  *)
(* SIGALRM puts it to sleep before V().                                      *)
SectionLeft ==
    \A p \in Procs :
      pc[p] \in Inside ~>
        \/ pc[p] \notin Inside
        \/ pc[p] = "lost"
        \/ pc[p] = "addR" /\ running_gpu[p] # NoGpu
        \/ pc[p] = "addV" /\ asleep[p]

=============================================================================

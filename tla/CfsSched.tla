------------------------------ MODULE CfsSched ------------------------------
(***************************************************************************)
(* The first node scheduler: cfs_scheduler.c and its client half           *)
(* libcfsscheduler.c.  A serving process registers with add_queue (a       *)
(* handshake over named pipes under a semaphore) and is handed a           *)
(* real-time signal of its own; add_queue finds the semaphore before there *)
(* is a pipe, if it comes between semget and mkfifo.  That one signal is a *)
(* toggle: its handler waits for the next one, so the first puts the       *)
(* process to sleep and the second wakes it.  The listener thread keeps    *)
(* the table, the control thread goes round it: a signal, the share of the *)
(* process, a signal.  The two threads share the table without a lock.     *)
(***************************************************************************)
EXTENDS Integers, Sequences, FiniteSets

CONSTANTS
    Procs,      \* process ids of serving processes
    Mortal,     \* those that may be killed
    Recycles,   \* bound: how often a process id is given to a new process
    NumSigs,    \* real-time signals of the system, SIGRTMAX - SIGRTMIN + 1
    MaxPend     \* bound: signals in delivery to a process (a share is far longer)

NoProc == "no process"      \* INVALID_PROCEESS

ASSUME CfsAssumption ==
    /\ IsFiniteSet(Procs) /\ NoProc \notin Procs
    /\ Mortal \subseteq Procs
    /\ Recycles \in Nat
    /\ NumSigs \in Nat \ {0}
    /\ MaxPend \in Nat \ {0}

VARIABLES
    up,         \* scheduler: "off", "starting" (no pipe yet), "on", "exited"
    sem,        \* value of the registration semaphore; -1: there is none
    fifo,       \* the named pipe the listener reads
    lst,        \* listener thread: where it is and for whom
    rtIndex,    \* Scheduler_Data.RT_signal_indx
    table,      \* Scheduler_Data.process_list, signal_num and valid
    ctl,        \* control thread: where it is, thid and the process it took
    pc,         \* what each process does
    reused,     \* process ids recycled so far
    sig,        \* signal a process holds a handler for, 0 for none
    awake,      \* FALSE: inside the handler, in sigwaitinfo
    pend,       \* signals queued to a process for that handler
    killed      \* history: process ids of which a process was killed

schedVars == <<lst, rtIndex, table, ctl>>
procVars == <<pc, reused, sig, awake, pend>>
vars == <<up, sem, fifo, lst, rtIndex, table, ctl, pc, reused, sig, awake, pend, killed>>

Adding == {"add", "addWrite", "addOpen", "addReply", "addV", "lost"}
Removing == {"rem", "remWrite", "remV"}
Ended == {"gone", "dead"}

TypeOK ==
    /\ up \in {"off", "starting", "on", "exited"}
    /\ sem \in Int /\ sem >= -1
    /\ fifo \in Seq({"ADD_Q", "REM_Q"} \X Procs)
    /\ lst \in [at : {"read", "resp", "ack"}, pid : Procs \cup {NoProc}, sig : Nat]
    /\ rtIndex \in Nat
    /\ table \in Seq([pid : Procs \cup {NoProc}, sig : Nat, valid : BOOLEAN])
    /\ ctl \in [at : {"scan", "wake", "slice"}, thid : Nat, pid : Procs \cup {NoProc}, sig : Nat]
    /\ pc \in [Procs -> {"new", "run"} \cup Adding \cup Removing \cup Ended]
    /\ reused \in 0..Recycles
    /\ sig \in [Procs -> Nat]
    /\ awake \in [Procs -> BOOLEAN]
    /\ pend \in [Procs -> Nat]
    /\ killed \subseteq Procs

Init ==
    /\ up = "off" /\ sem = -1 /\ fifo = <<>>
    /\ lst = [at |-> "read", pid |-> NoProc, sig |-> 0]
    /\ rtIndex = 0 /\ table = <<>>
    /\ ctl = [at |-> "scan", thid |-> 1, pid |-> NoProc, sig |-> 0]
    /\ pc = [p \in Procs |-> "new"]
    /\ reused = 0
    /\ sig = [p \in Procs |-> 0]
    /\ awake = [p \in Procs |-> TRUE]
    /\ pend = [p \in Procs |-> 0]
    /\ killed = {}

----------------------------------------------------------------------------
(* The scheduler process *)

\* start_scheduler: the semaphore is created with the value 1, then the threads.
Start ==
    /\ up = "off"
    /\ up' = "starting" /\ sem' = 1
    /\ UNCHANGED <<fifo, schedVars, procVars, killed>>

\* listen_thread makes the pipe and opens it.  (Who opens the pipe between the
\* two waits for the second.)
StartListener ==
    /\ up = "starting"
    /\ up' = "on"
    /\ UNCHANGED <<sem, fifo, schedVars, procVars, killed>>

\* sem_cleanup_and_exit, on SIGINT: pipes and semaphore are removed.
Shutdown ==
    /\ up \in {"starting", "on"}
    /\ up' = "exited" /\ sem' = -1 /\ fifo' = <<>>
    /\ UNCHANGED <<schedVars, procVars, killed>>

\* sigqueue: reaches a living process that holds a handler for the signal;
\* every other real-time signal stays blocked (signal_block_all) or has no receiver.
Queued(p, s) == IF p # NoProc /\ pc[p] \notin Ended /\ sig[p] = s
                THEN [pend EXCEPT ![p] = @ + 1] ELSE pend

Room(p) == p # NoProc /\ pc[p] \notin Ended => pend[p] < MaxPend

already_added(p) == \E i \in DOMAIN table : table[i].pid = p

\* An accepted ADD_Q takes the next signal number, whatever becomes of it.
Signum == rtIndex + 1

ListenAdd ==
    /\ up = "on" /\ lst.at = "read" /\ fifo # <<>>
    /\ Head(fifo)[1] = "ADD_Q" /\ ~already_added(Head(fifo)[2])
    /\ fifo' = Tail(fifo)
    /\ rtIndex' = rtIndex + 1
    /\ lst' = [at |-> "resp", pid |-> Head(fifo)[2], sig |-> Signum]
    /\ UNCHANGED <<up, sem, table, ctl, procVars, killed>>

\* An ADD_Q of a listed process id is reported as illegal and not answered.
ListenIllegal ==
    /\ up = "on" /\ lst.at = "read" /\ fifo # <<>>
    /\ Head(fifo)[1] = "ADD_Q" /\ already_added(Head(fifo)[2])
    /\ fifo' = Tail(fifo)
    /\ UNCHANGED <<up, sem, schedVars, procVars, killed>>

\* The two ends of the answer pipe open together and the signal number crosses it.
Respond(p) ==
    /\ up = "on" /\ lst.at = "resp" /\ lst.pid = p
    /\ pc[p] = "addOpen" /\ awake[p]
    /\ lst' = [lst EXCEPT !.at = "ack"]
    /\ pc' = [pc EXCEPT ![p] = "addReply"]
    /\ UNCHANGED <<up, sem, fifo, rtIndex, table, ctl, reused, sig, awake, pend, killed>>

\* register_process, with the signal that puts the process to sleep first.
Entry(p, s) == [pid |-> p, sig |-> s, valid |-> TRUE]
RegisteredAwake(p, s) == pend' = pend /\ table' = Append(table, Entry(p, s))
Registered(p, s) == pend' = [pend EXCEPT ![p] = @ + 1] /\ table' = Append(table, Entry(p, s))

\* register_handler and its result: a number past SIGRTMAX is refused by
\* sigaction and the listener then forgets the process.
Reply(p) ==
    /\ up = "on" /\ lst.at = "ack" /\ lst.pid = p
    /\ pc[p] = "addReply" /\ awake[p]
    /\ lst' = [at |-> "read", pid |-> NoProc, sig |-> 0]
    /\ pc' = [pc EXCEPT ![p] = "addV"]
    /\ IF lst.sig <= NumSigs
       THEN sig' = [sig EXCEPT ![p] = lst.sig] /\ Registered(p, lst.sig)
       ELSE UNCHANGED <<sig, pend, table>>
    /\ UNCHANGED <<up, sem, fifo, rtIndex, ctl, reused, awake, killed>>

\* The first entry of the process is freed.
FirstEntry(p) == CHOOSE i \in DOMAIN table :
                    table[i].pid = p /\ \A j \in 1..i-1 : table[j].pid # p
FreedKeepsPid(p) == IF already_added(p)
                    THEN [table EXCEPT ![FirstEntry(p)].valid = FALSE] ELSE table
Freed(p) == IF already_added(p)
            THEN [table EXCEPT ![FirstEntry(p)].pid = NoProc, ![FirstEntry(p)].valid = FALSE]
            ELSE table

ListenRem ==
    /\ up = "on" /\ lst.at = "read" /\ fifo # <<>>
    /\ Head(fifo)[1] = "REM_Q"
    /\ fifo' = Tail(fifo)
    /\ table' = Freed(Head(fifo)[2])
    /\ UNCHANGED <<up, sem, lst, rtIndex, ctl, procVars, killed>>

\* thid++, and back to the first entry after the last
NextShort(i) == IF i + 1 >= Len(table) THEN 1 ELSE i + 1
NextEntry(i) == IF i + 1 > Len(table) THEN 1 ELSE i + 1

Skip ==
    /\ up = "on" /\ ctl.at = "scan" /\ table # <<>>
    /\ ~table[ctl.thid].valid
    /\ Len(table) > 1
    /\ ctl' = [ctl EXCEPT !.thid = NextEntry(@)]
    /\ UNCHANGED <<up, sem, fifo, lst, rtIndex, table, procVars, killed>>

\* The control thread reads the entry before it signals the process.
Take ==
    /\ up = "on" /\ ctl.at = "scan" /\ table # <<>>
    /\ table[ctl.thid].valid
    /\ ctl' = [at |-> "wake", thid |-> ctl.thid,
               pid |-> table[ctl.thid].pid, sig |-> table[ctl.thid].sig]
    /\ UNCHANGED <<up, sem, fifo, lst, rtIndex, table, procVars, killed>>

Wake ==
    /\ up = "on" /\ ctl.at = "wake" /\ Room(ctl.pid)
    /\ pend' = Queued(ctl.pid, ctl.sig)
    /\ ctl' = [ctl EXCEPT !.at = "slice", !.thid = NextEntry(@)]
    /\ UNCHANGED <<up, sem, fifo, lst, rtIndex, table, pc, reused, sig, awake, killed>>

\* The share has passed: the signal goes to the process that was read then.
EndSlice ==
    /\ up = "on" /\ ctl.at = "slice" /\ Room(ctl.pid)
    /\ pend' = Queued(ctl.pid, ctl.sig)
    /\ ctl' = [ctl EXCEPT !.at = "scan", !.pid = NoProc, !.sig = 0]
    /\ UNCHANGED <<up, sem, fifo, lst, rtIndex, table, pc, reused, sig, awake, killed>>

----------------------------------------------------------------------------
(* A serving process *)

At(p, a, b) == pc[p] = a /\ awake[p] /\ pc' = [pc EXCEPT ![p] = b]

\* add_queue: without the semaphore the process runs unscheduled.
AddQueue(p) ==
    /\ At(p, "new", IF sem = -1 THEN "run" ELSE "add")
    /\ UNCHANGED <<up, sem, fifo, schedVars, reused, sig, awake, pend, killed>>

\* P: a semaphore that was removed lets everyone through.
AddP(p) ==
    /\ sem # 0
    /\ At(p, "add", "addWrite")
    /\ sem' = IF sem > 0 THEN sem - 1 ELSE sem
    /\ UNCHANGED <<up, fifo, schedVars, reused, sig, awake, pend, killed>>

\* The request is written.  While there is no pipe, open and write fail, and
\* the process waits for the answer all the same.  After the shutdown the pipes
\* for the answer are gone as well, and nothing waits.
AddWrite(p) ==
    /\ \/ up = "on" /\ At(p, "addWrite", "addOpen") /\ fifo' = Append(fifo, <<"ADD_Q", p>>)
       \/ up = "starting" /\ At(p, "addWrite", "lost") /\ fifo' = fifo
       \/ up = "exited" /\ At(p, "addWrite", "addV") /\ fifo' = fifo
    /\ UNCHANGED <<up, sem, schedVars, reused, sig, awake, pend, killed>>

\* After the shutdown the pipe for the result is gone: open fails at once.
ReplyUnread(p) ==
    /\ up = "exited"
    /\ At(p, "addReply", "addV")
    /\ UNCHANGED <<up, sem, fifo, schedVars, reused, sig, awake, pend, killed>>

\* V of add_queue and of rem_queue
V == sem' = IF sem >= 0 THEN sem + 1 ELSE sem

AddV(p) ==
    /\ At(p, "addV", "run")
    /\ V
    /\ UNCHANGED <<up, fifo, schedVars, reused, sig, awake, pend, killed>>

\* rem_queue at the end of the connection
RemQueue(p) ==
    /\ At(p, "run", IF sem = -1 THEN "gone" ELSE "rem")
    /\ UNCHANGED <<up, sem, fifo, schedVars, reused, sig, awake, pend, killed>>

RemP(p) ==
    /\ sem # 0
    /\ At(p, "rem", "remWrite")
    /\ sem' = IF sem > 0 THEN sem - 1 ELSE sem
    /\ UNCHANGED <<up, fifo, schedVars, reused, sig, awake, pend, killed>>

RemWrite(p) ==
    /\ At(p, "remWrite", "remV")
    /\ fifo' = IF up = "on" THEN Append(fifo, <<"REM_Q", p>>) ELSE fifo
    /\ UNCHANGED <<up, sem, schedVars, reused, sig, awake, pend, killed>>

RemV(p) ==
    /\ At(p, "remV", "gone")
    /\ V
    /\ UNCHANGED <<up, fifo, schedVars, reused, sig, awake, pend, killed>>

\* mysignalhandler1: the signal is blocked inside its handler, so the next
\* one ends sigwaitinfo.
Sleep(p) ==
    /\ pc[p] \notin Ended /\ pend[p] > 0 /\ awake[p]
    /\ awake' = [awake EXCEPT ![p] = FALSE]
    /\ pend' = [pend EXCEPT ![p] = @ - 1]
    /\ UNCHANGED <<up, sem, fifo, schedVars, pc, reused, sig, killed>>

\* A handler that interrupts semop makes it fail (EINTR); P reports that in
\* a result nobody looks at, and rem_queue goes on without the semaphore.
SleepInP(p) ==
    /\ pc[p] = "rem" /\ sem = 0 /\ pend[p] > 0 /\ awake[p]
    /\ awake' = [awake EXCEPT ![p] = FALSE]
    /\ pend' = [pend EXCEPT ![p] = @ - 1]
    /\ pc' = [pc EXCEPT ![p] = "remWrite"]
    /\ UNCHANGED <<up, sem, fifo, schedVars, reused, sig, killed>>

WakeUp(p) ==
    /\ pc[p] \notin Ended /\ pend[p] > 0 /\ ~awake[p]
    /\ awake' = [awake EXCEPT ![p] = TRUE]
    /\ pend' = [pend EXCEPT ![p] = @ - 1]
    /\ UNCHANGED <<up, sem, fifo, schedVars, pc, reused, sig, killed>>

\* The process is killed; nothing is undone (the semaphore has no SEM_UNDO).
Kill(p) ==
    /\ p \in Mortal /\ pc[p] \notin Ended \cup {"new"}
    /\ pc' = [pc EXCEPT ![p] = "dead"]
    /\ killed' = killed \cup {p}
    /\ pend' = [pend EXCEPT ![p] = 0]
    /\ UNCHANGED <<up, sem, fifo, schedVars, reused, sig, awake>>

\* The process id is given to a new serving process.
Recycle(p) ==
    /\ pc[p] \in Ended /\ reused < Recycles
    /\ pc' = [pc EXCEPT ![p] = "new"]
    /\ reused' = reused + 1
    /\ sig' = [sig EXCEPT ![p] = 0]
    /\ awake' = [awake EXCEPT ![p] = TRUE]
    /\ pend' = [pend EXCEPT ![p] = 0]
    /\ UNCHANGED <<up, sem, fifo, schedVars, killed>>

----------------------------------------------------------------------------
Listener == ListenAdd \/ ListenIllegal \/ ListenRem
Control == Skip \/ Take \/ Wake \/ EndSlice
Handshake(p) == Respond(p) \/ Reply(p) \/ ReplyUnread(p)
Handler(p) == Sleep(p) \/ SleepInP(p) \/ WakeUp(p)
Queueing(p) ==
    \/ AddQueue(p) \/ AddP(p) \/ AddWrite(p) \/ Handshake(p) \/ AddV(p)
    \/ RemP(p) \/ RemWrite(p) \/ RemV(p)
Process(p) == Queueing(p) \/ RemQueue(p) \/ Handler(p)

Next ==
    \/ Start \/ StartListener \/ Shutdown \/ Listener \/ Control
    \/ \E p \in Procs : Process(p) \/ Kill(p) \/ Recycle(p)

Spec == Init /\ [][Next]_vars

\* Threads and processes that can move do so.  A process that is awake again
\* and again gets on in one of its shares, and one that keeps finding the
\* semaphore free is granted it (the kernel queues the waiters).
\* The listener thread, once created, makes and opens its pipe.  Connections
\* need not end, the scheduler need not start or stop, nobody need be killed.
FairSpec ==
    /\ Spec
    /\ WF_vars(StartListener) /\ WF_vars(Listener) /\ WF_vars(Control)
    /\ \A p \in Procs :
        SF_vars(Queueing(p)) /\ WF_vars(Handler(p))

----------------------------------------------------------------------------
(* Properties *)

Listed(p) == \E i \in DOMAIN table : table[i].valid /\ table[i].pid = p
Share(p) == ctl.at = "slice" /\ ctl.pid = p
Scheduled(p) == Listed(p) /\ pc[p] \notin Ended /\ sig[p] # 0

\* A process whose pending signals are all delivered sleeps or runs.
RunsAfter(p) == IF awake[p] THEN pend[p] % 2 = 0 ELSE pend[p] % 2 = 1

\* The toggles never get out of step: of the listed processes exactly the one
\* whose share is running will be awake once its signals are delivered.
TogglesInStep ==
    up = "on" => \A p \in Procs : Scheduled(p) => (RunsAfter(p) <=> Share(p) /\ ctl.sig = sig[p])

\* A process that left the table while its last share was running is put to
\* sleep by the end of that share and nobody is left to wake it.
Stranded(p) == ~awake[p] /\ pend[p] = 0 /\ pc[p] \notin Ended /\ ~Listed(p)

\* Round robin: a listed process gets its share, unless it leaves or the
\* scheduler stops; entries of dead processes only cost their share.
ServedInTurn ==
    \A p \in Procs : Listed(p) ~> (Share(p) \/ ~Listed(p) \/ up # "on")

\* What makes calls wait for ever, each a defect of the protocol.
\* A process was killed between P and V.
Holding == {"addWrite", "addOpen", "addReply", "addV", "lost", "remWrite", "remV"}
PermitLost == sem = 0 /\ \A p \in Procs : pc[p] \notin Holding
\* The listener waits for a process that was killed in the handshake.
Deaf ==
    \/ lst.at = "resp" /\ pc[lst.pid] # "addOpen"
    \/ lst.at = "ack" /\ pc[lst.pid] # "addReply"
\* A killed process left its entry, and the process that was given its id is
\* taken for one that is listed already.
Mistaken(p) ==
    /\ p \in killed /\ pc[p] = "addOpen" /\ lst.pid # p
    /\ \A i \in DOMAIN fifo : fifo[i] # <<"ADD_Q", p>>

\* add_queue returns and rem_queue ends the process, unless the scheduler
\* exits, or a process keeps the semaphore or the listener: killed inside the
\* section or in the handshake, taken for a killed one, stranded asleep, or
\* come before the pipe was made.
QueueCallsReturn ==
    \A p \in Procs : pc[p] \in Adding \cup Removing ~>
        \/ pc[p] \notin Adding \cup Removing
        \/ up = "exited" \/ PermitLost \/ Deaf
        \/ \E q \in Procs : pc[q] = "lost" \/ Mistaken(q) \/ Stranded(q)
=============================================================================

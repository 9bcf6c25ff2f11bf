--------------------------- MODULE CfsSchedProofs ---------------------------
(***************************************************************************)
(* Proofs about CfsSched, for any number of processes, signals, recycled   *)
(* process ids and signals in delivery.                                    *)
(***************************************************************************)
EXTENDS CfsSched, SequenceTheorems, TLAPS

-----------------------------------------------------------------------------
(* The inductive invariant.                                                 *)

ListenerStates == [at : {"read", "resp", "ack"}, pid : Procs \cup {NoProc}, sig : Nat]
Entries == [pid : Procs \cup {NoProc}, sig : Nat, valid : BOOLEAN]
ControlStates == [at : {"scan", "wake", "slice"}, thid : Nat, pid : Procs \cup {NoProc}, sig : Nat]
Places == {"new", "run"} \cup Adding \cup Removing \cup Ended

\* The signal that ADD_Q has taken and that nobody holds yet, or the next one.
Fresh == IF lst.at = "read" THEN rtIndex + 1 ELSE lst.sig

\* Signals are handed out once: whoever holds one holds an earlier one, and an
\* entry always holds one.  The place of the control thread is in the table.
SignalInv ==
    /\ lst.at # "read" => lst.sig = rtIndex /\ lst.sig > 0
    /\ \A p \in Procs : sig[p] < Fresh
    /\ \A i \in DOMAIN table : table[i].sig > 0 /\ table[i].sig < Fresh
    /\ ctl.sig < Fresh /\ (ctl.at # "scan" => ctl.sig > 0)
    /\ ctl.thid > 0 /\ (ctl.thid <= Len(table) \/ ctl.thid = 1)

\* A process without a signal has none queued and is awake; with one, it runs
\* once its signals are delivered exactly during the share it was woken for.
ToggleInv ==
    \A p \in Procs : pc[p] \notin Ended =>
      /\ sig[p] = 0 => pend[p] = 0 /\ awake[p]
      /\ sig[p] # 0 => (RunsAfter(p) <=> Share(p) /\ ctl.sig = sig[p])

\* A process whose answer is under way has no signal yet.
AskInv == \A p \in Procs : pc[p] \in {"new"} \cup (Adding \ {"addV"}) => sig[p] = 0

CfsInv == TypeOK /\ SignalInv /\ AskInv /\ ToggleInv
-----------------------------------------------------------------------------
(* Steps and toggles.                                                       *)

\* The steps, one by one.
LEMMA CfsSteps ==
    ASSUME [Next]_vars
    PROVE  \/ Start \/ StartListener \/ Shutdown \/ ListenAdd \/ ListenIllegal \/ ListenRem
           \/ Skip \/ Take \/ Wake \/ EndSlice
           \/ \E p \in Procs : \/ Respond(p) \/ Reply(p) \/ ReplyUnread(p)
                               \/ AddQueue(p) \/ AddP(p) \/ AddWrite(p) \/ AddV(p)
                               \/ RemQueue(p) \/ RemP(p) \/ RemWrite(p) \/ RemV(p)
                               \/ Sleep(p) \/ SleepInP(p) \/ WakeUp(p) \/ Kill(p) \/ Recycle(p)
           \/ UNCHANGED vars
  BY DEF Next, Listener, Control, Process, Queueing, Handshake, Handler

\* Whether a process that is awake, or not, with n signals queued will run.
Runs(a, n) == IF a THEN n % 2 = 0 ELSE n % 2 = 1

\* A queued signal turns that round; a delivered one changes nothing.
LEMMA Toggles ==
    ASSUME NEW a \in BOOLEAN, NEW n \in Nat
    PROVE  /\ Runs(a, n + 1) <=> ~ Runs(a, n)
           /\ n > 0 => (Runs(~ a, n - 1) <=> Runs(a, n))
           /\ Runs(TRUE, 0)
<1>1. (n % 2 = 0 /\ (n + 1) % 2 = 1) \/ (n % 2 = 1 /\ (n + 1) % 2 = 0)
  OBVIOUS
<1>2. n > 0 => (n % 2 = 0 /\ (n - 1) % 2 = 1) \/ (n % 2 = 1 /\ (n - 1) % 2 = 0)
  OBVIOUS
<1>3. 0 % 2 = 0
  OBVIOUS
<1> QED
  BY <1>1, <1>2, <1>3 DEF Runs

\* An entry is freed: the table keeps its length and its signals.
LEMMA FreedKeeps ==
    ASSUME table \in Seq(Entries), NEW p, NEW t, t = Freed(p)
    PROVE  /\ t \in Seq(Entries) /\ Len(t) = Len(table) /\ DOMAIN t = DOMAIN table
           /\ \A i \in DOMAIN table : t[i].sig = table[i].sig
<1>1. CASE ~ already_added(p)
  BY <1>1 DEF Freed
<1>2. CASE already_added(p)
  <2>1. PICK n \in Nat : table \in [1 .. n -> Entries] /\ n = Len(table)
    OBVIOUS
  <2>2. PICK k : t = [table EXCEPT ![k].pid = NoProc, ![k].valid = FALSE]
    BY <1>2 DEF Freed
  <2>3. DOMAIN t = 1 .. n
    BY <2>1, <2>2
  <2>4. ASSUME NEW i \in 1 .. n PROVE t[i] \in Entries /\ t[i].sig = table[i].sig
    <3>1. table[i] \in Entries
      BY <2>1
    <3>2. t[i] = table[i] \/ t[i] = [[table[i] EXCEPT !.pid = NoProc] EXCEPT !.valid = FALSE]
      BY <2>1, <2>2
    <3> QED
      BY <3>1, <3>2 DEF Entries
  <2>5. t = [i \in 1 .. n |-> t[i]]
    BY <2>2, <2>3
  <2>6. t \in [1 .. n -> Entries]
    BY <2>4, <2>5
  <2> QED
    BY <2>1, <2>3, <2>4, <2>6
<1> QED
  BY <1>1, <1>2

\* The entry the control thread looks at is in the table.
LEMMA EntryThere ==
    ASSUME TypeOK, SignalInv, table # <<>>
    PROVE  ctl.thid \in DOMAIN table /\ table[ctl.thid] \in Entries
<1>1. table \in Seq(Entries) /\ ctl.thid \in Nat
  BY DEF TypeOK, Entries
<1>2. Len(table) \in Nat /\ Len(table) # 0 /\ DOMAIN table = 1 .. Len(table)
  BY <1>1, EmptySeq
<1>3. ctl.thid > 0 /\ (ctl.thid <= Len(table) \/ ctl.thid = 1)
  BY DEF SignalInv
<1>4. ctl.thid \in DOMAIN table
  BY <1>1, <1>2, <1>3
<1> QED
  BY <1>1, <1>4

\* The entry after the last is the first.
LEMMA NextThere ==
    ASSUME NEW i \in Nat, NEW n, n = Len(table), n \in Nat
    PROVE  /\ NextEntry(i) \in Nat /\ NextEntry(i) > 0
           /\ NextEntry(i) <= n \/ NextEntry(i) = 1
  BY DEF NextEntry
-----------------------------------------------------------------------------
(* Types.                                                                   *)

\* TypeOK with the sets by name.
LEMMA TypeForm ==
    TypeOK <=> /\ up \in {"off", "starting", "on", "exited"}
               /\ sem \in Int /\ sem >= -1
               /\ fifo \in Seq({"ADD_Q", "REM_Q"} \X Procs)
               /\ lst \in ListenerStates /\ rtIndex \in Nat
               /\ table \in Seq(Entries) /\ ctl \in ControlStates
               /\ pc \in [Procs -> Places] /\ reused \in 0 .. Recycles
               /\ sig \in [Procs -> Nat] /\ awake \in [Procs -> BOOLEAN]
               /\ pend \in [Procs -> Nat] /\ killed \subseteq Procs
  BY DEF TypeOK, ListenerStates, Entries, ControlStates, Places

\* The steps of the scheduler keep the types.
LEMMA SchedTypes ==
    ASSUME TypeOK, SignalInv,
           \/ Start \/ StartListener \/ Shutdown \/ ListenAdd \/ ListenIllegal \/ ListenRem
           \/ Skip \/ Take \/ Wake \/ EndSlice
    PROVE  TypeOK'
<1> DEFINE Messages == {"ADD_Q", "REM_Q"} \X Procs
<1>1. /\ up \in {"off", "starting", "on", "exited"} /\ sem \in Int /\ sem >= -1 /\ fifo \in Seq(Messages)
      /\ lst \in ListenerStates /\ rtIndex \in Nat /\ table \in Seq(Entries) /\ ctl \in ControlStates
      /\ pc \in [Procs -> Places] /\ reused \in 0 .. Recycles /\ sig \in [Procs -> Nat]
      /\ awake \in [Procs -> BOOLEAN] /\ pend \in [Procs -> Nat] /\ killed \subseteq Procs
  BY TypeForm
<1>2. UNCHANGED <<pc, reused, sig, awake, killed>>
  BY DEF Start, StartListener, Shutdown, ListenAdd, ListenIllegal, ListenRem, Skip, Take, Wake, EndSlice, procVars
<1>3. up' \in {"off", "starting", "on", "exited"} /\ sem' \in Int /\ sem' >= -1
  BY <1>1 DEF Start, StartListener, Shutdown, ListenAdd, ListenIllegal, ListenRem, Skip, Take, Wake, EndSlice
<1>4. fifo # <<>> => Head(fifo) \in Messages /\ Tail(fifo) \in Seq(Messages)
  BY <1>1, HeadTailProperties
<1>5. fifo' \in Seq(Messages)
  <2>1. fifo' = fifo \/ fifo' = <<>> \/ (fifo # <<>> /\ fifo' = Tail(fifo))
    BY DEF Start, StartListener, Shutdown, ListenAdd, ListenIllegal, ListenRem, Skip, Take, Wake, EndSlice
  <2>2. <<>> \in Seq(Messages)
    OBVIOUS
  <2> HIDE DEF Messages
  <2> QED
    BY <1>1, <1>4, <2>1, <2>2
<1>6. lst' \in ListenerStates /\ rtIndex' \in Nat
  <2>1. CASE ListenAdd
    <3>1. PICK m \in Messages : m = Head(fifo)
      BY <1>4, <2>1 DEF ListenAdd
    <3>2. m[2] \in Procs
      OBVIOUS
    <3> QED
      BY <1>1, <2>1, <3>1, <3>2 DEF ListenAdd, Signum, ListenerStates
  <2>2. CASE ~ ListenAdd
    BY <1>1, <2>2 DEF Start, StartListener, Shutdown, ListenIllegal, ListenRem, Skip, Take, Wake, EndSlice, schedVars
  <2> QED
    BY <2>1, <2>2
<1>7. table' \in Seq(Entries)
  <2>1. CASE ListenRem
    BY <1>1, <2>1, FreedKeeps DEF ListenRem
  <2>2. CASE ~ ListenRem
    BY <1>1, <2>2 DEF Start, StartListener, Shutdown, ListenAdd, ListenIllegal, Skip, Take, Wake, EndSlice, schedVars
  <2> QED
    BY <2>1, <2>2
<1>8. ctl' \in ControlStates
  <2>1. ctl.thid \in Nat /\ Len(table) \in Nat
    BY <1>1 DEF ControlStates
  <2>2. NextEntry(ctl.thid) \in Nat
    BY <2>1, NextThere
  <2>3. CASE Take
    <3>1. table[ctl.thid] \in Entries
      BY <2>3, EntryThere DEF Take
    <3> QED
      BY <2>1, <2>3, <3>1 DEF Take, Entries, ControlStates
  <2>4. CASE ~ Take
    <3>1. PICK n \in Nat : n = NextEntry(ctl.thid)
      BY <2>2
    <3>2. \/ ctl' = ctl \/ ctl' = [ctl EXCEPT !.thid = n]
          \/ ctl' = [[ctl EXCEPT !.at = "slice"] EXCEPT !.thid = n]
          \/ ctl' = [[[ctl EXCEPT !.at = "scan"] EXCEPT !.pid = NoProc] EXCEPT !.sig = 0]
      BY <1>1, <2>4, <3>1
      DEF Start, StartListener, Shutdown, ListenAdd, ListenIllegal, ListenRem, Skip, Wake, EndSlice, schedVars, ControlStates
    <3> QED
      <4>1. [ctl EXCEPT !.thid = n] \in ControlStates
        BY <1>1 DEF ControlStates
      <4>2. [[ctl EXCEPT !.at = "slice"] EXCEPT !.thid = n] \in ControlStates
        BY <1>1 DEF ControlStates
      <4>3. [[[ctl EXCEPT !.at = "scan"] EXCEPT !.pid = NoProc] EXCEPT !.sig = 0] \in ControlStates
        BY <1>1 DEF ControlStates
      <4> QED
        BY <1>1, <3>2, <4>1, <4>2, <4>3
  <2> QED
    BY <2>3, <2>4
<1>9. pend' \in [Procs -> Nat]
  <2>1. pend' = pend \/ \E p \in Procs : pend' = [pend EXCEPT ![p] = @ + 1]
    <3>1. ctl.pid \in Procs \cup {NoProc}
      BY <1>1 DEF ControlStates
    <3> QED
      BY <3>1 DEF Start, StartListener, Shutdown, ListenAdd, ListenIllegal, ListenRem, Skip, Take, Wake, EndSlice,
                  procVars, Queued
  <2>2. ASSUME NEW p \in Procs PROVE [pend EXCEPT ![p] = @ + 1] \in [Procs -> Nat]
    <3>1. pend[p] + 1 \in Nat
      BY <1>1
    <3> QED
      BY <1>1, <3>1
  <2> QED
    BY <1>1, <2>1, <2>2
<1>10. TypeOK'
  <2>1. up' \in {"off", "starting", "on", "exited"} /\ sem' \in Int /\ sem' >= -1
        /\ fifo' \in Seq({"ADD_Q", "REM_Q"} \X Procs) /\ lst' \in ListenerStates /\ rtIndex' \in Nat
        /\ table' \in Seq(Entries) /\ ctl' \in ControlStates /\ pend' \in [Procs -> Nat]
    BY <1>3, <1>5, <1>6, <1>7, <1>8, <1>9
  <2> QED
    BY <1>1, <1>2, <2>1 DEF TypeOK, ListenerStates, Entries, ControlStates, Places
<1> QED
  BY <1>10

\* So do those of a process.
LEMMA ProcTypes ==
    ASSUME TypeOK, NEW p \in Procs,
           \/ Respond(p) \/ Reply(p) \/ ReplyUnread(p)
           \/ AddQueue(p) \/ AddP(p) \/ AddWrite(p) \/ AddV(p)
           \/ RemQueue(p) \/ RemP(p) \/ RemWrite(p) \/ RemV(p)
           \/ Sleep(p) \/ SleepInP(p) \/ WakeUp(p) \/ Kill(p) \/ Recycle(p)
    PROVE  TypeOK'
<1> DEFINE Messages == {"ADD_Q", "REM_Q"} \X Procs
<1>1. /\ up \in {"off", "starting", "on", "exited"} /\ sem \in Int /\ sem >= -1 /\ fifo \in Seq(Messages)
      /\ lst \in ListenerStates /\ rtIndex \in Nat /\ table \in Seq(Entries) /\ ctl \in ControlStates
      /\ pc \in [Procs -> Places] /\ reused \in 0 .. Recycles /\ sig \in [Procs -> Nat]
      /\ awake \in [Procs -> BOOLEAN] /\ pend \in [Procs -> Nat] /\ killed \subseteq Procs
  BY TypeForm
<1>2. UNCHANGED <<up, rtIndex, ctl>>
  BY DEF Respond, Reply, ReplyUnread, AddQueue, AddP, AddWrite, AddV, RemQueue, RemP, RemWrite, RemV,
         Sleep, SleepInP, WakeUp, Kill, Recycle, schedVars
<1>3. sem' \in Int /\ sem' >= -1
  <2>1. sem' = sem \/ (sem > 0 /\ sem' = sem - 1) \/ (sem >= 0 /\ sem' = sem + 1)
    BY DEF Respond, Reply, ReplyUnread, AddQueue, AddP, AddWrite, AddV, RemQueue, RemP, RemWrite, RemV,
           Sleep, SleepInP, WakeUp, Kill, Recycle, V
  <2> QED
    BY <1>1, <2>1
<1>4. fifo' \in Seq(Messages)
  <2>1. Append(fifo, <<"ADD_Q", p>>) \in Seq(Messages) /\ Append(fifo, <<"REM_Q", p>>) \in Seq(Messages)
    BY <1>1, AppendProperties
  <2> HIDE DEF Messages
  <2> QED
    BY <1>1, <2>1
    DEF Respond, Reply, ReplyUnread, AddQueue, AddP, AddWrite, AddV, RemQueue, RemP, RemWrite, RemV,
        Sleep, SleepInP, WakeUp, Kill, Recycle
<1>5. lst' \in ListenerStates
  <2>1. \/ lst' = lst \/ lst' = [lst EXCEPT !.at = "ack"]
        \/ lst' = [at |-> "read", pid |-> NoProc, sig |-> 0]
    BY DEF Respond, Reply, ReplyUnread, AddQueue, AddP, AddWrite, AddV, RemQueue, RemP, RemWrite, RemV,
           Sleep, SleepInP, WakeUp, Kill, Recycle, schedVars
  <2> QED
    <3>1. [lst EXCEPT !.at = "ack"] \in ListenerStates
      BY <1>1 DEF ListenerStates
    <3>2. [at |-> "read", pid |-> NoProc, sig |-> 0] \in ListenerStates
      BY DEF ListenerStates
    <3> QED
      BY <1>1, <2>1, <3>1, <3>2
<1>6. \E to \in Places : pc' = [pc EXCEPT ![p] = to] \/ pc' = pc
  BY DEF Respond, Reply, ReplyUnread, AddQueue, AddP, AddWrite, AddV, RemQueue, RemP, RemWrite, RemV,
         Sleep, SleepInP, WakeUp, Kill, Recycle, At, Places, Adding, Removing, Ended
<1>7. pc' \in [Procs -> Places]
  BY <1>1, <1>6
<1>8. reused' \in 0 .. Recycles
  BY <1>1, CfsAssumption
  DEF Respond, Reply, ReplyUnread, AddQueue, AddP, AddWrite, AddV, RemQueue, RemP, RemWrite, RemV,
      Sleep, SleepInP, WakeUp, Kill, Recycle
<1>9. lst.sig \in Nat
  BY <1>1 DEF ListenerStates
<1>10. sig' \in [Procs -> Nat] /\ pend' \in [Procs -> Nat]
  <2>1. /\ sig' = sig \/ \E n \in Nat : sig' = [sig EXCEPT ![p] = n]
        /\ \/ pend' = pend \/ pend' = [pend EXCEPT ![p] = @ + 1] \/ pend' = [pend EXCEPT ![p] = 0]
           \/ pend[p] > 0 /\ pend' = [pend EXCEPT ![p] = @ - 1]
    BY <1>9
    DEF Respond, Reply, ReplyUnread, AddQueue, AddP, AddWrite, AddV, RemQueue, RemP, RemWrite, RemV,
        Sleep, SleepInP, WakeUp, Kill, Recycle, Registered
  <2>2. pend[p] \in Nat
    BY <1>1
  <2>3. sig' \in [Procs -> Nat]
    BY <1>1, <2>1
  <2>4. \E n \in Nat : pend' = pend \/ pend' = [pend EXCEPT ![p] = n]
    <3>1. pend[p] + 1 \in Nat /\ (pend[p] > 0 => pend[p] - 1 \in Nat)
      BY <2>2
    <3> QED
      BY <2>1, <3>1
  <2> QED
    BY <1>1, <2>3, <2>4
<1>11. awake' \in [Procs -> BOOLEAN] /\ killed' \subseteq Procs
  BY <1>1 DEF Respond, Reply, ReplyUnread, AddQueue, AddP, AddWrite, AddV, RemQueue, RemP, RemWrite, RemV,
              Sleep, SleepInP, WakeUp, Kill, Recycle
<1>12. table' \in Seq(Entries)
  <2>1. table' = table \/ \E e \in Entries : table' = Append(table, e)
    <3>1. Entry(p, lst.sig) \in Entries
      BY <1>9 DEF Entry, Entries
    <3> QED
      BY <3>1 DEF Respond, Reply, ReplyUnread, AddQueue, AddP, AddWrite, AddV, RemQueue, RemP, RemWrite, RemV,
                  Sleep, SleepInP, WakeUp, Kill, Recycle, schedVars, Registered
  <2>2. ASSUME NEW e \in Entries PROVE Append(table, e) \in Seq(Entries)
    BY <1>1, AppendProperties
  <2> QED
    BY <1>1, <2>1, <2>2
<1>13. TypeOK'
  <2>1. fifo' \in Seq({"ADD_Q", "REM_Q"} \X Procs) /\ UNCHANGED <<up, rtIndex, ctl>>
    BY <1>2, <1>4
  <2> QED
    BY <1>1, <1>3, <1>5, <1>7, <1>8, <1>10, <1>11, <1>12, <2>1
    DEF TypeOK, ListenerStates, Entries, ControlStates, Places
<1> QED
  BY <1>13
-----------------------------------------------------------------------------
(* Signals and places.                                                      *)

\* The listener and its counter change in three steps only.
LEMMA ListenerStays ==
    ASSUME [Next]_vars
    PROVE  ListenAdd \/ (\E p \in Procs : Respond(p) \/ Reply(p)) \/ UNCHANGED <<lst, rtIndex>>
  BY CfsSteps
  DEF Start, StartListener, Shutdown, ListenIllegal, ListenRem, Skip, Take, Wake, EndSlice, ReplyUnread, AddQueue, AddP,
      AddWrite, AddV, RemQueue, RemP, RemWrite, RemV, Sleep, SleepInP, WakeUp, Kill, Recycle, schedVars, vars

\* A fresh signal stays fresh until the answer to the process it was taken for.
LEMMA FreshGrows ==
    ASSUME TypeOK, SignalInv, [Next]_vars
    PROVE  /\ Fresh \in Nat /\ Fresh' \in Nat /\ Fresh <= Fresh'
           /\ (\E p \in Procs : Reply(p)) => lst.sig = Fresh /\ Fresh < Fresh' /\ lst.sig > 0
           /\ lst'.at # "read" => lst'.sig = rtIndex' /\ lst'.sig > 0
<1>1. lst \in ListenerStates /\ rtIndex \in Nat
  BY TypeForm
<1>2. lst.sig \in Nat /\ (lst.at # "read" => lst.sig = rtIndex /\ lst.sig > 0)
  BY <1>1 DEF ListenerStates, SignalInv
<1>3. Fresh' = IF lst'.at = "read" THEN rtIndex' + 1 ELSE lst'.sig
  BY DEF Fresh
<1>4. CASE ListenAdd
  <2>1. lst.at = "read" /\ rtIndex' = rtIndex + 1 /\ lst'.at = "resp" /\ lst'.sig = rtIndex + 1
    BY <1>4 DEF ListenAdd, Signum
  <2> QED
    BY <1>1, <1>2, <1>3, <2>1 DEF Fresh, ListenAdd, Reply
<1>5. ASSUME NEW p \in Procs, Respond(p) PROVE UNCHANGED rtIndex /\ lst.at = "resp" /\ lst'.at = "ack" /\ lst'.sig = lst.sig
  BY <1>1, <1>5 DEF Respond, ListenerStates
<1>6. ASSUME NEW p \in Procs, Reply(p) PROVE UNCHANGED rtIndex /\ lst.at = "ack" /\ lst'.at = "read"
  BY <1>6 DEF Reply
<1>7. CASE \E p \in Procs : Respond(p)
  <2>1. UNCHANGED rtIndex /\ lst.at = "resp" /\ lst'.at = "ack" /\ lst'.sig = lst.sig
    BY <1>5, <1>7
  <2>2. ~ \E p \in Procs : Reply(p)
    BY <2>1 DEF Reply
  <2> QED
    BY <1>1, <1>2, <1>3, <2>1, <2>2 DEF Fresh
<1>8. CASE \E p \in Procs : Reply(p)
  BY <1>1, <1>2, <1>3, <1>6, <1>8 DEF Fresh
<1>9. CASE UNCHANGED <<lst, rtIndex>> /\ ~ \E p \in Procs : Reply(p)
  BY <1>1, <1>2, <1>3, <1>9 DEF Fresh
<1> QED
  BY <1>4, <1>7, <1>8, <1>9, ListenerStays

\* The steps that change the signals of processes.
LEMMA SigStays ==
    ASSUME [Next]_vars
    PROVE  \/ UNCHANGED sig
           \/ \E p \in Procs : \/ Reply(p) /\ sig' = [sig EXCEPT ![p] = lst.sig]
                               \/ Recycle(p) /\ sig' = [sig EXCEPT ![p] = 0]
  BY CfsSteps
  DEF Start, StartListener, Shutdown, ListenAdd, ListenIllegal, ListenRem, Skip, Take, Wake, EndSlice, Respond, Reply,
      ReplyUnread, AddQueue, AddP, AddWrite, AddV, RemQueue, RemP, RemWrite, RemV, Sleep, SleepInP, WakeUp,
      Kill, Recycle, procVars, vars

\* The steps that change the table.
LEMMA TableStays ==
    ASSUME [Next]_vars
    PROVE  \/ UNCHANGED table
           \/ \E p \in Procs : Reply(p) /\ table' = Append(table, Entry(p, lst.sig))
           \/ \E p : table' = Freed(p) /\ UNCHANGED ctl
  BY CfsSteps
  DEF Start, StartListener, Shutdown, ListenAdd, ListenIllegal, ListenRem, Skip, Take, Wake, EndSlice, Respond, Reply,
      ReplyUnread, AddQueue, AddP, AddWrite, AddV, RemQueue, RemP, RemWrite, RemV, Sleep, SleepInP, WakeUp,
      Kill, Recycle, Registered, schedVars, vars

\* The steps that change the control thread.
LEMMA ControlStays ==
    ASSUME [Next]_vars
    PROVE  UNCHANGED ctl \/ Skip \/ Take \/ Wake \/ EndSlice
  BY CfsSteps
  DEF Start, StartListener, Shutdown, ListenAdd, ListenIllegal, ListenRem, Respond, Reply, ReplyUnread, AddQueue, AddP,
      AddWrite, AddV, RemQueue, RemP, RemWrite, RemV, Sleep, SleepInP, WakeUp, Kill, Recycle, schedVars, vars

\* Entries hold numbers.
LEMMA EntrySigs == ASSUME TypeOK PROVE \A i \in DOMAIN table : table[i].sig \in Nat
<1>1. table \in Seq(Entries)
  BY TypeForm
<1>2. \A i \in DOMAIN table : table[i] \in Entries
  BY <1>1
<1> QED
  BY <1>2 DEF Entries

\* Signals handed out stay earlier than the fresh one.
LEMMA SignalNext ==
    ASSUME TypeOK, SignalInv, [Next]_vars
    PROVE  SignalInv'
<1>1. /\ lst \in ListenerStates /\ table \in Seq(Entries) /\ ctl \in ControlStates
      /\ sig \in [Procs -> Nat]
  BY TypeForm
<1>2. PICK f \in Nat, g \in Nat : f = Fresh /\ g = Fresh' /\ f <= g
  BY FreshGrows
<1>3. ASSUME \E p \in Procs : Reply(p) PROVE lst.sig = f /\ f < g /\ lst.sig > 0
  BY <1>2, <1>3, FreshGrows
<1>4. /\ \A p \in Procs : sig[p] < f
      /\ \A i \in DOMAIN table : table[i].sig > 0 /\ table[i].sig < f
      /\ ctl.sig < f /\ (ctl.at # "scan" => ctl.sig > 0)
      /\ ctl.thid > 0 /\ (ctl.thid <= Len(table) \/ ctl.thid = 1)
  BY <1>2 DEF SignalInv
<1>5. PICK n \in Nat : n = Len(table) /\ DOMAIN table = 1 .. n
  BY <1>1
<1>6. \A p \in Procs : sig'[p] < g
  <2>1. CASE UNCHANGED sig
    BY <1>1, <1>2, <1>4, <2>1
  <2>2. ASSUME NEW p \in Procs, Reply(p), sig' = [sig EXCEPT ![p] = lst.sig] PROVE \A q \in Procs : sig'[q] < g
    <3>1. lst.sig < g
      BY <1>3, <2>2
    <3> QED
      BY <1>1, <1>2, <1>4, <2>2, <3>1
  <2>3. ASSUME NEW p \in Procs, sig' = [sig EXCEPT ![p] = 0] PROVE \A q \in Procs : sig'[q] < g
    <3>1. 0 < g
      BY <1>1, <1>2, <1>4
    <3> QED
      BY <1>1, <1>2, <1>4, <2>3, <3>1
  <2> QED
    BY <2>1, <2>2, <2>3, SigStays
<1>7. PICK m \in Nat : /\ m = Len(table') /\ m >= n /\ DOMAIN table' = 1 .. m
                       /\ \A i \in 1 .. m : table'[i].sig > 0 /\ table'[i].sig < g
  <2>1. CASE UNCHANGED table
    <3>1. \A i \in 1 .. n : table[i].sig \in Nat
      BY <1>5, EntrySigs
    <3> QED
      BY <1>2, <1>4, <1>5, <2>1, <3>1
  <2>2. ASSUME NEW p \in Procs, Reply(p), table' = Append(table, Entry(p, lst.sig))
        PROVE  /\ Len(table') = n + 1 /\ DOMAIN table' = 1 .. n + 1
               /\ \A i \in 1 .. n + 1 : table'[i].sig > 0 /\ table'[i].sig < g
    <3>1. lst.sig \in Nat /\ lst.sig > 0 /\ lst.sig = f /\ f < g
      BY <1>1, <1>3, <2>2 DEF ListenerStates
    <3>2. Entry(p, lst.sig) \in Entries /\ Entry(p, lst.sig).sig = lst.sig
      BY <3>1 DEF Entry, Entries
    <3>3. PICK e \in Entries : e = Entry(p, lst.sig) /\ e.sig = lst.sig
      BY <3>2
    <3>4. /\ Append(table, e) \in Seq(Entries) /\ Len(Append(table, e)) = n + 1
          /\ \A i \in 1 .. n : Append(table, e)[i] = table[i]
          /\ Append(table, e)[n + 1] = e
      BY <1>1, <1>5, AppendProperties
    <3>5. \A i \in 1 .. n : table[i].sig \in Nat
      BY <1>5, EntrySigs
    <3>6. DOMAIN table' = 1 .. n + 1
      BY <2>2, <3>3, <3>4
    <3>7. ASSUME NEW i \in 1 .. n + 1 PROVE table'[i].sig > 0 /\ table'[i].sig < g
      <4>1. CASE i \in 1 .. n
        BY <1>2, <1>4, <1>5, <2>2, <3>3, <3>4, <3>5, <4>1
      <4>2. CASE i = n + 1
        BY <2>2, <3>1, <3>3, <3>4, <4>2
      <4> QED
        BY <4>1, <4>2
    <3> QED
      BY <2>2, <3>3, <3>4, <3>6, <3>7
  <2>3. ASSUME NEW p, table' = Freed(p)
        PROVE  /\ Len(table') = n /\ DOMAIN table' = 1 .. n
               /\ \A i \in 1 .. n : table'[i].sig > 0 /\ table'[i].sig < g
    <3>1. /\ Len(table') = Len(table) /\ DOMAIN table' = DOMAIN table
          /\ \A i \in DOMAIN table : table'[i].sig = table[i].sig
      BY <1>1, <2>3, FreedKeeps
    <3>2. \A i \in 1 .. n : table[i].sig \in Nat
      BY <1>5, EntrySigs
    <3> QED
      BY <1>2, <1>4, <1>5, <3>1, <3>2
  <2>4. n + 1 \in Nat /\ n + 1 >= n
    OBVIOUS
  <2> QED
    BY <2>1, <2>2, <2>3, <2>4, TableStays
<1>8. /\ ctl'.sig < g /\ (ctl'.at # "scan" => ctl'.sig > 0)
      /\ ctl'.thid > 0 /\ (ctl'.thid <= m \/ ctl'.thid = 1)
  <2>1. ctl.sig \in Nat /\ ctl.thid \in Nat
    BY <1>1 DEF ControlStates
  <2>2. PICK h \in Nat : h = NextEntry(ctl.thid) /\ h > 0 /\ (h <= n \/ h = 1)
    BY <1>5, <2>1, NextThere
  <2>3. CASE UNCHANGED ctl
    BY <1>2, <1>4, <1>5, <1>7, <2>1, <2>3
  <2>4. CASE Take
    <3>1. ctl.thid \in 1 .. n /\ table[ctl.thid] \in Entries
      BY <1>5, <2>4, EntryThere DEF Take
    <3>2. table[ctl.thid].sig \in Nat /\ table[ctl.thid].sig > 0 /\ table[ctl.thid].sig < f
      BY <1>4, <1>5, <3>1 DEF Entries
    <3>3. ctl'.sig = table[ctl.thid].sig /\ ctl'.thid = ctl.thid
      BY <2>4 DEF Take
    <3> QED
      BY <1>2, <1>5, <1>7, <3>1, <3>2, <3>3
  <2>5. CASE Skip \/ Wake
    <3>1. ctl'.sig = ctl.sig /\ (ctl'.at # "scan" => ctl.at # "scan") /\ ctl'.thid = h
      BY <1>1, <2>2, <2>5 DEF Skip, Wake, ControlStates
    <3> QED
      BY <1>2, <1>4, <1>7, <2>1, <2>2, <3>1
  <2>6. CASE EndSlice
    <3>1. ctl'.sig = 0 /\ ctl'.at = "scan" /\ ctl'.thid = ctl.thid
      BY <1>1, <2>6 DEF EndSlice, ControlStates
    <3> QED
      BY <1>2, <1>4, <1>5, <1>7, <2>1, <3>1
  <2> QED
    BY <2>3, <2>4, <2>5, <2>6, ControlStays
<1>9. lst'.at # "read" => lst'.sig = rtIndex' /\ lst'.sig > 0
  BY FreshGrows
<1> QED
  BY <1>2, <1>6, <1>7, <1>8, <1>9 DEF SignalInv

-----------------------------------------------------------------------------
(* A process in add_queue.                                                  *)

\* Places before the answer, where a process has no signal yet.
Unanswered == {"new", "add", "addWrite", "addOpen", "addReply", "lost"}

\* A process has no signal before it is answered.
LEMMA AskNext ==
    ASSUME TypeOK, AskInv, [Next]_vars
    PROVE  AskInv'
<1>1. pc \in [Procs -> Places] /\ sig \in [Procs -> Nat]
  BY TypeForm
<1>2. \A q \in Procs : pc[q] \in Unanswered => sig[q] = 0
  BY DEF AskInv, Unanswered, Adding
<1>3. ASSUME NEW q \in Procs, pc'[q] \in Unanswered
      PROVE  pc[q] \in Unanswered \/ \E p \in Procs : p = q /\ Recycle(p)
  <2>1. UNCHANGED pc \/ \E p \in Procs, to \in Places :
                             /\ pc' = [pc EXCEPT ![p] = to]
                             /\ to \in Unanswered => pc[p] \in Unanswered \/ Recycle(p)
    <3> DEFINE To(p, to) == to \in Places /\ pc' = [pc EXCEPT ![p] = to]
                             /\ (to \in Unanswered => pc[p] \in Unanswered \/ Recycle(p))
    <3>1. ASSUME \/ Start \/ StartListener \/ Shutdown \/ ListenAdd \/ ListenIllegal \/ ListenRem
                 \/ Skip \/ Take \/ Wake \/ EndSlice \/ UNCHANGED vars
          PROVE  UNCHANGED pc
      BY <3>1 DEF Start, StartListener, Shutdown, ListenAdd, ListenIllegal, ListenRem, Skip, Take, Wake, EndSlice, procVars, vars
    <3>2. ASSUME NEW p \in Procs, Sleep(p) \/ WakeUp(p) PROVE UNCHANGED pc
      BY <3>2 DEF Sleep, WakeUp
    <3>3. ASSUME NEW p \in Procs, AddQueue(p) PROVE To(p, "run") \/ To(p, "add")
      BY <3>3 DEF AddQueue, At, Unanswered, Places, Adding
    <3>4. ASSUME NEW p \in Procs, AddP(p) \/ AddWrite(p) \/ Respond(p)
          PROVE  \/ To(p, "addWrite") \/ To(p, "addOpen") \/ To(p, "lost") \/ To(p, "addV")
                 \/ To(p, "addReply")
      BY <3>4 DEF AddP, AddWrite, Respond, At, Unanswered, Places, Adding
    <3>5. ASSUME NEW p \in Procs, Reply(p) \/ ReplyUnread(p) \/ AddV(p)
          PROVE  To(p, "addV") \/ To(p, "run")
      BY <3>5 DEF Reply, ReplyUnread, AddV, At, Unanswered, Places, Adding
    <3>6. ASSUME NEW p \in Procs, RemQueue(p) \/ RemP(p) \/ RemWrite(p) \/ RemV(p) \/ SleepInP(p) \/ Kill(p)
          PROVE  To(p, "gone") \/ To(p, "rem") \/ To(p, "remWrite") \/ To(p, "remV") \/ To(p, "dead")
      BY <3>6 DEF RemQueue, RemP, RemWrite, RemV, SleepInP, Kill, At, Unanswered, Places, Removing, Ended
    <3>7. ASSUME NEW p \in Procs, Recycle(p) PROVE To(p, "new")
      BY <3>7 DEF Recycle, Unanswered, Places
    <3>8. UNCHANGED pc \/ \E p \in Procs : \E to : To(p, to)
      <4> HIDE DEF To
      <4> QED
        BY <3>1, <3>2, <3>3, <3>4, <3>5, <3>6, <3>7, CfsSteps
    <3> QED
      BY <3>8
  <2> QED
    BY <1>1, <1>3, <2>1
<1>4. ASSUME NEW q \in Procs, pc'[q] \in Unanswered PROVE sig'[q] = 0
  <2>1. CASE Recycle(q)
    BY <1>1, <2>1 DEF Recycle
  <2>2. CASE ~ Recycle(q)
    <3>1. pc[q] \in Unanswered /\ sig[q] = 0
      BY <1>2, <1>3, <1>4, <2>2
    <3>2. ~ Reply(q)
      BY <1>1, <1>4 DEF Reply, Unanswered
    <3> QED
      BY <1>1, <2>2, <3>1, <3>2, SigStays
  <2> QED
    BY <2>1, <2>2
<1> QED
  BY <1>4 DEF AskInv, Unanswered, Adding

-----------------------------------------------------------------------------
(* Toggles.                                                                 *)

\* Process p is in the share it was woken for.
InShare(p) == Share(p) /\ ctl.sig = sig[p]

\* The conjunct of ToggleInv about one process.
InStep(p) ==
    pc[p] \notin Ended =>
      /\ sig[p] = 0 => pend[p] = 0 /\ awake[p]
      /\ sig[p] # 0 => (Runs(awake[p], pend[p]) <=> InShare(p))

\* ToggleInv, process by process.
LEMMA ToggleForm == ToggleInv <=> \A p \in Procs : InStep(p)
  BY DEF ToggleInv, InStep, InShare, RunsAfter, Runs

\* The steps that change a signal, a toggle, the control thread, or that begin
\* a life; in every other step of the system none of these changes.
LEMMA ToggleSteps ==
    ASSUME [Next]_vars
    PROVE  \/ Skip \/ Take \/ Wake \/ EndSlice
           \/ \E p \in Procs : Reply(p) \/ Sleep(p) \/ SleepInP(p) \/ WakeUp(p) \/ Kill(p) \/ Recycle(p)
           \/ UNCHANGED <<sig, awake, pend, ctl>> /\ \A q \in Procs : pc[q] \in Ended => pc'[q] = pc[q]
<1>1. CASE Start \/ StartListener \/ Shutdown \/ ListenAdd \/ ListenIllegal \/ ListenRem \/ UNCHANGED vars
  BY <1>1 DEF Start, StartListener, Shutdown, ListenAdd, ListenIllegal, ListenRem, procVars, schedVars, vars
<1>2. ASSUME NEW p \in Procs,
             \/ Respond(p) \/ ReplyUnread(p) \/ AddQueue(p) \/ AddP(p) \/ AddWrite(p) \/ AddV(p)
             \/ RemQueue(p) \/ RemP(p) \/ RemWrite(p) \/ RemV(p)
      PROVE  /\ UNCHANGED <<sig, awake, pend, ctl>>
             /\ pc[p] \notin Ended /\ \E to : pc' = [pc EXCEPT ![p] = to]
  BY <1>2 DEF Respond, ReplyUnread, AddQueue, AddP, AddWrite, AddV, RemQueue, RemP, RemWrite, RemV,
              At, schedVars, Ended
<1>3. ASSUME NEW p \in Procs, pc[p] \notin Ended, \E to : pc' = [pc EXCEPT ![p] = to]
      PROVE  \A q \in Procs : pc[q] \in Ended => pc'[q] = pc[q]
  BY <1>3
<1> QED
  BY <1>1, <1>2, <1>3, CfsSteps

\* A process whose toggle, signal and share do not change stays in step.
LEMMA Quiet ==
    ASSUME NEW q \in Procs, InStep(q), pc'[q] \notin Ended => pc[q] \notin Ended,
           sig'[q] = sig[q], awake'[q] = awake[q], pend'[q] = pend[q], InShare(q)' <=> InShare(q)
    PROVE  InStep(q)'
  BY DEF InStep, Runs

\* A delivered signal changes nothing: who was to sleep sleeps.
LEMMA Delivered ==
    ASSUME TypeOK, ToggleInv, NEW p \in Procs, NEW q \in Procs, pc[p] \notin Ended, pend[p] > 0,
           pend' = [pend EXCEPT ![p] = @ - 1], awake' = [awake EXCEPT ![p] = ~ @],
           UNCHANGED <<sig, ctl>>, pc'[q] \notin Ended => pc[q] \notin Ended
    PROVE  InStep(q)'
<1>1. pend \in [Procs -> Nat] /\ awake \in [Procs -> BOOLEAN]
  BY TypeForm
<1>2. InStep(q)
  BY ToggleForm
<1>3. InShare(q)' <=> InShare(q)
  BY DEF InShare, Share
<1>4. CASE q # p
  <2>1. pend'[q] = pend[q] /\ awake'[q] = awake[q]
    BY <1>1, <1>4
  <2> QED
    BY <1>2, <1>3, <2>1, Quiet
<1>5. CASE q = p
  <2>1. PICK n \in Nat, a \in BOOLEAN : n = pend[p] /\ a = awake[p]
    BY <1>1
  <2>2. pend'[p] = n - 1 /\ awake'[p] = ~ a /\ n > 0
    BY <1>1, <2>1
  <2>3. Runs(~ a, n - 1) <=> Runs(a, n)
    BY <2>2, Toggles
  <2>4. sig[p] # 0 /\ sig'[p] = sig[p] /\ (Runs(a, n) <=> InShare(p))
    BY <1>2, <1>5, <2>1, <2>2 DEF InStep
  <2>5. Runs(awake'[p], pend'[p]) <=> InShare(p)'
    BY <1>3, <1>5, <2>2, <2>3, <2>4
  <2> QED
    BY <1>5, <2>4, <2>5 DEF InStep
<1> QED
  BY <1>4, <1>5

\* The signal of the control thread turns the toggle of the process it was
\* read for, and of no other; and it ends or begins just that share.
LEMMA Signalled ==
    ASSUME TypeOK, ToggleInv, SignalInv, Wake \/ EndSlice, NEW q \in Procs
    PROVE  InStep(q)'
<1>1. pend \in [Procs -> Nat] /\ awake \in [Procs -> BOOLEAN] /\ sig \in [Procs -> Nat] /\ ctl \in ControlStates
  BY TypeForm
<1>2. InStep(q)
  BY ToggleForm
<1>3. pend' = Queued(ctl.pid, ctl.sig) /\ UNCHANGED <<pc, sig, awake>> /\ ctl.at # "scan"
  BY DEF Wake, EndSlice
<1>4. ctl.sig \in Nat /\ ctl.sig > 0
  BY <1>1, <1>3 DEF ControlStates, SignalInv
<1>5. \/ ctl.at = "wake" /\ ctl'.at = "slice" /\ ctl'.pid = ctl.pid /\ ctl'.sig = ctl.sig
      \/ ctl.at = "slice" /\ ctl'.at = "scan"
  BY <1>1 DEF Wake, EndSlice, ControlStates
<1>6. CASE ctl.pid = q /\ ctl.sig = sig[q]
  <2>1. InShare(q)' <=> ~ InShare(q)
    BY <1>3, <1>5, <1>6 DEF InShare, Share
  <2>2. SUFFICES ASSUME pc[q] \notin Ended PROVE InStep(q)'
    BY <1>3 DEF InStep
  <2>3. q # NoProc \/ pend' = pend
    BY <1>3, <1>6 DEF Queued
  <2>4. CASE q # NoProc
    <3>1. pend' = [pend EXCEPT ![q] = @ + 1]
      BY <1>3, <1>6, <2>2, <2>4 DEF Queued
    <3>2. PICK n \in Nat, a \in BOOLEAN : n = pend[q] /\ a = awake[q]
      BY <1>1
    <3>3. pend'[q] = n + 1 /\ awake'[q] = a /\ sig'[q] = sig[q] /\ sig[q] # 0
      BY <1>1, <1>3, <1>4, <1>6, <3>1, <3>2
    <3>4. Runs(a, n + 1) <=> ~ Runs(a, n)
      BY Toggles
    <3>5. Runs(a, n) <=> InShare(q)
      BY <1>2, <2>2, <3>2, <3>3 DEF InStep
    <3>6. Runs(awake'[q], pend'[q]) <=> InShare(q)'
      BY <2>1, <3>3, <3>4, <3>5
    <3> QED
      BY <3>3, <3>6 DEF InStep
  <2> QED
    BY <2>4, CfsAssumption
<1>7. CASE ~ (ctl.pid = q /\ ctl.sig = sig[q])
  <2>1. ~ InShare(q) /\ ~ InShare(q)'
    BY <1>3, <1>5, <1>7 DEF InShare, Share
  <2>2. pend'[q] = pend[q] \/ (ctl.pid = q /\ pend' = pend)
    <3>1. CASE ctl.pid = q
      BY <1>3, <1>7, <3>1 DEF Queued
    <3>2. CASE ctl.pid # q
      BY <1>1, <1>3, <3>2 DEF Queued
    <3> QED
      BY <3>1, <3>2
  <2> QED
    BY <1>2, <1>3, <2>1, <2>2, Quiet
<1> QED
  BY <1>6, <1>7

\* A registered process has the fresh signal, which no share is about, and one
\* signal queued, which puts it to sleep.
LEMMA Answered ==
    ASSUME TypeOK, ToggleInv, SignalInv, AskInv, NEW p \in Procs, Reply(p), NEW q \in Procs
    PROVE  InStep(q)'
<1>1. /\ pend \in [Procs -> Nat] /\ awake \in [Procs -> BOOLEAN] /\ sig \in [Procs -> Nat]
      /\ pc \in [Procs -> Places] /\ ctl \in ControlStates /\ lst \in ListenerStates
  BY TypeForm
<1>2. InStep(q)
  BY ToggleForm
<1>3. /\ pc[p] = "addReply" /\ awake[p] /\ pc' = [pc EXCEPT ![p] = "addV"] /\ UNCHANGED <<awake, ctl>>
      /\ \/ UNCHANGED <<sig, pend>>
         \/ sig' = [sig EXCEPT ![p] = lst.sig] /\ pend' = [pend EXCEPT ![p] = @ + 1]
  BY DEF Reply, Registered
<1>4. pc'[q] \notin Ended => pc[q] \notin Ended
  BY <1>1, <1>3 DEF Ended
<1>5. CASE q # p \/ UNCHANGED <<sig, pend>>
  <2>1. sig'[q] = sig[q] /\ pend'[q] = pend[q] /\ awake'[q] = awake[q]
    BY <1>1, <1>3, <1>5
  <2>2. InShare(q)' <=> InShare(q)
    BY <1>3, <2>1 DEF InShare, Share
  <2> QED
    BY <1>2, <1>4, <2>1, <2>2, <1>3, Quiet
<1>6. CASE q = p /\ sig' = [sig EXCEPT ![p] = lst.sig] /\ pend' = [pend EXCEPT ![p] = @ + 1]
  <2>1. sig[p] = 0 /\ pend[p] = 0
    BY <1>2, <1>3, <1>6 DEF AskInv, Adding, InStep, Ended
  <2>2. sig'[p] = lst.sig /\ pend'[p] = 0 + 1 /\ awake'[p] = TRUE
    BY <1>1, <1>3, <1>6, <2>1
  <2>3. ctl.sig < lst.sig /\ lst.sig > 0 /\ lst.sig \in Nat /\ ctl.sig \in Nat
    BY <1>1 DEF Reply, SignalInv, Fresh, ListenerStates, ControlStates
  <2>4. ~ InShare(p)' /\ sig'[p] # 0
    BY <1>3, <2>2, <2>3 DEF InShare
  <2>5. ~ Runs(awake'[p], pend'[p])
    <3>1. TRUE \in BOOLEAN /\ 0 \in Nat
      OBVIOUS
    <3>2. Runs(TRUE, 0) /\ (Runs(TRUE, 0 + 1) <=> ~ Runs(TRUE, 0))
      BY <3>1, Toggles
    <3> QED
      BY <2>2, <3>2
  <2> QED
    BY <1>6, <2>4, <2>5 DEF InStep
<1> QED
  BY <1>3, <1>5, <1>6

\* The toggles stay in step.
LEMMA ToggleNext ==
    ASSUME TypeOK, ToggleInv, SignalInv, AskInv, [Next]_vars
    PROVE  ToggleInv'
<1>1. /\ pend \in [Procs -> Nat] /\ awake \in [Procs -> BOOLEAN] /\ sig \in [Procs -> Nat]
      /\ pc \in [Procs -> Places] /\ ctl \in ControlStates
  BY TypeForm
<1>2. SUFFICES ASSUME NEW q \in Procs PROVE InStep(q)'
  BY DEF ToggleInv, InStep, InShare, RunsAfter, Runs
<1>3. InStep(q)
  BY ToggleForm
<1>4. CASE Skip \/ Take
  <2>1. UNCHANGED <<pc, sig, awake, pend>> /\ ctl.at = "scan" /\ ctl'.at # "slice"
    BY <1>1, <1>4 DEF Skip, Take, procVars, ControlStates
  <2>2. InShare(q)' <=> InShare(q)
    BY <2>1 DEF InShare, Share
  <2> QED
    BY <1>3, <2>1, <2>2, Quiet
<1>5. CASE Wake \/ EndSlice
  BY <1>5, Signalled
<1>6. ASSUME NEW p \in Procs, Reply(p) PROVE InStep(q)'
  BY <1>6, Answered
<1>7. ASSUME NEW p \in Procs, Sleep(p) \/ SleepInP(p) \/ WakeUp(p) PROVE InStep(q)'
  <2>1. /\ pc[p] \notin Ended /\ pend[p] > 0 /\ UNCHANGED <<sig, ctl>>
        /\ pend' = [pend EXCEPT ![p] = @ - 1]
        /\ pc' = pc \/ pc' = [pc EXCEPT ![p] = "remWrite"]
    BY <1>7 DEF Sleep, SleepInP, WakeUp, schedVars, Ended
  <2>2. awake' = [awake EXCEPT ![p] = ~ @]
    <3>1. \/ awake[p] /\ awake' = [awake EXCEPT ![p] = FALSE]
          \/ ~ awake[p] /\ awake' = [awake EXCEPT ![p] = TRUE]
      BY <1>7, Zenon DEF Sleep, SleepInP, WakeUp
    <3>2. awake[p] \in BOOLEAN
      BY <1>1
    <3> QED
      BY <3>1, <3>2
  <2>3. pc'[q] \notin Ended => pc[q] \notin Ended
    BY <1>1, <2>1
  <2> QED
    BY <2>1, <2>2, <2>3, Delivered
<1>8. ASSUME NEW p \in Procs, Kill(p) PROVE InStep(q)'
  <2>1. /\ pc' = [pc EXCEPT ![p] = "dead"] /\ pend' = [pend EXCEPT ![p] = 0]
        /\ UNCHANGED <<sig, awake, ctl>>
    BY <1>8 DEF Kill, schedVars
  <2>2. CASE q = p
    <3>1. pc'[q] \in Ended
      BY <1>1, <2>1, <2>2 DEF Ended
    <3> QED
      BY <3>1 DEF InStep
  <2>3. CASE q # p
    <3>1. pc'[q] = pc[q] /\ pend'[q] = pend[q]
      BY <1>1, <2>1, <2>3
    <3>2. InShare(q)' <=> InShare(q)
      BY <2>1 DEF InShare, Share
    <3> QED
      BY <1>3, <2>1, <3>1, <3>2, Quiet
  <2> QED
    BY <2>2, <2>3
<1>9. ASSUME NEW p \in Procs, Recycle(p) PROVE InStep(q)'
  <2>1. /\ pc' = [pc EXCEPT ![p] = "new"] /\ pend' = [pend EXCEPT ![p] = 0]
        /\ sig' = [sig EXCEPT ![p] = 0] /\ awake' = [awake EXCEPT ![p] = TRUE] /\ UNCHANGED ctl
    BY <1>9 DEF Recycle, schedVars
  <2>2. CASE q = p
    <3>1. sig'[q] = 0 /\ pend'[q] = 0 /\ awake'[q] = TRUE
      BY <1>1, <2>1, <2>2
    <3> QED
      BY <3>1 DEF InStep
  <2>3. CASE q # p
    <3>1. pc'[q] = pc[q] /\ pend'[q] = pend[q] /\ sig'[q] = sig[q] /\ awake'[q] = awake[q]
      BY <1>1, <2>1, <2>3
    <3>2. InShare(q)' <=> InShare(q)
      BY <2>1, <3>1 DEF InShare, Share
    <3> QED
      BY <1>3, <3>1, <3>2, Quiet
  <2> QED
    BY <2>2, <2>3
<1>10. CASE UNCHANGED <<sig, awake, pend, ctl>> /\ \A r \in Procs : pc[r] \in Ended => pc'[r] = pc[r]
  <2>1. InShare(q)' <=> InShare(q)
    BY <1>10 DEF InShare, Share
  <2>2. pc'[q] \notin Ended => pc[q] \notin Ended
    BY <1>10
  <2> QED
    BY <1>3, <1>10, <2>1, <2>2, Quiet
<1> QED
  BY <1>4, <1>5, <1>6, <1>7, <1>8, <1>9, <1>10, ToggleSteps

-----------------------------------------------------------------------------
(* Theorems.                                                                *)

\* CfsInv is inductive.
THEOREM CfsInvariant == Spec => []CfsInv
<1>1. Init => CfsInv
  <2> SUFFICES ASSUME Init PROVE CfsInv
    OBVIOUS
  <2>1. /\ lst = [at |-> "read", pid |-> NoProc, sig |-> 0] /\ rtIndex = 0 /\ table = <<>>
        /\ ctl = [at |-> "scan", thid |-> 1, pid |-> NoProc, sig |-> 0]
        /\ pc = [p \in Procs |-> "new"] /\ sig = [p \in Procs |-> 0]
        /\ awake = [p \in Procs |-> TRUE] /\ pend = [p \in Procs |-> 0]
    BY DEF Init
  <2>2. TypeOK
    <3>1. up \in {"off", "starting", "on", "exited"} /\ sem \in Int /\ sem >= -1 /\ killed \subseteq Procs
      <4>1. up = "off" /\ sem = -1 /\ killed = {}
        BY DEF Init
      <4>2. sem \in Int /\ sem >= -1
        BY <4>1
      <4> QED
        BY <4>1, <4>2
    <3>2. reused \in 0 .. Recycles
      <4>1. reused = 0 /\ Recycles \in Nat
        BY CfsAssumption DEF Init
      <4> QED
        BY <4>1
    <3>3. fifo \in Seq({"ADD_Q", "REM_Q"} \X Procs) /\ table \in Seq(Entries)
      BY <2>1 DEF Init
    <3>4. lst \in ListenerStates /\ ctl \in ControlStates /\ rtIndex \in Nat
      BY <2>1 DEF ListenerStates, ControlStates
    <3>5. /\ pc \in [Procs -> Places] /\ sig \in [Procs -> Nat] /\ awake \in [Procs -> BOOLEAN]
          /\ pend \in [Procs -> Nat]
      BY <2>1 DEF Places
    <3> QED
      BY <3>1, <3>2, <3>3, <3>4, <3>5, TypeForm
  <2>3. SignalInv
    BY <2>1 DEF SignalInv, Fresh
  <2>4. AskInv
    BY <2>1 DEF AskInv
  <2>5. ToggleInv
    BY <2>1 DEF ToggleInv
  <2> QED
    BY <2>2, <2>3, <2>4, <2>5 DEF CfsInv
<1>2. CfsInv /\ [Next]_vars => CfsInv'
  <2> SUFFICES ASSUME CfsInv, [Next]_vars PROVE CfsInv'
    OBVIOUS
  <2>1. TypeOK /\ SignalInv /\ AskInv /\ ToggleInv
    BY DEF CfsInv
  <2>2. TypeOK'
    <3>1. CASE UNCHANGED vars
      BY <2>1, <3>1 DEF TypeOK, vars
    <3> QED
      BY <2>1, <3>1, SchedTypes, ProcTypes, CfsSteps
  <2> QED
    BY <2>1, <2>2, SignalNext, AskNext, ToggleNext DEF CfsInv
<1> QED
  BY <1>1, <1>2, PTL DEF Spec

\* Every variable of the scheduler and of its processes keeps its type, in
\* particular the semaphore never falls below the -1 of a removed one.
THEOREM CfsTypeCorrect == Spec => []TypeOK
<1>1. CfsInv => TypeOK
  BY DEF CfsInv
<1> QED
  BY <1>1, CfsInvariant, PTL

\* The toggles never get out of step: a listed process will be awake, once its
\* signals are delivered, exactly during the share it was woken for.
THEOREM TogglesStayInStep == Spec => []TogglesInStep
<1>1. CfsInv => TogglesInStep
  BY DEF CfsInv, ToggleInv, TogglesInStep, Scheduled
<1> QED
  BY <1>1, CfsInvariant, PTL

\* Of the listed processes one at most will be awake once its signals are
\* delivered: the scheduler gives the device to one at a time.
OneRuns ==
    up = "on" =>
      \A p, q \in Procs :
        Scheduled(p) /\ RunsAfter(p) /\ Scheduled(q) /\ RunsAfter(q) => p = q

\* The control thread never has two processes running, however registrations,
\* ends and kills interleave with its shares.
THEOREM OneProcessRuns == Spec => []OneRuns
<1>1. CfsInv => OneRuns
  <2>1. CfsInv => TogglesInStep
    BY DEF CfsInv, ToggleInv, TogglesInStep, Scheduled
  <2> QED
    BY <2>1 DEF TogglesInStep, OneRuns, Share
<1> QED
  BY <1>1, CfsInvariant, PTL

\* A signal number is handed out once: no two processes hold the same, no two
\* entries of the table name the same, and an entry names that of no process but
\* its own.  The two threads of the scheduler have no lock to see to it.
SignalsOnce ==
    /\ \A p, q \in Procs : sig[p] # 0 /\ sig[p] = sig[q] => p = q
    /\ \A i, j \in DOMAIN table : table[i].sig = table[j].sig => i = j
    /\ \A p \in Procs : \A i \in DOMAIN table :
         table[i].sig = sig[p] => table[i].pid \in {p, NoProc}

\* A freed entry names nobody, or the one it named.
LEMMA FreedPids ==
    ASSUME table \in Seq(Entries), NEW p, NEW t, t = Freed(p), NEW i \in DOMAIN table
    PROVE  t[i].pid \in {table[i].pid, NoProc}
<1>1. PICK n \in Nat : table \in [1 .. n -> Entries]
  OBVIOUS
<1>2. t = table \/ \E k : t = [table EXCEPT ![k].pid = NoProc, ![k].valid = FALSE]
  BY DEF Freed
<1>3. ASSUME NEW k, t = [table EXCEPT ![k].pid = NoProc, ![k].valid = FALSE]
      PROVE  t[i].pid \in {table[i].pid, NoProc}
  <2>1. table[i] \in Entries
    BY <1>1
  <2>2. t[i] = table[i] \/ t[i] = [[table[i] EXCEPT !.pid = NoProc] EXCEPT !.valid = FALSE]
    BY <1>1, <1>3
  <2> QED
    BY <2>1, <2>2 DEF Entries
<1> QED
  BY <1>2, <1>3

\* Every step keeps it: only an answer hands out a signal, and that is later than
\* all others.
LEMMA SignalsOnceNext == ASSUME CfsInv, SignalsOnce, [Next]_vars PROVE SignalsOnce'
<1>1. TypeOK /\ SignalInv /\ table \in Seq(Entries) /\ sig \in [Procs -> Nat]
  BY TypeForm DEF CfsInv
<1>2. PICK n \in Nat : n = Len(table) /\ DOMAIN table = 1 .. n
  BY <1>1
<1>3. PICK f \in Nat : f = Fresh
  BY <1>1, FreshGrows
<1>4. /\ \A p \in Procs : sig[p] < f
      /\ \A i \in DOMAIN table : table[i].sig > 0 /\ table[i].sig < f
  BY <1>1, <1>3 DEF SignalInv
<1>5. \A i \in DOMAIN table : table[i].sig \in Nat
  BY <1>1, EntrySigs
<1>6. ASSUME NEW p \in Procs, Reply(p) PROVE SignalsOnce'
  <2>1. lst.sig = f /\ f > 0
    BY <1>1, <1>3, <1>6, FreshGrows
  <2>2. CASE UNCHANGED <<sig, table>>
    BY <2>2 DEF SignalsOnce
  <2>3. CASE sig' = [sig EXCEPT ![p] = f] /\ table' = Append(table, Entry(p, f))
    <3> DEFINE t == Append(table, Entry(p, f))
    <3>1. /\ DOMAIN t = 1 .. n + 1 /\ t[n + 1] = Entry(p, f)
          /\ \A i \in DOMAIN table : t[i] = table[i]
          /\ \A i \in DOMAIN t : i \in DOMAIN table \/ i = n + 1
      BY <1>1, <1>2
    <3>2. Entry(p, f).sig = f /\ Entry(p, f).pid = p
      BY DEF Entry
    <3>3. sig'[p] = f /\ \A q \in Procs : q # p => sig'[q] = sig[q]
      BY <1>1, <2>3
    <3> HIDE DEF t
    <3>4. \A q, r \in Procs : sig'[q] # 0 /\ sig'[q] = sig'[r] => q = r
      BY <1>1, <1>4, <3>3 DEF SignalsOnce
    <3>5. \A i, j \in DOMAIN t : t[i].sig = t[j].sig => i = j
      BY <1>4, <1>5, <3>1, <3>2 DEF SignalsOnce
    <3>6. \A q \in Procs : \A i \in DOMAIN t : t[i].sig = sig'[q] => t[i].pid \in {q, NoProc}
      BY <1>1, <1>4, <1>5, <3>1, <3>2, <3>3 DEF SignalsOnce
    <3>7. table' = t
      BY <2>3 DEF t
    <3> QED
      BY <3>4, <3>5, <3>6, <3>7 DEF SignalsOnce
  <2> QED
    BY <1>6, <2>1, <2>2, <2>3 DEF Reply, Registered
<1>7. ASSUME NEW p \in Procs, Recycle(p) PROVE SignalsOnce'
  <2>1. sig' = [sig EXCEPT ![p] = 0] /\ table' = table
    BY <1>7 DEF Recycle, schedVars
  <2>2. sig'[p] = 0 /\ \A q \in Procs : q # p => sig'[q] = sig[q]
    BY <1>1, <2>1
  <2> QED
    BY <1>4, <1>5, <2>1, <2>2 DEF SignalsOnce
<1>8. ASSUME UNCHANGED sig, NEW p, table' = Freed(p) PROVE SignalsOnce'
  <2>1. /\ DOMAIN table' = DOMAIN table
        /\ \A i \in DOMAIN table : table'[i].sig = table[i].sig
    BY <1>1, <1>8, FreedKeeps
  <2>2. \A i \in DOMAIN table : table'[i].pid \in {table[i].pid, NoProc}
    BY <1>1, <1>8, FreedPids
  <2> QED
    BY <1>8, <2>1, <2>2 DEF SignalsOnce
<1>9. CASE UNCHANGED <<sig, table>>
  BY <1>9 DEF SignalsOnce
<1> QED
  BY <1>6, <1>7, <1>8, <1>9, SigStays, TableStays

\* No signal number is used for two processes, so none is put to sleep or roused
\* in the place of another.
THEOREM SignalsHandedOutOnce == Spec => []SignalsOnce
<1>1. Init => SignalsOnce
  BY DEF Init, SignalsOnce
<1>2. CfsInv /\ SignalsOnce /\ [Next]_vars => SignalsOnce'
  BY SignalsOnceNext
<1> QED
  BY <1>1, <1>2, CfsInvariant, PTL DEF Spec
=============================================================================

--------------------------- MODULE LasSchedProofs ---------------------------
(***************************************************************************)
(* Proofs about LasSched, for any number of processes, GPUs and table      *)
(* slots, any capacity of the FIFOs and any number of requests.            *)
(***************************************************************************)
EXTENDS LasSched, FiniteSetTheorems, SequenceTheorems, WellFoundedInduction, TLAPS

-----------------------------------------------------------------------------
(* The inductive invariant.                                                 *)

\* Listener g is about to answer: ADD_Q with an index, or GET_PRIORITY.
Adding == Registering \cup {"reply_index"}
Busy == Adding \cup {"reply_priority"}

\* Message k in the FIFO of listener g is a request of p that wants an answer.
AskIn(p, g, k) == fifo[g][k].pid = p /\ fifo[g][k].action \in {"ADD_Q", "GET_PRIORITY"}

\* Listener g is working on such a request.
ServedBy(p, g) == lpc[g] \in Busy /\ pcd[g].pid = p

\* A process makes one such request at a time, and gets one answer.
AskOnce(p) ==
    /\ \A g, h \in GPUs : \A k \in DOMAIN fifo[g], l \in DOMAIN fifo[h] :
         AskIn(p, g, k) /\ AskIn(p, h, l) => g = h /\ k = l
    /\ \A g, h \in GPUs : ServedBy(p, g) /\ ServedBy(p, h) => g = h
    /\ \A g, h \in GPUs : \A k \in DOMAIN fifo[g] : AskIn(p, g, k) => ~ ServedBy(p, h)
    /\ \A g \in GPUs : \A k \in DOMAIN fifo[g] : AskIn(p, g, k) => reply[p] = <<>>
    /\ \A g \in GPUs : ServedBy(p, g) => reply[p] = <<>>
    /\ Len(reply[p]) =< 1

\* A message agrees with the place of its sender.
MsgOk(m, g) ==
    /\ m.action = "ADD_Q" => /\ m.arg = g /\ device[m.pid] = g
                             /\ ppc[m.pid] \in {"add_read", "dead"}
    /\ m.action = "REM_Q" => ppc[m.pid] = "gone"
    /\ m.action = "NOTIFY_SCHED" => index[m.pid] # NoIndex
    /\ m.action = "GET_PRIORITY" => m.arg \in Slots /\ ppc[m.pid] \in {"priority_read", "dead"}

\* So does the message a listener works on.
PcdOk(g) ==
    /\ lpc[g] \in Busy => pcd[g] \in Message
    /\ lpc[g] \in Adding => /\ pcd[g].arg = g /\ device[pcd[g].pid] = g
                            /\ ppc[pcd[g].pid] \in {"add_read", "dead"}
    /\ lpc[g] = "reply_priority" => /\ pcd[g].arg \in Slots
                                    /\ ppc[pcd[g].pid] \in {"priority_read", "dead"}

\* The variables of a process agree with its place.
ProcOk(p) ==
    /\ ppc[p] \in {"add", "add_lost", "add_send", "add_read"} => device[p] # NoGpu /\ signo[p] = NoIndex
    /\ ppc[p] \in {"notify", "notify_send"} => (device[p] # NoGpu <=> signo[p] # NoIndex)
    /\ signo[p] # NoIndex => ppc[p] \in {"notify", "notify_send", "dead"}
    /\ index[p] # NoIndex <=> running_gpu[p] # NoGpu
    /\ ppc[p] \in {"notify_send", "priority", "priority_send", "priority_read", "rem", "rem_send"}
         => index[p] # NoIndex
    /\ index[p] = NoIndex => served[p] = 0
    /\ reply[p] # <<>> => ppc[p] \in {"add_read", "priority_read", "dead"}
    /\ ppc[p] = "add_read" /\ reply[p] # <<>> => reply[p][1] \in Slots

TalkInv ==
    /\ TypeOK
    /\ \A p \in Procs : AskOnce(p) /\ ProcOk(p)
    /\ \A g \in GPUs : PcdOk(g) /\ \A k \in DOMAIN fifo[g] : MsgOk(fifo[g][k], g)

\* Slot i belongs to p and is used for GPU g.
Owns(p, i, g) == process_list[i] = p /\ valid[i] /\ gpu_binding[i] = g

\* It was given to p, who has not taken notice of it.
Granted(p, i, g) ==
    i \in Slots /\ Owns(p, i, g) /\ execution_time[i] = inherited[p] /\ index[p] = NoIndex

OneRegisters ==
    \A g, h \in GPUs : lpc[g] \in Registering /\ lpc[h] \in Registering => g = h

OneSlot ==
    \A i, j \in Slots : process_list[i] = process_list[j] /\ process_list[i] # None => i = j

\* How far the listener of g has come with the registration.
RegOk(g) ==
    /\ lpc[g] \in Registering => index[pcd[g].pid] = NoIndex
    /\ lpc[g] = "reg_pid" => ~ AlreadyAdded(pcd[g].pid)
    /\ lpc[g] \in Registering \ {"reg_pid"} =>
         process_list[count] = pcd[g].pid /\ execution_time[count] = inherited[pcd[g].pid]
    /\ lpc[g] \in Registering \ {"reg_pid", "reg_valid"} => valid[count]
    /\ lpc[g] \in {"reg_priority", "reg_index", "reg_count"} => gpu_binding[count] = g
    /\ lpc[g] = "reg_count" => lidx[g] = count
    /\ lpc[g] = "reply_index" => Granted(pcd[g].pid, lidx[g], g)

\* What a process was told is so.
GrantOk(p) ==
    /\ ppc[p] = "add_read" /\ reply[p] # <<>> => Granted(p, reply[p][1], device[p])
    /\ signo[p] # NoIndex => Granted(p, signo[p], device[p])
    /\ index[p] # NoIndex /\ ppc[p] # "gone" => Owns(p, index[p], running_gpu[p])

\* Message k in the FIFO of listener g reports a time of p.
NoteIn(p, g, k) == fifo[g][k].pid = p /\ fifo[g][k].action = "NOTIFY_SCHED"

\* One report of p at most is on the way.  It is ahead of all requests of p.
NoteOk(p) ==
    /\ \A g \in GPUs : \A k \in DOMAIN fifo[g] : NoteIn(p, g, k) =>
         /\ g = running_gpu[p]
         /\ ppc[p] \in {"priority", "priority_send", "priority_read", "dead"}
         /\ reply[p] = <<>>
         /\ \A h \in GPUs : ~ ServedBy(p, h)
         /\ \A h \in GPUs : \A l \in DOMAIN fifo[h] :
              /\ AskIn(p, h, l) => h = g /\ k < l
              /\ NoteIn(p, h, l) => h = g /\ k = l
         /\ execution_time[index[p]] + fifo[g][k].arg = inherited[p] + served[p]
    /\ index[p] # NoIndex /\ ppc[p] # "gone"
         /\ (\A g \in GPUs : \A k \in DOMAIN fifo[g] : ~ NoteIn(p, g, k))
         => execution_time[index[p]] = inherited[p] + served[p]

OrderInv ==
    /\ OneRegisters /\ OneSlot
    /\ \A g \in GPUs : RegOk(g)
    /\ \A p \in Procs : GrantOk(p) /\ NoteOk(p)

LasInv == TalkInv /\ (Orderly => OrderInv)

-----------------------------------------------------------------------------
(* Steps, sets and FIFOs.                                                   *)

\* A non-empty set of naturals has a least element.
LEMMA LeastNat ==
    ASSUME NEW S \in SUBSET Nat, S # {} PROVE \E m \in S : \A k \in S : m <= k
<1> DEFINE R == OpToRel(<, Nat)
<1>1. IsWellFoundedOn(R, Nat)
  BY NatLessThanWellFounded
<1>2. \A k, m \in Nat : <<k, m>> \in R <=> k < m
  BY DEF OpToRel
<1> HIDE DEF R
<1>3. PICK m \in S : \A k \in S : <<k, m>> \notin R
  BY <1>1, WFMin
<1>4. \A k \in S : ~ (k < m)
  BY <1>2, <1>3
<1> QED
  BY <1>4

\* What the second loop of the control thread compares with is a time.
LEMMA SmallestIn ==
    ASSUME NEW S \in SUBSET Nat, S # {} PROVE Smallest(S) \in S
<1>1. \E m \in S : \A k \in S : m <= k
  BY LeastNat
<1> QED
  BY <1>1 DEF Smallest

\* The slot a listener finds is one of those it looks for.
LEMMA FirstIn == ASSUME NEW S \in SUBSET Slots, S # {} PROVE First(S) \in S
<1>1. S \in SUBSET Nat
  BY LasAssumption DEF Slots
<1>2. \E s \in S : \A u \in S : s <= u
  BY <1>1, LeastNat
<1> QED
  BY <1>2 DEF First

\* Slots and GPUs are counted from 0, and -1 is none of them.
LEMMA Zeros == 0 \in Slots /\ 0 \in GPUs /\ NoGpu \notin GPUs /\ NoIndex \notin Slots
               /\ Slots \subseteq Nat /\ GPUs \subseteq Nat
  BY LasAssumption DEF Slots, GPUs, NoGpu, NoIndex

\* The steps, one by one.
LEMMA LasSteps ==
    ASSUME [Next]_vars
    PROVE  \/ \E p \in Procs : \/ \E g \in GPUs : ServeSetDevice(p, g)
                               \/ ServeCall(p) \/ Close(p) \/ Die(p)
                               \/ AddLost(p) \/ AddCrash(p) \/ AddWait(p) \/ NotifyWait(p) \/ PriorityWait(p) \/ RemWait(p)
                               \/ NotifySkip(p) \/ AddRead(p) \/ PriorityRead(p)
                               \/ AddSend(p) \/ NotifySend(p) \/ PrioritySend(p) \/ RemSend(p)
           \/ \E g \in GPUs : \/ WriteMapping(g) \/ Start(g)
                              \/ TakeAdd(g) \/ TakeAgain(g) \/ TakeRem(g) \/ TakeNotify(g) \/ TakePriority(g)
                              \/ RegPid(g) \/ RegValid(g) \/ RegGpu(g) \/ RegPriority(g) \/ RegIndex(g)
                              \/ RegCount(g) \/ ReplyIndex(g) \/ ReplyPriority(g)
                              \/ Wake(g) \/ Scan(g) \/ Mark(g)
           \/ UNCHANGED vars
  BY DEF Next, ProcStep, Listener, Control, WakeSkip

\* A message is written: it is the last.
LEMMA FifoGrows ==
    ASSUME fifo \in [GPUs -> Seq(Message)], NEW g0 \in GPUs, NEW m \in Message,
           fifo' = [fifo EXCEPT ![g0] = Append(@, m)]
    PROVE  /\ fifo' \in [GPUs -> Seq(Message)]
           /\ \A g \in GPUs : \A k \in DOMAIN fifo'[g] :
                \/ k \in DOMAIN fifo[g] /\ fifo'[g][k] = fifo[g][k]
                \/ g = g0 /\ k = Len(fifo[g0]) + 1 /\ fifo'[g][k] = m
           /\ \A g \in GPUs : \A k \in DOMAIN fifo[g] : k \in DOMAIN fifo'[g] /\ fifo'[g][k] = fifo[g][k]
           /\ \A k \in DOMAIN fifo[g0] : k < Len(fifo[g0]) + 1
           /\ Len(fifo[g0]) + 1 \in DOMAIN fifo'[g0] /\ fifo'[g0][Len(fifo[g0]) + 1] = m
<1> DEFINE f == fifo[g0]
<1>1. f \in Seq(Message) /\ fifo'[g0] = Append(f, m) /\ \A g \in GPUs : g # g0 => fifo'[g] = fifo[g]
  OBVIOUS
<1>2. Append(f, m) \in Seq(Message)
  BY <1>1, AppendProperties
<1>3. /\ Len(f) \in Nat /\ DOMAIN f = 1 .. Len(f) /\ DOMAIN Append(f, m) = 1 .. Len(f) + 1
      /\ Append(f, m)[Len(f) + 1] = m
  BY <1>1, AppendProperties
<1>4. \A k \in DOMAIN f : k \in Nat /\ k < Len(f) + 1 /\ k \in DOMAIN Append(f, m) /\ Append(f, m)[k] = f[k]
  BY <1>1, <1>3, AppendProperties
<1>5. \A k \in DOMAIN Append(f, m) : k \in DOMAIN f \/ k = Len(f) + 1
  BY <1>3
<1>6. fifo' \in [GPUs -> Seq(Message)]
  BY <1>2
<1> HIDE DEF f
<1>7. f = fifo[g0]
  BY DEF f
<1>8. Len(f) + 1 \in DOMAIN Append(f, m)
  BY <1>3
<1> QED
  BY <1>1, <1>3, <1>4, <1>5, <1>6, <1>7, <1>8

\* Nothing is written to a FIFO, and d[g] messages at most are taken from that of g.
Later(d) ==
    /\ d \in [GPUs -> {0, 1}]
    /\ \A g \in GPUs : \A k \in DOMAIN fifo'[g] :
         k \in Nat /\ k + d[g] \in DOMAIN fifo[g] /\ fifo'[g][k] = fifo[g][k + d[g]]

\* The first message of a FIFO is taken.
LEMMA FifoShrinks ==
    ASSUME fifo \in [GPUs -> Seq(Message)], NEW g0 \in GPUs, fifo[g0] # <<>>,
           fifo' = [fifo EXCEPT ![g0] = Tail(@)]
    PROVE  /\ fifo' \in [GPUs -> Seq(Message)]
           /\ Later([g \in GPUs |-> IF g = g0 THEN 1 ELSE 0])
           /\ Head(fifo[g0]) \in Message /\ Head(fifo[g0]) = fifo[g0][1] /\ 1 \in DOMAIN fifo[g0]
           /\ \A k \in DOMAIN fifo'[g0] : k + 1 # 1
           /\ \A g \in GPUs : \A k \in DOMAIN fifo[g] :
                (g = g0 /\ k = 1) \/ \E l \in DOMAIN fifo'[g] : fifo'[g][l] = fifo[g][k]
<1> DEFINE f == fifo[g0]
<1>1. f \in Seq(Message) /\ f # <<>> /\ fifo'[g0] = Tail(f) /\ \A g \in GPUs : g # g0 => fifo'[g] = fifo[g]
  OBVIOUS
<1>2. /\ Tail(f) \in Seq(Message) /\ Len(Tail(f)) = Len(f) - 1 /\ Len(f) \in Nat \ {0}
      /\ DOMAIN Tail(f) = 1 .. Len(Tail(f)) /\ DOMAIN f = 1 .. Len(f)
      /\ Head(f) = f[1] /\ Head(f) \in Message
  BY <1>1, HeadTailProperties
<1>3. \A k \in DOMAIN Tail(f) : Tail(f)[k] = f[k + 1]
  BY <1>1, <1>2, HeadTailProperties
<1>4. \A k \in DOMAIN Tail(f) : k \in Nat /\ k + 1 \in DOMAIN f /\ k + 1 # 1
  BY <1>2
<1>5. fifo' \in [GPUs -> Seq(Message)]
  BY <1>1, <1>2
<1>6. \A k \in DOMAIN f : k = 1 \/ (k - 1 \in DOMAIN Tail(f) /\ Tail(f)[k - 1] = f[k])
  <2>1. ASSUME NEW k \in DOMAIN f, k # 1 PROVE k - 1 \in DOMAIN Tail(f) /\ Tail(f)[k - 1] = f[k]
    <3>1. k \in Nat /\ k - 1 \in DOMAIN Tail(f) /\ (k - 1) + 1 = k
      BY <1>2, <2>1
    <3> QED
      BY <1>3, <3>1
  <2> QED
    BY <2>1
<1>7. ASSUME NEW g \in GPUs, g # g0, NEW k \in DOMAIN fifo[g] PROVE k \in Nat /\ k + 0 = k
  <2>1. fifo[g] \in Seq(Message) /\ DOMAIN fifo[g] = 1 .. Len(fifo[g])
    OBVIOUS
  <2> QED
    BY <2>1
<1> HIDE DEF f
<1>8. f = fifo[g0]
  BY DEF f
<1>9. Later([g \in GPUs |-> IF g = g0 THEN 1 ELSE 0])
  <2> DEFINE d == [g \in GPUs |-> IF g = g0 THEN 1 ELSE 0]
  <2>1. d \in [GPUs -> {0, 1}] /\ d[g0] = 1 /\ \A g \in GPUs : g # g0 => d[g] = 0
    OBVIOUS
  <2> HIDE DEF d
  <2>2. ASSUME NEW g \in GPUs, NEW k \in DOMAIN fifo'[g]
        PROVE  k \in Nat /\ k + d[g] \in DOMAIN fifo[g] /\ fifo'[g][k] = fifo[g][k + d[g]]
    BY <1>1, <1>3, <1>4, <1>7, <1>8, <2>1, <2>2
  <2>3. Later(d)
    BY <2>1, <2>2 DEF Later
  <2> QED
    BY <2>3 DEF d
<1>10. ASSUME NEW g \in GPUs, NEW k \in DOMAIN fifo[g]
       PROVE  (g = g0 /\ k = 1) \/ \E l \in DOMAIN fifo'[g] : fifo'[g][l] = fifo[g][k]
  <2>1. CASE g = g0
    BY <1>1, <1>6, <1>8, <1>10, <2>1
  <2>2. CASE g # g0
    BY <1>1, <1>10, <2>2
  <2> QED
    BY <2>1, <2>2
<1>11. 1 \in DOMAIN f
  BY <1>2
<1>12. \A k \in DOMAIN fifo'[g0] : k + 1 # 1
  BY <1>1, <1>4
<1> QED
  BY <1>2, <1>5, <1>8, <1>9, <1>10, <1>11, <1>12

\* The FIFOs stay as they are.
LEMMA FifoStays ==
    ASSUME fifo \in [GPUs -> Seq(Message)], fifo' = fifo
    PROVE  Later([g \in GPUs |-> 0])
<1>1. ASSUME NEW g \in GPUs, NEW k \in DOMAIN fifo[g] PROVE k \in Nat /\ k + 0 = k
  <2>1. fifo[g] \in Seq(Message) /\ DOMAIN fifo[g] = 1 .. Len(fifo[g])
    OBVIOUS
  <2> QED
    BY <2>1
<1> QED
  BY <1>1 DEF Later

-----------------------------------------------------------------------------
(* Types.                                                                   *)

ProcPlaces == {"serve", "add", "add_lost", "notify", "priority", "rem", "gone", "dead"} \cup Sending \cup Reading
ListenPlaces == {"start", "mapped", "read", "reply_index", "reply_priority"} \cup Registering

\* The types of the variables that only a process changes.
LEMMA ProcTypes ==
    ASSUME TypeOK, UNCHANGED <<slots, listeners, controls>>,
           fifo' \in [GPUs -> Seq(Message)], reply' \in [Procs -> Seq(Priorities \cup Slots)],
           ppc' \in [Procs -> ProcPlaces],
           device' \in [Procs -> GPUs \cup {NoGpu}], signo' \in [Procs -> Slots \cup {NoIndex}],
           running_gpu' \in [Procs -> GPUs \cup {NoGpu}], index' \in [Procs -> Slots \cup {NoIndex}],
           reqs' \in Nat, served' \in [Procs -> Nat],
           sem' \in Procs \cup {None}, broken' \subseteq Mishaps
    PROVE  TypeOK'
  BY DEF TypeOK, ProcPlaces, slots, listeners, controls

\* And of those that only the scheduler changes.
LEMMA SchedTypes ==
    ASSUME TypeOK, UNCHANGED <<sem, procs>>,
           process_list' \in [Slots -> Procs \cup {None}], valid' \in [Slots -> BOOLEAN],
           gpu_binding' \in [Slots -> GPUs], priority' \in [Slots -> Priorities],
           execution_time' \in [Slots -> Nat], count' \in Slots, inherited' \in [Procs -> Nat],
           lpc' \in [GPUs -> ListenPlaces], pcd' \in [GPUs -> Message \cup {NoMessage}],
           lidx' \in [GPUs -> Slots], UNCHANGED controls,
           fifo' \in [GPUs -> Seq(Message)], reply' \in [Procs -> Seq(Priorities \cup Slots)],
           broken' \subseteq Mishaps
    PROVE  TypeOK'
  BY DEF TypeOK, ListenPlaces, procs, controls

\* A process writes to a FIFO.
LEMMA Written ==
    ASSUME TypeOK, NEW g \in GPUs, NEW m \in Message, Write(g, m)
    PROVE  fifo' \in [GPUs -> Seq(Message)]
  BY FifoGrows DEF TypeOK, Write

\* The record of a message is a message.
LEMMA IsMessage ==
    ASSUME NEW p \in Procs, NEW a \in Actions, NEW n \in Nat
    PROVE  [pid |-> p, action |-> a, arg |-> n] \in Message
  BY DEF Message

\* The GPU and slot of a process that has them.
LEMMA ProcDevice ==
    ASSUME TypeOK, NEW p \in Procs
    PROVE  /\ device[p] # NoGpu => device[p] \in GPUs
           /\ running_gpu[p] # NoGpu => running_gpu[p] \in GPUs
           /\ index[p] # NoIndex => index[p] \in Slots
           /\ signo[p] # NoIndex => signo[p] \in Slots
  BY DEF TypeOK

\* The variables that the end of an iteration of backend_thread sets.
LEMMA LoopTypes ==
    ASSUME TypeOK, NEW p \in Procs, Loop(p)
    PROVE  /\ device' \in [Procs -> GPUs \cup {NoGpu}]
           /\ signo' \in [Procs -> Slots \cup {NoIndex}]
           /\ running_gpu' \in [Procs -> GPUs \cup {NoGpu}]
           /\ index' \in [Procs -> Slots \cup {NoIndex}]
           /\ ppc' \in [Procs -> ProcPlaces]
<1>1. /\ device \in [Procs -> GPUs \cup {NoGpu}] /\ signo \in [Procs -> Slots \cup {NoIndex}]
      /\ running_gpu \in [Procs -> GPUs \cup {NoGpu}] /\ index \in [Procs -> Slots \cup {NoIndex}]
      /\ ppc \in [Procs -> ProcPlaces]
  BY DEF TypeOK, ProcPlaces
<1>2. index' = index \/ index' = [index EXCEPT ![p] = signo[p]]
  BY DEF Loop
<1>3. running_gpu' = running_gpu \/ running_gpu' = [running_gpu EXCEPT ![p] = device[p]]
  BY DEF Loop
<1>4. \E to \in ProcPlaces : ppc' = [ppc EXCEPT ![p] = to]
  BY DEF Loop, ProcPlaces
<1>5. device' = [device EXCEPT ![p] = NoGpu] /\ signo' = [signo EXCEPT ![p] = NoIndex]
  BY DEF Loop
<1> QED
  BY <1>1, <1>2, <1>3, <1>4, <1>5

\* Every step of a process keeps the types.
LEMMA ProcTypesNext ==
    ASSUME TalkInv, NEW p \in Procs,
           \/ \E g \in GPUs : ServeSetDevice(p, g)
           \/ ServeCall(p) \/ Close(p) \/ Die(p)
           \/ AddLost(p) \/ AddCrash(p) \/ AddWait(p) \/ NotifyWait(p) \/ PriorityWait(p) \/ RemWait(p)
           \/ NotifySkip(p) \/ AddRead(p) \/ PriorityRead(p)
           \/ AddSend(p) \/ NotifySend(p) \/ PrioritySend(p) \/ RemSend(p)
    PROVE  TypeOK'
<1>1. TypeOK /\ ProcOk(p)
  BY DEF TalkInv
<1>2. /\ device \in [Procs -> GPUs \cup {NoGpu}] /\ signo \in [Procs -> Slots \cup {NoIndex}]
      /\ running_gpu \in [Procs -> GPUs \cup {NoGpu}] /\ index \in [Procs -> Slots \cup {NoIndex}]
      /\ ppc \in [Procs -> ProcPlaces] /\ reqs \in Nat /\ served \in [Procs -> Nat]
      /\ sem \in Procs \cup {None} /\ broken \subseteq Mishaps
      /\ fifo \in [GPUs -> Seq(Message)] /\ reply \in [Procs -> Seq(Priorities \cup Slots)]
  BY <1>1 DEF TypeOK, ProcPlaces
<1>3. CASE \/ \E g \in GPUs : ServeSetDevice(p, g)
           \/ ServeCall(p) \/ Close(p)
           \/ AddLost(p) \/ AddCrash(p) \/ AddWait(p) \/ NotifyWait(p) \/ PriorityWait(p) \/ RemWait(p)
  <2>1. \E to \in ProcPlaces : ppc' = [ppc EXCEPT ![p] = to]
    BY <1>3 DEF ServeSetDevice, ServeCall, Close, AddLost, AddCrash, AddWait, NotifyWait, PriorityWait, RemWait, Wait,
                ProcPlaces, Sending
  <2>2. device' = device \/ \E to \in GPUs \cup {NoGpu} : device' = [device EXCEPT ![p] = to]
    BY <1>3 DEF ServeSetDevice, ServeCall, Close, AddLost, AddCrash, AddWait, NotifyWait, PriorityWait, RemWait, Wait
  <2>3. (sem' = sem \/ sem' = p) /\ (reqs' = reqs \/ reqs' = reqs + 1)
    BY <1>3 DEF ServeSetDevice, ServeCall, Close, AddLost, AddCrash, AddWait, NotifyWait, PriorityWait, RemWait, Wait
  <2>4. UNCHANGED <<slots, listeners, controls, fifo, reply, signo, running_gpu, index, served, broken>>
    BY <1>3 DEF ServeSetDevice, ServeCall, Close, AddLost, AddCrash, AddWait, NotifyWait, PriorityWait, RemWait, Wait
  <2>5. ppc' \in [Procs -> ProcPlaces] /\ device' \in [Procs -> GPUs \cup {NoGpu}]
    BY <1>2, <2>1, <2>2
  <2>6. sem' \in Procs \cup {None} /\ reqs' \in Nat
    BY <1>2, <2>3
  <2> QED
    BY <1>1, <1>2, <2>4, <2>5, <2>6, ProcTypes
<1>4. CASE Die(p)
  <2>1. ppc' = [ppc EXCEPT ![p] = "dead"] /\ broken' \subseteq broken \cup {"crash"}
    BY <1>4 DEF Die
  <2>2. UNCHANGED <<slots, listeners, controls, sem, fifo, reply, device, signo, running_gpu, index, reqs, served>>
    BY <1>4 DEF Die
  <2>3. ppc' \in [Procs -> ProcPlaces] /\ broken' \subseteq Mishaps
    BY <1>2, <2>1 DEF ProcPlaces, Mishaps
  <2> QED
    BY <1>1, <1>2, <2>2, <2>3, ProcTypes
<1>5. CASE NotifySkip(p)
  <2>1. Loop(p) /\ UNCHANGED <<slots, listeners, controls, sem, fifo, reply, reqs, served, broken>>
    BY <1>5 DEF NotifySkip
  <2> QED
    BY <1>1, <1>2, <2>1, LoopTypes, ProcTypes
<1>6. CASE AddRead(p) \/ PriorityRead(p)
  <2>1. reply[p] # <<>> /\ reply' = [reply EXCEPT ![p] = Tail(@)]
    BY <1>6 DEF AddRead, PriorityRead
  <2>2. reply[p] \in Seq(Priorities \cup Slots)
    BY <1>2
  <2>3. Tail(reply[p]) \in Seq(Priorities \cup Slots) /\ Head(reply[p]) = reply[p][1]
    BY <2>1, <2>2, HeadTailProperties
  <2>4. reply' \in [Procs -> Seq(Priorities \cup Slots)]
    BY <1>2, <2>1, <2>3
  <2>5. signo' \in [Procs -> Slots \cup {NoIndex}]
    BY <1>1, <1>2, <1>6, <2>3 DEF AddRead, PriorityRead, ProcOk
  <2>6. \E to \in ProcPlaces : ppc' = [ppc EXCEPT ![p] = to]
    BY <1>6 DEF AddRead, PriorityRead, ProcPlaces
  <2>7. ppc' \in [Procs -> ProcPlaces]
    BY <1>2, <2>6
  <2>8. UNCHANGED <<slots, listeners, controls, fifo, device, running_gpu, index, reqs, served, broken>>
        /\ (sem' = sem \/ sem' = None)
    BY <1>6 DEF AddRead, PriorityRead
  <2> QED
    BY <1>1, <1>2, <2>4, <2>5, <2>7, <2>8, ProcTypes
<1>7. CASE AddSend(p)
  <2>1. device[p] \in GPUs
    BY <1>1, <1>7, ProcDevice DEF AddSend, ProcOk
  <2>2. fifo' \in [GPUs -> Seq(Message)]
    BY <1>1, <1>7, <2>1, IsMessage, Written, Zeros DEF AddSend, Actions
  <2>3. ppc' \in [Procs -> ProcPlaces]
    BY <1>2, <1>7 DEF AddSend, ProcPlaces, Reading
  <2> QED
    BY <1>1, <1>2, <1>7, <2>2, <2>3, ProcTypes DEF AddSend
<1>8. CASE NotifySend(p)
  <2>1. running_gpu[p] \in GPUs
    BY <1>1, <1>8, ProcDevice DEF NotifySend, ProcOk
  <2>2. PICK t \in Costs : /\ Write(running_gpu[p], [pid |-> p, action |-> "NOTIFY_SCHED", arg |-> t])
                           /\ served' = [served EXCEPT ![p] = @ + t]
    BY <1>8 DEF NotifySend
  <2>3. t \in Nat
    BY LasAssumption
  <2>4. fifo' \in [GPUs -> Seq(Message)]
    BY <1>1, <2>1, <2>2, <2>3, IsMessage, Written DEF Actions
  <2>5. served' \in [Procs -> Nat]
    BY <1>2, <2>2, <2>3
  <2>6. Loop(p) /\ sem' = None /\ UNCHANGED <<slots, listeners, controls, reply, reqs, broken>>
    BY <1>8 DEF NotifySend
  <2> QED
    BY <1>1, <1>2, <2>4, <2>5, <2>6, LoopTypes, ProcTypes
<1>9. CASE PrioritySend(p) \/ RemSend(p)
  <2>1. running_gpu[p] \in GPUs /\ index[p] \in Slots
    BY <1>1, <1>9, ProcDevice DEF PrioritySend, RemSend, ProcOk
  <2>2. fifo' \in [GPUs -> Seq(Message)]
    BY <1>1, <1>9, <2>1, IsMessage, Written, Zeros DEF PrioritySend, RemSend, Actions
  <2>3. ppc' \in [Procs -> ProcPlaces]
    BY <1>2, <1>9 DEF PrioritySend, RemSend, ProcPlaces, Reading
  <2>4. (sem' = sem \/ sem' = None)
        /\ UNCHANGED <<slots, listeners, controls, reply, device, signo, running_gpu, index, reqs, served, broken>>
    BY <1>9 DEF PrioritySend, RemSend
  <2> QED
    BY <1>1, <1>2, <2>2, <2>3, <2>4, ProcTypes
<1> QED
  BY <1>3, <1>4, <1>5, <1>6, <1>7, <1>8, <1>9

\* Every step of a listener keeps the types.
LEMMA ListenTypesNext ==
    ASSUME TalkInv, NEW g \in GPUs,
           \/ WriteMapping(g) \/ Start(g)
           \/ TakeAdd(g) \/ TakeAgain(g) \/ TakeRem(g) \/ TakeNotify(g) \/ TakePriority(g)
           \/ RegPid(g) \/ RegValid(g) \/ RegGpu(g) \/ RegPriority(g) \/ RegIndex(g)
           \/ RegCount(g) \/ ReplyIndex(g) \/ ReplyPriority(g)
    PROVE  TypeOK'
<1>1. TypeOK /\ PcdOk(g)
  BY DEF TalkInv
<1>2. /\ process_list \in [Slots -> Procs \cup {None}] /\ valid \in [Slots -> BOOLEAN]
      /\ gpu_binding \in [Slots -> GPUs] /\ priority \in [Slots -> Priorities]
      /\ execution_time \in [Slots -> Nat] /\ count \in Slots /\ inherited \in [Procs -> Nat]
      /\ lpc \in [GPUs -> ListenPlaces] /\ pcd \in [GPUs -> Message \cup {NoMessage}]
      /\ lidx \in [GPUs -> Slots]
      /\ fifo \in [GPUs -> Seq(Message)] /\ reply \in [Procs -> Seq(Priorities \cup Slots)]
      /\ broken \subseteq Mishaps
  BY <1>1 DEF TypeOK, ListenPlaces
<1>3. UNCHANGED <<sem, procs, controls>>
  BY DEF WriteMapping, Start, TakeAdd, TakeAgain, TakeRem, TakeNotify, TakePriority, RegPid, RegValid,
         RegGpu, RegPriority, RegIndex, RegCount, ReplyIndex, ReplyPriority, Answer
<1>12. CASE WriteMapping(g)
  <2>1. lpc' \in [GPUs -> ListenPlaces]
    BY <1>2, <1>12 DEF WriteMapping, ListenPlaces
  <2>2. UNCHANGED <<slots, pcd, lidx, fifo, reply, broken>>
    BY <1>12 DEF WriteMapping
  <2> QED
    BY <1>1, <1>2, <1>3, <2>1, <2>2, SchedTypes DEF slots
<1>4. CASE Start(g)
  <2>1. valid' \in [Slots -> BOOLEAN] /\ lpc' \in [GPUs -> ListenPlaces] /\ broken' \subseteq Mishaps
    BY <1>2, <1>4 DEF Start, ListenPlaces, Mishaps
  <2>2. UNCHANGED <<process_list, gpu_binding, priority, execution_time, count, inherited, pcd, lidx, fifo, reply>>
    BY <1>4 DEF Start
  <2> QED
    BY <1>1, <1>2, <1>3, <2>1, <2>2, SchedTypes
<1>5. ASSUME NEW a, Take(g, a)
      PROVE  fifo' \in [GPUs -> Seq(Message)] /\ Head(fifo[g]) \in Message
  BY <1>2, <1>5, FifoShrinks DEF Take
<1>6. CASE TakeAdd(g) \/ TakePriority(g)
  <2>1. fifo' \in [GPUs -> Seq(Message)] /\ Head(fifo[g]) \in Message
    BY <1>5, <1>6 DEF TakeAdd, TakePriority
  <2>2. pcd' = [pcd EXCEPT ![g] = Head(fifo[g])]
    BY <1>6 DEF TakeAdd, TakePriority
  <2>3. pcd' \in [GPUs -> Message \cup {NoMessage}]
    BY <1>2, <2>1, <2>2
  <2>4. lpc' \in [GPUs -> ListenPlaces] /\ broken' \subseteq Mishaps
    BY <1>2, <1>6 DEF TakeAdd, TakePriority, ListenPlaces, Registering, Mishaps
  <2>5. UNCHANGED <<slots, lidx, reply>>
    BY <1>6 DEF TakeAdd, TakePriority
  <2> QED
    BY <1>1, <1>2, <1>3, <2>1, <2>3, <2>4, <2>5, SchedTypes DEF slots
<1>7. CASE TakeAgain(g)
  <2>1. fifo' \in [GPUs -> Seq(Message)]
    BY <1>5, <1>7 DEF TakeAgain
  <2>2. UNCHANGED <<slots, listeners, reply, broken>>
    BY <1>7 DEF TakeAgain
  <2> QED
    BY <1>1, <1>2, <1>3, <2>1, <2>2, SchedTypes DEF slots, listeners
<1>8. CASE TakeRem(g)
  <2>1. fifo' \in [GPUs -> Seq(Message)]
    BY <1>5, <1>8 DEF TakeRem
  <2>2. /\ process_list' = process_list \/ \E k : process_list' = [process_list EXCEPT ![k] = None]
        /\ valid' = valid \/ \E k : valid' = [valid EXCEPT ![k] = FALSE]
    BY <1>8 DEF TakeRem
  <2>3. process_list' \in [Slots -> Procs \cup {None}] /\ valid' \in [Slots -> BOOLEAN]
    BY <1>2, <2>2
  <2>4. UNCHANGED <<gpu_binding, priority, execution_time, count, inherited, listeners, reply, broken>>
    BY <1>8 DEF TakeRem
  <2> QED
    BY <1>1, <1>2, <1>3, <2>1, <2>3, <2>4, SchedTypes DEF listeners
<1>9. CASE TakeNotify(g)
  <2>1. fifo' \in [GPUs -> Seq(Message)] /\ Head(fifo[g]) \in Message
    BY <1>5, <1>9 DEF TakeNotify
  <2>2. PICK n \in Nat : n = Head(fifo[g]).arg
    BY <2>1 DEF Message
  <2>3. \/ execution_time' = execution_time
        \/ \E k : execution_time' = [execution_time EXCEPT ![k] = @ + n]
    BY <1>9, <2>2 DEF TakeNotify
  <2>4. execution_time' \in [Slots -> Nat]
    <3>1. \A k \in Slots : execution_time[k] + n \in Nat
      <4>1. \A k \in Slots : execution_time[k] \in Nat
        BY <1>2
      <4> QED
        BY <4>1
    <3>2. execution_time \in [Slots -> Nat]
      BY <1>2
    <3>3. ASSUME NEW k, execution_time' = [execution_time EXCEPT ![k] = @ + n]
          PROVE  execution_time' \in [Slots -> Nat]
      <4>1. CASE k \in Slots
        BY <3>1, <3>2, <3>3, <4>1
      <4>2. CASE k \notin Slots
        BY <3>2, <3>3, <4>2
      <4> QED
        BY <4>1, <4>2
    <3> QED
      BY <2>3, <3>2, <3>3
  <2>5. UNCHANGED <<process_list, valid, gpu_binding, priority, count, inherited, listeners, reply, broken>>
    BY <1>9 DEF TakeNotify
  <2> QED
    BY <1>1, <1>2, <1>3, <2>1, <2>4, <2>5, SchedTypes DEF listeners
<1>10. CASE RegPid(g) \/ RegValid(g) \/ RegGpu(g) \/ RegPriority(g) \/ RegIndex(g) \/ RegCount(g)
  <2>1. \E to \in ListenPlaces : lpc' = [lpc EXCEPT ![g] = to]
    BY <1>10 DEF RegPid, RegValid, RegGpu, RegPriority, RegIndex, RegCount, ListenPlaces, Registering
  <2>2. lpc' \in [GPUs -> ListenPlaces]
    BY <1>2, <2>1
  <2>3. lpc[g] \in Registering => pcd[g].pid \in Procs /\ pcd[g].arg \in GPUs
    BY <1>1 DEF PcdOk, Busy, Adding, Message
  <2>4. process_list' \in [Slots -> Procs \cup {None}]
    BY <1>2, <1>10, <2>3
    DEF RegPid, RegValid, RegGpu, RegPriority, RegIndex, RegCount, Registering, slots
  <2>5. valid' \in [Slots -> BOOLEAN]
    BY <1>2, <1>10 DEF RegPid, RegValid, RegGpu, RegPriority, RegIndex, RegCount, slots
  <2>6. gpu_binding' \in [Slots -> GPUs]
    BY <1>2, <1>10, <2>3
    DEF RegPid, RegValid, RegGpu, RegPriority, RegIndex, RegCount, Registering, slots
  <2>7. priority' \in [Slots -> Priorities]
    BY <1>2, <1>10 DEF RegPid, RegValid, RegGpu, RegPriority, RegIndex, RegCount, slots, Priorities
  <2>8. count' \in Slots
    <3>1. \A n \in Slots : (n + 1) % N \in Slots
      BY LasAssumption DEF Slots
    <3>2. CASE RegCount(g)
      BY <1>2, <3>1, <3>2 DEF RegCount
    <3>3. CASE ~ RegCount(g)
      BY <1>2, <1>10, <3>3 DEF RegPid, RegValid, RegGpu, RegPriority, RegIndex, slots
    <3> QED
      BY <3>2, <3>3
  <2>9. lidx' \in [GPUs -> Slots]
    BY <1>2, <1>10 DEF RegPid, RegValid, RegGpu, RegPriority, RegIndex, RegCount
  <2>10. broken' \subseteq Mishaps
    BY <1>2, <1>10 DEF RegPid, RegValid, RegGpu, RegPriority, RegIndex, RegCount, Mishaps
  <2>11. UNCHANGED <<execution_time, pcd, fifo, reply>>
    BY <1>10 DEF RegPid, RegValid, RegGpu, RegPriority, RegIndex, RegCount, slots
  <2>12. inherited' \in [Procs -> Nat]
    <3>1. inherited' = inherited \/ \E q : inherited' = [inherited EXCEPT ![q] = execution_time[count]]
      BY <1>10 DEF RegPid, RegValid, RegGpu, RegPriority, RegIndex, RegCount, slots
    <3>2. execution_time[count] \in Nat
      BY <1>2
    <3> QED
      BY <1>2, <3>1, <3>2
  <2> QED
    BY <1>1, <1>2, <1>3, <2>2, <2>4, <2>5, <2>6, <2>7, <2>8, <2>9, <2>10, <2>11, <2>12, SchedTypes
<1>11. CASE ReplyIndex(g) \/ ReplyPriority(g)
  <2>1. PICK v \in Priorities \cup Slots : \E from : Answer(g, from, v)
    <3>1. CASE ReplyIndex(g)
      <4>1. lidx[g] \in Slots
        BY <1>2
      <4> QED
        BY <3>1, <4>1 DEF ReplyIndex
    <3>2. CASE ReplyPriority(g)
      <4>1. priority[pcd[g].arg] \in Priorities
        BY <1>1, <1>2, <3>2 DEF ReplyPriority, PcdOk
      <4> QED
        BY <3>2, <4>1 DEF ReplyPriority
    <3> QED
      BY <1>11, <3>1, <3>2
  <2>2. /\ reply' = [reply EXCEPT ![pcd[g].pid] = Append(@, v)]
        /\ lpc' = [lpc EXCEPT ![g] = "read"] /\ pcd' = [pcd EXCEPT ![g] = NoMessage]
        /\ lidx' = [lidx EXCEPT ![g] = 0]
        /\ UNCHANGED <<slots, fifo, broken>>
    BY <2>1 DEF Answer
  <2>3. \A p \in Procs : Append(reply[p], v) \in Seq(Priorities \cup Slots)
    BY <1>2, AppendProperties
  <2>4. reply' \in [Procs -> Seq(Priorities \cup Slots)]
    BY <1>2, <2>2, <2>3
  <2>5. lpc' \in [GPUs -> ListenPlaces] /\ pcd' \in [GPUs -> Message \cup {NoMessage}]
        /\ lidx' \in [GPUs -> Slots]
    BY <1>2, <2>2, Zeros DEF ListenPlaces
  <2> QED
    BY <1>1, <1>2, <1>3, <2>2, <2>4, <2>5, SchedTypes DEF slots
<1> QED
  BY <1>4, <1>6, <1>7, <1>8, <1>9, <1>10, <1>11, <1>12

\* Every step of a control thread keeps the types.
LEMMA ControlTypesNext ==
    ASSUME TypeOK, NEW g \in GPUs, Wake(g) \/ Scan(g) \/ Mark(g)
    PROVE  TypeOK'
<1>1. /\ execution_time \in [Slots -> Nat] /\ priority \in [Slots -> Priorities]
      /\ kpc \in [GPUs -> {"sleep", "scan", "mark"}] /\ minval \in [GPUs -> Nat]
      /\ las_lock \in GPUs \cup {NoGpu}
  BY DEF TypeOK
<1>2. /\ UNCHANGED <<process_list, valid, gpu_binding, execution_time, count, inherited>>
      /\ UNCHANGED <<listeners, sem, fifo, reply, procs, broken>>
  BY DEF Wake, Scan, Mark, slots
<1>3. kpc' \in [GPUs -> {"sleep", "scan", "mark"}] /\ las_lock' \in GPUs \cup {NoGpu}
  BY <1>1 DEF Wake, Scan, Mark
<1>4. priority' \in [Slots -> Priorities]
  BY <1>1 DEF Wake, Scan, Mark, slots, Priorities
<1>5. minval' \in [GPUs -> Nat]
  <2>1. CASE Wake(g)
    BY <1>1, <2>1, Zeros DEF Wake
  <2>2. CASE Scan(g)
    <3> DEFINE S == {minval[g]} \cup {execution_time[i] : i \in Seen(g)}
    <3>1. S \in SUBSET Nat /\ S # {}
      BY <1>1 DEF Seen
    <3>2. Smallest(S) \in Nat
      <4> HIDE DEF S
      <4> QED
        BY <3>1, SmallestIn
    <3>3. minval' = [minval EXCEPT ![g] = Smallest(S)]
      BY <2>2 DEF Scan
    <3> HIDE DEF S
    <3> QED
      BY <1>1, <3>2, <3>3
  <2>3. CASE Mark(g)
    BY <1>1, <2>3 DEF Mark
  <2> QED
    BY <2>1, <2>2, <2>3
<1> QED
  BY <1>1, <1>2, <1>3, <1>4, <1>5 DEF TypeOK, listeners, procs

-----------------------------------------------------------------------------
(* Requests and answers.                                                    *)

\* Nothing is asked or answered.
LEMMA AskKept ==
    ASSUME NEW p \in Procs, AskOnce(p), NEW d, Later(d),
           \A g \in GPUs : ServedBy(p, g)' => ServedBy(p, g), reply'[p] = reply[p]
    PROVE  AskOnce(p)'
<1>1. ASSUME NEW g \in GPUs, NEW k \in DOMAIN fifo'[g], AskIn(p, g, k)'
      PROVE  k \in Nat /\ d[g] \in {0, 1} /\ k + d[g] \in DOMAIN fifo[g] /\ AskIn(p, g, k + d[g])
  BY <1>1 DEF Later, AskIn
<1>2. ASSUME NEW g \in GPUs, NEW h \in GPUs, NEW k \in DOMAIN fifo'[g], NEW l \in DOMAIN fifo'[h],
             AskIn(p, g, k)', AskIn(p, h, l)'
      PROVE  g = h /\ k = l
  <2>1. g = h /\ k + d[g] = l + d[h]
    BY <1>1, <1>2 DEF AskOnce
  <2>2. k \in Nat /\ l \in Nat /\ d[g] \in {0, 1}
    BY <1>1, <1>2
  <2> QED
    BY <2>1, <2>2
<1>3. ASSUME NEW g \in GPUs, NEW h \in GPUs, NEW k \in DOMAIN fifo'[g], AskIn(p, g, k)'
      PROVE  ~ ServedBy(p, h)' /\ reply'[p] = <<>>
  BY <1>1, <1>3 DEF AskOnce
<1> QED
  BY <1>2, <1>3 DEF AskOnce

\* A process has no request on the way.
Silent(p) ==
    /\ \A g \in GPUs : \A k \in DOMAIN fifo[g] : ~ AskIn(p, g, k)
    /\ \A g \in GPUs : ~ ServedBy(p, g)

\* Where a process with a request on the way is.
LEMMA AskPlace ==
    ASSUME TalkInv, NEW p \in Procs, ppc[p] \notin {"add_read", "priority_read", "dead"}
    PROVE  Silent(p) /\ reply[p] = <<>>
<1>1. ASSUME NEW g \in GPUs, NEW k \in DOMAIN fifo[g], AskIn(p, g, k) PROVE FALSE
  <2>1. MsgOk(fifo[g][k], g)
    BY DEF TalkInv
  <2> QED
    BY <1>1, <2>1 DEF MsgOk, AskIn
<1>2. ASSUME NEW g \in GPUs, ServedBy(p, g) PROVE FALSE
  <2>1. PcdOk(g)
    BY DEF TalkInv
  <2> QED
    BY <1>2, <2>1 DEF PcdOk, ServedBy, Busy
<1>3. ProcOk(p)
  BY DEF TalkInv
<1> QED
  BY <1>1, <1>2, <1>3 DEF Silent, ProcOk

\* A process with an answer has no request on the way.
LEMMA AnsweredSilent ==
    ASSUME TalkInv, NEW p \in Procs, reply[p] # <<>> PROVE Silent(p)
<1>1. AskOnce(p)
  BY DEF TalkInv
<1> QED
  BY <1>1, Zeros DEF AskOnce, Silent

\* The variables of the other processes stay.
Others(p) ==
    \A q \in Procs : q # p =>
      /\ ppc'[q] = ppc[q] /\ device'[q] = device[q] /\ signo'[q] = signo[q]
      /\ running_gpu'[q] = running_gpu[q] /\ index'[q] = index[q] /\ served'[q] = served[q]

\* A process whose messages are not requests, or who dies, leaves them valid.
LEMMA MsgMove ==
    ASSUME TalkInv, NEW p \in Procs, Others(p), ppc[p] # "gone",
           index[p] # NoIndex => index'[p] # NoIndex,
           Silent(p) \/ (ppc'[p] = "dead" /\ device'[p] = device[p]),
           NEW g \in GPUs, NEW k \in DOMAIN fifo[g], NEW m, m = fifo[g][k]
    PROVE  m \in Message /\ MsgOk(m, g)'
<1>1. m \in Message /\ MsgOk(m, g)
  BY DEF TalkInv, TypeOK
<1>2. m.pid \in Procs
  BY <1>1 DEF Message
<1>3. CASE m.pid # p
  BY <1>1, <1>2, <1>3 DEF Others, MsgOk
<1>4. CASE m.pid = p
  <2>1. CASE Silent(p)
    <3>1. ~ AskIn(p, g, k)
      BY <2>1 DEF Silent
    <3> QED
      BY <1>1, <1>4, <3>1 DEF AskIn, MsgOk
  <2>2. CASE ppc'[p] = "dead" /\ device'[p] = device[p]
    BY <1>1, <1>4, <2>2 DEF MsgOk
  <2> QED
    BY <2>1, <2>2
<1> QED
  BY <1>1, <1>3, <1>4

\* The same for the messages the listeners work on.
LEMMA PcdMove ==
    ASSUME TalkInv, NEW p \in Procs, Others(p), UNCHANGED listeners,
           Silent(p) \/ (ppc'[p] = "dead" /\ device'[p] = device[p]),
           NEW g \in GPUs
    PROVE  PcdOk(g)'
<1>1. PcdOk(g) /\ lpc' = lpc /\ pcd' = pcd
  BY DEF TalkInv, listeners
<1>2. CASE lpc[g] \notin Busy
  BY <1>1, <1>2 DEF PcdOk, Busy
<1>3. CASE lpc[g] \in Busy
  <2>1. pcd[g] \in Message /\ pcd[g].pid \in Procs
    BY <1>1, <1>3 DEF PcdOk, Message
  <2>2. CASE pcd[g].pid # p
    BY <1>1, <2>1, <2>2 DEF Others, PcdOk
  <2>3. CASE pcd[g].pid = p
    <3>1. ~ Silent(p)
      BY <1>3, <2>3 DEF Silent, ServedBy
    <3> QED
      BY <1>1, <2>3, <3>1 DEF PcdOk
  <2> QED
    BY <2>2, <2>3
<1> QED
  BY <1>2, <1>3

\* A process goes on, without sending or reading anything.
LEMMA TalkMove ==
    ASSUME TalkInv, TypeOK', NEW p \in Procs, Others(p), UNCHANGED <<listeners, fifo, reply>>,
           ppc[p] # "gone", index[p] # NoIndex => index'[p] # NoIndex,
           Silent(p) \/ (ppc'[p] = "dead" /\ device'[p] = device[p]),
           ProcOk(p)'
    PROVE  TalkInv'
<1>1. fifo \in [GPUs -> Seq(Message)]
  BY DEF TalkInv, TypeOK
<1>2. Later([g \in GPUs |-> 0])
  BY <1>1, FifoStays
<1>3. \A q \in Procs, g \in GPUs : ServedBy(q, g)' => ServedBy(q, g)
  BY DEF ServedBy, listeners
<1>4. \A q \in Procs : AskOnce(q)'
  <2> DEFINE d == [g \in GPUs |-> 0]
  <2>1. Later(d)
    BY <1>2
  <2> HIDE DEF d
  <2> QED
    BY <1>3, <2>1, AskKept DEF TalkInv
<1>5. ASSUME NEW q \in Procs PROVE ProcOk(q)'
  <2>1. CASE q # p
    BY <2>1 DEF Others, TalkInv, ProcOk
  <2> QED
    BY <2>1
<1>6. ASSUME NEW g \in GPUs, NEW k \in DOMAIN fifo[g] PROVE MsgOk(fifo[g][k], g)'
  <2>1. ASSUME NEW m, m = fifo[g][k] PROVE MsgOk(m, g)'
    BY <2>1, MsgMove
  <2> QED
    BY <2>1 DEF MsgOk
<1>7. \A g \in GPUs : PcdOk(g)'
  BY PcdMove
<1> QED
  BY <1>4, <1>5, <1>6, <1>7 DEF TalkInv

\* A process reads its answer.
LEMMA TalkRead ==
    ASSUME TalkInv, TypeOK', NEW p \in Procs, Others(p), UNCHANGED <<listeners, fifo>>,
           ppc[p] # "gone", index'[p] = index[p], reply[p] # <<>>,
           reply' = [reply EXCEPT ![p] = Tail(@)], ProcOk(p)'
    PROVE  TalkInv' /\ reply'[p] = <<>> /\ Silent(p) /\ \A q \in Procs : q # p => reply'[q] = reply[q]
<1>1. Silent(p)
  BY AnsweredSilent
<1>2. reply'[p] = <<>> /\ Len(reply'[p]) =< 1 /\ \A q \in Procs : q # p => reply'[q] = reply[q]
  <2>1. reply \in [Procs -> Seq(Priorities \cup Slots)] /\ Len(reply[p]) =< 1
    BY DEF TalkInv, TypeOK, AskOnce
  <2>2. Len(Tail(reply[p])) = Len(reply[p]) - 1 /\ Tail(reply[p]) \in Seq(Priorities \cup Slots)
        /\ Len(reply[p]) \in Nat
    BY <2>1, HeadTailProperties
  <2>3. Len(Tail(reply[p])) = 0
    BY <2>1, <2>2, LenProperties
  <2>4. Tail(reply[p]) = <<>>
    BY <2>2, <2>3, EmptySeq
  <2>5. reply'[p] = Tail(reply[p])
    BY <2>1
  <2>6. Len(reply'[p]) = Len(Tail(reply[p]))
    BY <2>5, Zenon
  <2>7. Len(reply'[p]) =< 1
    <3>1. PICK n : n = Len(reply'[p])
      OBVIOUS
    <3>2. n = 0
      BY <2>3, <2>6, <3>1, Zenon
    <3> QED
      BY <3>1, <3>2
  <2> QED
    BY <2>1, <2>4, <2>7
<1>3. \A q \in Procs, g \in GPUs : ServedBy(q, g)' <=> ServedBy(q, g)
  BY DEF ServedBy, listeners
<1>4. ASSUME NEW q \in Procs PROVE AskOnce(q)'
  <2>1. CASE q = p
    <3>1. \A g \in GPUs : \A k \in DOMAIN fifo'[g] : ~ AskIn(p, g, k)'
      BY <1>1 DEF Silent, AskIn
    <3>2. \A g \in GPUs : ~ ServedBy(p, g)'
      BY <1>1, <1>3 DEF Silent
    <3> QED
      BY <1>2, <2>1, <3>1, <3>2 DEF AskOnce
  <2>2. CASE q # p
    <3>1. AskOnce(q) /\ reply'[q] = reply[q]
      BY <1>2, <2>2 DEF TalkInv
    <3>2. \A g \in GPUs : \A k : AskIn(q, g, k)' <=> AskIn(q, g, k)
      BY DEF AskIn
    <3> QED
      BY <1>3, <3>1, <3>2 DEF AskOnce
  <2> QED
    BY <2>1, <2>2
<1>5. ASSUME NEW q \in Procs PROVE ProcOk(q)'
  <2>1. CASE q # p
    BY <1>2, <2>1 DEF Others, TalkInv, ProcOk
  <2> QED
    BY <2>1
<1>6. ASSUME NEW g \in GPUs, NEW k \in DOMAIN fifo[g] PROVE MsgOk(fifo[g][k], g)'
  <2>1. ASSUME NEW m, m = fifo[g][k] PROVE MsgOk(m, g)'
    BY <1>1, <2>1, MsgMove
  <2> QED
    BY <2>1 DEF MsgOk
<1>7. \A g \in GPUs : PcdOk(g)'
  BY <1>1, PcdMove
<1> QED
  BY <1>1, <1>2, <1>4, <1>5, <1>6, <1>7 DEF TalkInv

\* A process writes a message.
LEMMA TalkSend ==
    ASSUME TalkInv, TypeOK', NEW p \in Procs, Others(p), UNCHANGED <<listeners, reply>>,
           ppc[p] \notin {"add_read", "priority_read", "dead", "gone"},
           index[p] # NoIndex => index'[p] # NoIndex,
           NEW g0 \in GPUs, NEW m0 \in Message, m0.pid = p, MsgOk(m0, g0)',
           fifo' = [fifo EXCEPT ![g0] = Append(@, m0)], ProcOk(p)'
    PROVE  TalkInv'
<1>1. Silent(p) /\ reply[p] = <<>>
  BY AskPlace
<1>2. fifo \in [GPUs -> Seq(Message)]
  BY DEF TalkInv, TypeOK
<1>3. \A g \in GPUs : \A k \in DOMAIN fifo'[g] :
        \/ k \in DOMAIN fifo[g] /\ fifo'[g][k] = fifo[g][k]
        \/ g = g0 /\ k = Len(fifo[g0]) + 1 /\ fifo'[g][k] = m0
  BY <1>2, FifoGrows
<1>4. \A q \in Procs, g \in GPUs : ServedBy(q, g)' <=> ServedBy(q, g)
  BY DEF ServedBy, listeners
<1>5. ASSUME NEW q \in Procs PROVE AskOnce(q)'
  <2>1. CASE q = p
    <3>1. \A g \in GPUs : \A k \in DOMAIN fifo'[g] : AskIn(p, g, k)' => g = g0 /\ k = Len(fifo[g0]) + 1
      BY <1>1, <1>3 DEF Silent, AskIn
    <3>2. \A g \in GPUs : ~ ServedBy(p, g)'
      BY <1>1, <1>4 DEF Silent
    <3>3. reply'[p] = <<>> /\ Len(reply'[p]) =< 1
      BY <1>1
    <3> QED
      BY <2>1, <3>1, <3>2, <3>3 DEF AskOnce
  <2>2. CASE q # p
    <3>1. \A g \in GPUs : \A k \in DOMAIN fifo'[g] : AskIn(q, g, k)' => k \in DOMAIN fifo[g] /\ AskIn(q, g, k)
      BY <1>3, <2>2 DEF AskIn
    <3>2. AskOnce(q)
      BY DEF TalkInv
    <3> QED
      BY <1>4, <3>1, <3>2 DEF AskOnce
  <2> QED
    BY <2>1, <2>2
<1>6. ASSUME NEW q \in Procs PROVE ProcOk(q)'
  <2>1. CASE q # p
    BY <2>1 DEF Others, TalkInv, ProcOk
  <2> QED
    BY <2>1
<1>7. ASSUME NEW g \in GPUs, NEW k \in DOMAIN fifo'[g] PROVE MsgOk(fifo[g][k], g)'
  <2>1. ASSUME NEW m, m = fifo'[g][k] PROVE MsgOk(m, g)'
    BY <1>1, <1>3, <2>1, MsgMove
  <2> QED
    BY <2>1 DEF MsgOk
<1>8. \A g \in GPUs : PcdOk(g)'
  BY <1>1, PcdMove
<1> QED
  BY <1>5, <1>6, <1>7, <1>8 DEF TalkInv

\* A listener works on, without taking a request or answering one.
LEMMA TalkWork ==
    ASSUME TalkInv, TypeOK', UNCHANGED <<procs, pcd, reply>>, NEW d, Later(d),
           \A g \in GPUs : /\ lpc'[g] \in Adding => lpc[g] \in Adding
                           /\ lpc'[g] = "reply_priority" => lpc[g] = "reply_priority"
    PROVE  TalkInv'
<1>1. ASSUME NEW q \in Procs PROVE AskOnce(q)'
  <2>1. \A g \in GPUs : ServedBy(q, g)' => ServedBy(q, g)
    BY DEF ServedBy, Busy
  <2>2. AskOnce(q) /\ reply'[q] = reply[q]
    BY DEF TalkInv
  <2> QED
    BY <2>1, <2>2, AskKept
<1>2. ASSUME NEW q \in Procs PROVE ProcOk(q)'
  BY DEF TalkInv, ProcOk, procs
<1>3. ASSUME NEW g \in GPUs, NEW k \in DOMAIN fifo'[g] PROVE MsgOk(fifo[g][k], g)'
  <2>1. ASSUME NEW m, m = fifo'[g][k] PROVE MsgOk(m, g)'
    <3>1. PICK l \in DOMAIN fifo[g] : m = fifo[g][l]
      BY <2>1 DEF Later
    <3>2. MsgOk(m, g)
      BY <3>1 DEF TalkInv
    <3> QED
      BY <3>2 DEF MsgOk, procs
  <2> QED
    BY <2>1 DEF MsgOk
<1>4. ASSUME NEW g \in GPUs PROVE PcdOk(g)'
  <2>1. PcdOk(g)
    BY DEF TalkInv
  <2> QED
    BY <2>1 DEF PcdOk, Busy, procs
<1> QED
  BY <1>1, <1>2, <1>3, <1>4 DEF TalkInv

\* A listener takes a request.
LEMMA TalkTake ==
    ASSUME TalkInv, TypeOK', UNCHANGED <<procs, reply>>, NEW g0 \in GPUs, lpc[g0] = "read",
           fifo[g0] # <<>>, fifo' = [fifo EXCEPT ![g0] = Tail(@)],
           pcd' = [pcd EXCEPT ![g0] = Head(fifo[g0])],
           \/ Head(fifo[g0]).action = "ADD_Q" /\ lpc' = [lpc EXCEPT ![g0] = "reg_pid"]
           \/ Head(fifo[g0]).action = "GET_PRIORITY" /\ lpc' = [lpc EXCEPT ![g0] = "reply_priority"]
    PROVE  TalkInv'
<1> DEFINE d == [g \in GPUs |-> IF g = g0 THEN 1 ELSE 0]
<1>1. /\ fifo \in [GPUs -> Seq(Message)] /\ lpc \in [GPUs -> ListenPlaces]
      /\ pcd \in [GPUs -> Message \cup {NoMessage}]
  BY DEF TalkInv, TypeOK, ListenPlaces
<1>2. PICK m \in Message : m = Head(fifo[g0]) /\ m = fifo[g0][1]
  BY <1>1, FifoShrinks
<1>3. 1 \in DOMAIN fifo[g0] /\ Later(d) /\ \A k \in DOMAIN fifo'[g0] : k + 1 # 1
  BY <1>1, FifoShrinks
<1>4. m.pid \in Procs /\ MsgOk(m, g0) /\ AskIn(m.pid, g0, 1) /\ ServedBy(m.pid, g0)'
  BY <1>1, <1>2, <1>3 DEF Message, TalkInv, AskIn, ServedBy, Busy, Adding, Registering
<1>5. \A g \in GPUs : \A k \in DOMAIN fifo'[g] :
        /\ d[g] \in {0, 1} /\ k \in Nat /\ k + d[g] \in DOMAIN fifo[g] /\ fifo'[g][k] = fifo[g][k + d[g]]
        /\ g = g0 => k + d[g] # 1
  BY <1>3 DEF Later
<1> HIDE DEF d
<1>6. \A q \in Procs, g \in GPUs : ServedBy(q, g)' => ServedBy(q, g) \/ (q = m.pid /\ g = g0)
  BY <1>1, <1>2 DEF ServedBy, Busy
<1>7. ASSUME NEW q \in Procs PROVE AskOnce(q)'
  <2>1. AskOnce(q) /\ reply'[q] = reply[q]
    BY DEF TalkInv
  <2>2. CASE q # m.pid
    <3>1. \A g \in GPUs : ServedBy(q, g)' => ServedBy(q, g)
      BY <1>6, <2>2
    <3> QED
      BY <1>3, <2>1, <3>1, AskKept
  <2>3. CASE q = m.pid
    <3>1. ASSUME NEW g \in GPUs, NEW k \in DOMAIN fifo'[g], AskIn(q, g, k)' PROVE FALSE
      <4>1. k + d[g] \in DOMAIN fifo[g] /\ AskIn(q, g, k + d[g])
        BY <1>5, <3>1 DEF AskIn
      <4>2. g = g0 /\ k + d[g] = 1
        BY <1>3, <1>4, <2>1, <2>3, <4>1 DEF AskOnce
      <4> QED
        BY <1>5, <4>2
    <3>2. \A g \in GPUs : ServedBy(q, g)' => g = g0
      BY <1>3, <1>4, <1>6, <2>1, <2>3 DEF AskOnce
    <3>3. reply'[q] = <<>> /\ Len(reply'[q]) =< 1
      BY <1>3, <1>4, <2>1, <2>3 DEF AskOnce
    <3> QED
      BY <3>1, <3>2, <3>3 DEF AskOnce
  <2> QED
    BY <2>2, <2>3
<1>8. ASSUME NEW q \in Procs PROVE ProcOk(q)'
  BY DEF TalkInv, ProcOk, procs
<1>9. ASSUME NEW g \in GPUs, NEW k \in DOMAIN fifo'[g] PROVE MsgOk(fifo[g][k], g)'
  <2>1. ASSUME NEW n, n = fifo'[g][k] PROVE MsgOk(n, g)'
    <3>1. PICK l \in DOMAIN fifo[g] : n = fifo[g][l]
      BY <1>5, <2>1
    <3>2. MsgOk(n, g)
      BY <3>1 DEF TalkInv
    <3> QED
      BY <3>2 DEF MsgOk, procs
  <2> QED
    BY <2>1 DEF MsgOk
<1>10. ASSUME NEW g \in GPUs PROVE PcdOk(g)'
  <2>1. PcdOk(g)
    BY DEF TalkInv
  <2>2. CASE g # g0
    BY <1>1, <2>1, <2>2 DEF PcdOk, Busy, procs
  <2>3. CASE g = g0
    <3>1. pcd'[g] = m /\ (\/ m.action = "ADD_Q" /\ lpc'[g] = "reg_pid"
                          \/ m.action = "GET_PRIORITY" /\ lpc'[g] = "reply_priority")
      BY <1>1, <1>2, <2>3
    <3> QED
      BY <1>4, <2>3, <3>1 DEF PcdOk, MsgOk, Busy, Adding, Registering, procs
  <2> QED
    BY <2>2, <2>3
<1> QED
  BY <1>7, <1>8, <1>9, <1>10 DEF TalkInv

\* A listener answers.
LEMMA TalkAnswer ==
    ASSUME TalkInv, TypeOK', UNCHANGED <<procs, fifo>>, NEW g0 \in GPUs, NEW v \in Priorities \cup Slots,
           lpc[g0] \in {"reply_index", "reply_priority"}, lpc[g0] = "reply_index" => v \in Slots,
           reply' = [reply EXCEPT ![pcd[g0].pid] = Append(@, v)],
           lpc' = [lpc EXCEPT ![g0] = "read"], pcd' = [pcd EXCEPT ![g0] = NoMessage]
    PROVE  /\ TalkInv'
           /\ \E p \in Procs : /\ p = pcd[g0].pid /\ reply'[p] = <<v>>
                               /\ ppc[p] = "add_read" => lpc[g0] = "reply_index"
                               /\ \A q \in Procs : q # p => reply'[q] = reply[q]
<1>1. /\ fifo \in [GPUs -> Seq(Message)] /\ lpc \in [GPUs -> ListenPlaces]
      /\ pcd \in [GPUs -> Message \cup {NoMessage}] /\ reply \in [Procs -> Seq(Priorities \cup Slots)]
  BY DEF TalkInv, TypeOK, ListenPlaces
<1>2. PcdOk(g0) /\ pcd[g0] \in Message
  BY DEF TalkInv, PcdOk, Busy, Adding
<1>3. PICK p \in Procs : p = pcd[g0].pid
  BY <1>2 DEF Message
<1>4. AskOnce(p) /\ ServedBy(p, g0)
  BY <1>3 DEF TalkInv, ServedBy, Busy, Adding
<1>5. reply[p] = <<>> /\ reply'[p] = <<v>> /\ \A q \in Procs : q # p => reply'[q] = reply[q]
  <2>1. reply[p] = <<>>
    BY <1>4 DEF AskOnce
  <2>2. reply'[p] = Append(<<>>, v)
    BY <1>1, <1>3, <2>1
  <2> QED
    BY <1>1, <1>3, <2>1, <2>2
<1>6. \A q \in Procs, g \in GPUs : ServedBy(q, g)' => ServedBy(q, g) /\ g # g0
  BY <1>1 DEF ServedBy, Busy, Adding, Registering
<1>7. Silent(p)'
  <2>1. \A g \in GPUs : \A k \in DOMAIN fifo'[g] : ~ AskIn(p, g, k)'
    BY <1>4 DEF AskOnce, AskIn
  <2>2. \A g \in GPUs : ~ ServedBy(p, g)'
    BY <1>3, <1>4, <1>6 DEF AskOnce
  <2> QED
    BY <2>1, <2>2 DEF Silent
<1>8. ASSUME NEW q \in Procs PROVE AskOnce(q)'
  <2>1. CASE q # p
    <3>1. AskOnce(q) /\ reply'[q] = reply[q] /\ \A g \in GPUs : ServedBy(q, g)' => ServedBy(q, g)
      BY <1>5, <1>6, <2>1 DEF TalkInv
    <3>2. Later([g \in GPUs |-> 0])
      BY <1>1, FifoStays
    <3> QED
      BY <3>1, <3>2, AskKept
  <2>2. CASE q = p
    <3>1. Len(reply'[p]) =< 1
      <4>1. Len(<<v>>) = 1
        OBVIOUS
      <4>2. Len(reply'[p]) = Len(<<v>>)
        BY <1>5, Zenon
      <4>3. PICK n : n = Len(reply'[p])
        OBVIOUS
      <4>4. n = 1
        BY <4>1, <4>2, <4>3, Zenon
      <4>5. n =< 1
        BY <4>4
      <4> QED
        BY <4>3, <4>5, Zenon
    <3> QED
      BY <1>7, <2>2, <3>1 DEF AskOnce, Silent
  <2> QED
    BY <2>1, <2>2
<1>9. /\ ppc[p] = "add_read" => lpc[g0] = "reply_index"
      /\ ppc[p] \in {"add_read", "priority_read", "dead"}
  BY <1>2, <1>3 DEF PcdOk, Adding, Registering
<1>10. ASSUME NEW q \in Procs PROVE ProcOk(q)'
  <2>1. ProcOk(q) /\ UNCHANGED <<ppc, device, signo, running_gpu, index, served>>
    BY DEF TalkInv, procs
  <2>2. CASE q # p
    BY <1>5, <2>1, <2>2 DEF ProcOk
  <2>3. CASE q = p
    <3>1. ppc[p] = "add_read" => reply'[p][1] \in Slots
      BY <1>5, <1>9
    <3> QED
      BY <1>9, <2>1, <2>3, <3>1 DEF ProcOk
  <2> QED
    BY <2>2, <2>3
<1>11. ASSUME NEW g \in GPUs, NEW k \in DOMAIN fifo[g] PROVE MsgOk(fifo[g][k], g)'
  <2>1. ASSUME NEW m, m = fifo[g][k] PROVE MsgOk(m, g)'
    BY <2>1 DEF MsgOk, procs, TalkInv
  <2> QED
    BY <2>1 DEF MsgOk
<1>12. ASSUME NEW g \in GPUs PROVE PcdOk(g)'
  <2>1. CASE g = g0
    BY <1>1, <2>1 DEF PcdOk, Busy, Adding, Registering
  <2>2. CASE g # g0
    BY <1>1, <2>2 DEF PcdOk, procs, TalkInv, Busy
  <2> QED
    BY <2>1, <2>2
<1>13. TalkInv'
  BY <1>8, <1>10, <1>11, <1>12 DEF TalkInv
<1> QED
  BY <1>3, <1>5, <1>7, <1>9, <1>13

\* What the end of an iteration of backend_thread leaves.
LEMMA LoopEnds ==
    ASSUME TypeOK, NEW p \in Procs, ProcOk(p), Loop(p), ppc[p] \in {"notify", "notify_send"}
    PROVE  /\ device'[p] = NoGpu /\ signo'[p] = NoIndex
           /\ \/ /\ device[p] = NoGpu /\ signo[p] = NoIndex
                 /\ index'[p] = index[p] /\ running_gpu'[p] = running_gpu[p]
                 /\ ppc'[p] = IF index[p] = NoIndex THEN "serve" ELSE "priority"
              \/ /\ device[p] \in GPUs /\ signo[p] \in Slots
                 /\ index'[p] = signo[p] /\ running_gpu'[p] = device[p]
                 /\ ppc'[p] = "priority"
           /\ \A q \in Procs : q # p =>
                /\ ppc'[q] = ppc[q] /\ device'[q] = device[q] /\ signo'[q] = signo[q]
                /\ running_gpu'[q] = running_gpu[q] /\ index'[q] = index[q]
<1>1. /\ device \in [Procs -> GPUs \cup {NoGpu}] /\ signo \in [Procs -> Slots \cup {NoIndex}]
      /\ running_gpu \in [Procs -> GPUs \cup {NoGpu}] /\ index \in [Procs -> Slots \cup {NoIndex}]
      /\ ppc \in [Procs -> ProcPlaces]
  BY DEF TypeOK, ProcPlaces
<1>2. device[p] # NoGpu <=> signo[p] # NoIndex
  BY DEF ProcOk
<1>3. /\ device' = [device EXCEPT ![p] = NoGpu] /\ signo' = [signo EXCEPT ![p] = NoIndex]
      /\ ppc' = [ppc EXCEPT ![p] = IF index'[p] = NoIndex THEN "serve" ELSE "priority"]
  BY DEF Loop
<1>4. CASE device[p] = NoGpu
  <2>1. index' = index /\ running_gpu' = running_gpu
    BY <1>4 DEF Loop
  <2> QED
    BY <1>1, <1>2, <1>3, <1>4, <2>1
<1>5. CASE device[p] # NoGpu
  <2>1. index' = [index EXCEPT ![p] = signo[p]] /\ running_gpu' = [running_gpu EXCEPT ![p] = device[p]]
    BY <1>5 DEF Loop
  <2>2. device[p] \in GPUs /\ signo[p] \in Slots
    BY <1>1, <1>2, <1>5
  <2>3. index'[p] # NoIndex
    BY <1>1, <2>1, <2>2, Zeros
  <2> QED
    BY <1>1, <1>3, <2>1, <2>2, <2>3
<1> QED
  BY <1>4, <1>5

\* Requests, calls, the end of the connection, semaphores and death keep
\* the requests and answers in order.
LEMMA TalkQuiet ==
    ASSUME TalkInv, NEW p \in Procs,
           \/ \E g \in GPUs : ServeSetDevice(p, g)
           \/ ServeCall(p) \/ Close(p) \/ Die(p)
           \/ AddLost(p) \/ AddCrash(p) \/ AddWait(p) \/ NotifyWait(p) \/ PriorityWait(p) \/ RemWait(p)
    PROVE  TalkInv'
<1>1. TypeOK' /\ TypeOK /\ ProcOk(p)
  BY ProcTypesNext DEF TalkInv
<1>2. /\ device \in [Procs -> GPUs \cup {NoGpu}] /\ ppc \in [Procs -> ProcPlaces]
  BY <1>1 DEF TypeOK, ProcPlaces
<1>3. UNCHANGED <<listeners, fifo, reply, signo, running_gpu, index, served>>
  BY DEF ServeSetDevice, ServeCall, Close, Die, AddLost, AddCrash, AddWait, NotifyWait, PriorityWait, RemWait, Wait
<1>4. \/ \E to : ppc' = [ppc EXCEPT ![p] = to]
  BY DEF ServeSetDevice, ServeCall, Close, Die, AddLost, AddCrash, AddWait, NotifyWait, PriorityWait, RemWait, Wait
<1>5. device' = device \/ \E to : device' = [device EXCEPT ![p] = to]
  BY DEF ServeSetDevice, ServeCall, Close, Die, AddLost, AddCrash, AddWait, NotifyWait, PriorityWait, RemWait, Wait
<1>6. Others(p)
  BY <1>2, <1>3, <1>4, <1>5 DEF Others
<1>7. CASE Die(p)
  <2>1. ppc[p] # "gone" /\ ppc'[p] = "dead" /\ device' = device
    BY <1>2, <1>7 DEF Die
  <2>2. ProcOk(p)'
    BY <1>1, <1>3, <2>1 DEF ProcOk
  <2> QED
    BY <1>1, <1>3, <1>6, <2>1, <2>2, TalkMove
<1>8. CASE \/ \E g \in GPUs : ServeSetDevice(p, g)
           \/ ServeCall(p) \/ Close(p)
  <2>1. ppc[p] = "serve"
    BY <1>8 DEF ServeSetDevice, ServeCall, Close
  <2>2. Silent(p) /\ reply[p] = <<>>
    BY <2>1, AskPlace
  <2>3. signo[p] = NoIndex
    BY <1>1, <2>1 DEF ProcOk
  <2>4. \/ \E g \in GPUs : device'[p] = g /\ ppc'[p] = "add"
        \/ device'[p] = NoGpu /\ ppc'[p] = "notify"
        \/ ppc'[p] = "gone"
        \/ ppc'[p] = "rem" /\ running_gpu[p] # NoGpu
    BY <1>2, <1>8 DEF ServeSetDevice, ServeCall, Close
  <2>5. ProcOk(p)'
    BY <1>1, <1>3, <2>2, <2>3, <2>4, Zeros DEF ProcOk
  <2> QED
    BY <1>1, <1>3, <1>6, <2>1, <2>2, <2>5, TalkMove
<1>9. CASE AddLost(p) \/ AddCrash(p) \/ AddWait(p) \/ NotifyWait(p) \/ PriorityWait(p) \/ RemWait(p)
  <2>1. \/ ppc[p] = "add" /\ ppc'[p] \in {"add_lost", "dead", "add_send"}
        \/ ppc[p] = "notify" /\ ppc'[p] = "notify_send" /\ running_gpu[p] # NoGpu
        \/ ppc[p] = "priority" /\ ppc'[p] = "priority_send"
        \/ ppc[p] = "rem" /\ ppc'[p] = "rem_send"
    BY <1>2, <1>9 DEF AddLost, AddCrash, AddWait, NotifyWait, PriorityWait, RemWait, Wait
  <2>2. device' = device
    BY <1>9 DEF AddLost, AddCrash, AddWait, NotifyWait, PriorityWait, RemWait, Wait
  <2>3. Silent(p) /\ reply[p] = <<>>
    BY <2>1, AskPlace
  <2>4. ProcOk(p)'
    BY <1>1, <1>3, <2>1, <2>2, <2>3 DEF ProcOk
  <2> QED
    BY <1>1, <1>3, <1>6, <2>1, <2>3, <2>4, TalkMove
<1> QED
  BY <1>7, <1>8, <1>9

\* So do the steps that end an iteration, send or read.
LEMMA TalkSteps ==
    ASSUME TalkInv, NEW p \in Procs,
           \/ NotifySkip(p) \/ AddRead(p) \/ PriorityRead(p)
           \/ AddSend(p) \/ NotifySend(p) \/ PrioritySend(p) \/ RemSend(p)
    PROVE  TalkInv'
<1>1. TypeOK' /\ TypeOK /\ ProcOk(p)
  BY ProcTypesNext DEF TalkInv
<1>2. /\ device \in [Procs -> GPUs \cup {NoGpu}] /\ signo \in [Procs -> Slots \cup {NoIndex}]
      /\ ppc \in [Procs -> ProcPlaces] /\ served \in [Procs -> Nat]
  BY <1>1 DEF TypeOK, ProcPlaces
<1>3. CASE NotifySkip(p)
  <2>1. /\ ppc[p] = "notify" /\ running_gpu[p] = NoGpu /\ Loop(p)
        /\ UNCHANGED <<listeners, fifo, reply, served>>
    BY <1>3 DEF NotifySkip
  <2>2. Silent(p) /\ reply[p] = <<>>
    BY <2>1, AskPlace
  <2>3. Others(p)
    BY <1>1, <2>1, LoopEnds DEF Others
  <2>4. ProcOk(p)'
    BY <1>1, <2>1, <2>2, LoopEnds, Zeros DEF ProcOk
  <2>5. index[p] # NoIndex => index'[p] # NoIndex
    BY <1>1, <2>1 DEF ProcOk
  <2> QED
    BY <1>1, <2>1, <2>2, <2>3, <2>4, <2>5, TalkMove
<1>4. CASE NotifySend(p)
  <2>1. /\ ppc[p] = "notify_send" /\ Loop(p) /\ UNCHANGED <<listeners, reply>>
    BY <1>4 DEF NotifySend
  <2>2. PICK t \in Costs : /\ Write(running_gpu[p], [pid |-> p, action |-> "NOTIFY_SCHED", arg |-> t])
                           /\ served' = [served EXCEPT ![p] = @ + t]
    BY <1>4 DEF NotifySend
  <2>3. running_gpu[p] \in GPUs /\ index[p] \in Slots /\ t \in Nat
    BY <1>1, <2>1, ProcDevice, LasAssumption DEF ProcOk
  <2>4. PICK m \in Message : m = [pid |-> p, action |-> "NOTIFY_SCHED", arg |-> t]
    BY <2>3, IsMessage DEF Actions
  <2>5. Silent(p) /\ reply[p] = <<>>
    BY <2>1, AskPlace
  <2>6. Others(p)
    BY <1>1, <1>2, <2>1, <2>2, LoopEnds DEF Others
  <2>7. index'[p] # NoIndex
    BY <1>1, <2>1, <2>3, LoopEnds, Zeros
  <2>8. ProcOk(p)'
    BY <1>1, <2>1, <2>3, <2>5, <2>7, LoopEnds, Zeros DEF ProcOk
  <2>9. MsgOk(m, running_gpu[p])'
    BY <2>4, <2>7 DEF MsgOk
  <2>10. fifo' = [fifo EXCEPT ![running_gpu[p]] = Append(@, m)] /\ m.pid = p
    BY <2>2, <2>4 DEF Write
  <2>11. PICK g0 \in GPUs : g0 = running_gpu[p]
    BY <2>3
  <2>12. MsgOk(m, g0)'
    BY <2>4, <2>7 DEF MsgOk
  <2> QED
    BY <1>1, <2>1, <2>6, <2>7, <2>8, <2>10, <2>11, <2>12, TalkSend
<1>5. CASE AddSend(p)
  <2>1. /\ ppc[p] = "add_send" /\ ppc' = [ppc EXCEPT ![p] = "add_read"]
        /\ Write(device[p], [pid |-> p, action |-> "ADD_Q", arg |-> device[p]])
        /\ UNCHANGED <<listeners, reply, device, signo, running_gpu, index, served>>
    BY <1>5 DEF AddSend
  <2>2. PICK g0 \in GPUs : g0 = device[p]
    BY <1>1, <2>1, ProcDevice DEF ProcOk
  <2>3. PICK m \in Message : m = [pid |-> p, action |-> "ADD_Q", arg |-> g0]
    BY Zeros, IsMessage DEF Actions
  <2>4. Silent(p) /\ reply[p] = <<>>
    BY <2>1, AskPlace
  <2>5. Others(p)
    BY <1>2, <2>1 DEF Others
  <2>6. ppc'[p] = "add_read"
    BY <1>2, <2>1
  <2>7. ProcOk(p)'
    BY <1>1, <2>1, <2>4, <2>6 DEF ProcOk
  <2>8. MsgOk(m, g0)'
    BY <2>1, <2>2, <2>3, <2>6 DEF MsgOk
  <2>9. fifo' = [fifo EXCEPT ![g0] = Append(@, m)] /\ m.pid = p
    BY <2>1, <2>2, <2>3 DEF Write
  <2> QED
    BY <1>1, <2>1, <2>5, <2>7, <2>8, <2>9, TalkSend
<1>6. CASE PrioritySend(p) \/ RemSend(p)
  <2>1. UNCHANGED <<listeners, reply, device, signo, running_gpu, index, served>>
    BY <1>6 DEF PrioritySend, RemSend
  <2>2. ppc[p] \in {"priority_send", "rem_send"}
    BY <1>6 DEF PrioritySend, RemSend
  <2>3. PICK g0 \in GPUs : g0 = running_gpu[p]
    BY <1>1, <2>2, ProcDevice DEF ProcOk
  <2>4. index[p] \in Slots
    BY <1>1, <2>2, ProcDevice DEF ProcOk
  <2>5. PICK m \in Message :
          /\ m.pid = p
          /\ fifo' = [fifo EXCEPT ![g0] = Append(@, m)]
          /\ \/ m.action = "GET_PRIORITY" /\ m.arg = index[p] /\ ppc' = [ppc EXCEPT ![p] = "priority_read"]
                /\ ppc[p] = "priority_send"
             \/ m.action = "REM_Q" /\ ppc' = [ppc EXCEPT ![p] = "gone"]
    <3>1. CASE PrioritySend(p)
      <4>1. [pid |-> p, action |-> "GET_PRIORITY", arg |-> index[p]] \in Message
        BY <2>4, Zeros, IsMessage DEF Actions
      <4> QED
        BY <2>3, <3>1, <4>1 DEF PrioritySend, Write
    <3>2. CASE RemSend(p)
      <4>1. [pid |-> p, action |-> "REM_Q", arg |-> 0] \in Message
        BY IsMessage DEF Actions
      <4> QED
        BY <2>3, <3>2, <4>1 DEF RemSend, Write
    <3> QED
      BY <1>6, <3>1, <3>2
  <2>6. Silent(p) /\ reply[p] = <<>>
    BY <2>2, AskPlace
  <2>7. Others(p)
    BY <1>2, <2>1, <2>5 DEF Others
  <2>8. ProcOk(p)'
    BY <1>1, <1>2, <2>1, <2>2, <2>5, <2>6 DEF ProcOk
  <2>9. MsgOk(m, g0)'
    BY <1>2, <2>1, <2>4, <2>5 DEF MsgOk
  <2> QED
    BY <1>1, <2>1, <2>2, <2>5, <2>7, <2>8, <2>9, TalkSend
<1>7. CASE AddRead(p) \/ PriorityRead(p)
  <2>1. /\ reply[p] # <<>> /\ reply' = [reply EXCEPT ![p] = Tail(@)]
        /\ UNCHANGED <<listeners, fifo, device, running_gpu, index, served>>
        /\ ppc[p] \in {"add_read", "priority_read"}
    BY <1>7 DEF AddRead, PriorityRead
  <2>2. Others(p)
    BY <1>2, <1>7, <2>1 DEF Others, AddRead, PriorityRead
  <2>3. reply'[p] = <<>>
    <3>1. reply \in [Procs -> Seq(Priorities \cup Slots)] /\ Len(reply[p]) =< 1
      BY DEF TalkInv, TypeOK, AskOnce
    <3>2. Len(Tail(reply[p])) = Len(reply[p]) - 1 /\ Tail(reply[p]) \in Seq(Priorities \cup Slots)
          /\ Len(reply[p]) \in Nat
      BY <2>1, <3>1, HeadTailProperties
    <3>3. Len(Tail(reply[p])) = 0
      BY <3>1, <3>2, LenProperties
    <3> QED
      BY <2>1, <3>1, <3>2, <3>3, EmptySeq
  <2>4. ASSUME AddRead(p) PROVE ProcOk(p)'
    <3>1. ppc[p] = "add_read" /\ ppc'[p] = "notify" /\ signo'[p] = Head(reply[p])
      BY <1>2, <2>4 DEF AddRead
    <3>2. reply[p] \in Seq(Priorities \cup Slots)
      BY <1>1 DEF TypeOK
    <3>3. Head(reply[p]) = reply[p][1] /\ reply[p][1] \in Slots
      BY <1>1, <2>1, <3>1, <3>2, HeadTailProperties DEF ProcOk
    <3> QED
      BY <1>1, <2>1, <2>3, <3>1, <3>3, Zeros DEF ProcOk
  <2>5. ASSUME PriorityRead(p) PROVE ProcOk(p)'
    <3>1. ppc[p] = "priority_read" /\ ppc'[p] = "serve" /\ signo' = signo
      BY <1>2, <2>5 DEF PriorityRead
    <3> QED
      BY <1>1, <2>1, <2>3, <3>1 DEF ProcOk
  <2>6. ProcOk(p)'
    BY <1>7, <2>4, <2>5
  <2> QED
    BY <1>1, <2>1, <2>2, <2>6, TalkRead
<1> QED
  BY <1>3, <1>4, <1>5, <1>6, <1>7

\* So do the steps of a listener.
LEMMA TalkListens ==
    ASSUME TalkInv, NEW g \in GPUs,
           \/ WriteMapping(g) \/ Start(g)
           \/ TakeAdd(g) \/ TakeAgain(g) \/ TakeRem(g) \/ TakeNotify(g) \/ TakePriority(g)
           \/ RegPid(g) \/ RegValid(g) \/ RegGpu(g) \/ RegPriority(g) \/ RegIndex(g)
           \/ RegCount(g) \/ ReplyIndex(g) \/ ReplyPriority(g)
    PROVE  TalkInv'
<1>1. TypeOK' /\ TypeOK /\ PcdOk(g)
  BY ListenTypesNext DEF TalkInv
<1>2. /\ lpc \in [GPUs -> ListenPlaces] /\ fifo \in [GPUs -> Seq(Message)]
      /\ lidx \in [GPUs -> Slots] /\ priority \in [Slots -> Priorities]
  BY <1>1 DEF TypeOK, ListenPlaces
<1>3. UNCHANGED procs
  BY DEF WriteMapping, Start, TakeAdd, TakeAgain, TakeRem, TakeNotify, TakePriority, RegPid, RegValid, RegGpu,
         RegPriority, RegIndex, RegCount, ReplyIndex, ReplyPriority, Answer
<1>4. CASE \/ WriteMapping(g) \/ Start(g) \/ RegPid(g) \/ RegValid(g) \/ RegGpu(g) \/ RegPriority(g) \/ RegIndex(g)
           \/ RegCount(g)
  <2>1. UNCHANGED <<pcd, reply, fifo>>
    BY <1>4 DEF WriteMapping, Start, RegPid, RegValid, RegGpu, RegPriority, RegIndex, RegCount
  <2>2. \E to : /\ lpc' = [lpc EXCEPT ![g] = to] /\ to # "reply_priority"
                /\ to \in Adding => lpc[g] \in Registering
    BY <1>4 DEF WriteMapping, Start, RegPid, RegValid, RegGpu, RegPriority, RegIndex, RegCount, Adding, Registering
  <2>3. \A h \in GPUs : /\ lpc'[h] \in Adding => lpc[h] \in Adding
                        /\ lpc'[h] = "reply_priority" => lpc[h] = "reply_priority"
    BY <1>2, <2>2 DEF Adding
  <2>4. Later([h \in GPUs |-> 0])
    BY <1>2, <2>1, FifoStays
  <2> QED
    BY <1>1, <1>3, <2>1, <2>3, <2>4, TalkWork
<1>5. CASE TakeAgain(g) \/ TakeRem(g) \/ TakeNotify(g)
  <2>1. UNCHANGED <<listeners, reply>> /\ fifo[g] # <<>> /\ fifo' = [fifo EXCEPT ![g] = Tail(@)]
    BY <1>5 DEF TakeAgain, TakeRem, TakeNotify, Take
  <2>2. Later([h \in GPUs |-> IF h = g THEN 1 ELSE 0])
    BY <1>2, <2>1, FifoShrinks
  <2>3. lpc' = lpc /\ pcd' = pcd
    BY <2>1 DEF listeners
  <2> QED
    BY <1>1, <1>3, <2>1, <2>2, <2>3, TalkWork
<1>6. CASE TakeAdd(g) \/ TakePriority(g)
  <2>1. /\ UNCHANGED reply /\ lpc[g] = "read" /\ fifo[g] # <<>> /\ fifo' = [fifo EXCEPT ![g] = Tail(@)]
        /\ pcd' = [pcd EXCEPT ![g] = Head(fifo[g])]
        /\ \/ Head(fifo[g]).action = "ADD_Q" /\ lpc' = [lpc EXCEPT ![g] = "reg_pid"]
           \/ Head(fifo[g]).action = "GET_PRIORITY" /\ lpc' = [lpc EXCEPT ![g] = "reply_priority"]
    BY <1>6 DEF TakeAdd, TakePriority, Take
  <2> QED
    BY <1>1, <1>3, <2>1, TalkTake
<1>7. CASE ReplyIndex(g) \/ ReplyPriority(g)
  <2>1. PICK v \in Priorities \cup Slots :
          /\ Answer(g, lpc[g], v) /\ lpc[g] \in {"reply_index", "reply_priority"}
          /\ lpc[g] = "reply_index" => v \in Slots
    <3>1. CASE ReplyIndex(g)
      BY <1>2, <3>1 DEF ReplyIndex, Answer
    <3>2. CASE ReplyPriority(g)
      <4>1. priority[pcd[g].arg] \in Priorities
        BY <1>1, <1>2, <3>2 DEF ReplyPriority, PcdOk
      <4> QED
        BY <3>2, <4>1 DEF ReplyPriority, Answer
    <3> QED
      BY <1>7, <3>1, <3>2
  <2>2. /\ reply' = [reply EXCEPT ![pcd[g].pid] = Append(@, v)] /\ UNCHANGED fifo
        /\ lpc' = [lpc EXCEPT ![g] = "read"] /\ pcd' = [pcd EXCEPT ![g] = NoMessage]
    BY <2>1 DEF Answer
  <2> QED
    BY <1>1, <1>3, <2>1, <2>2, TalkAnswer
<1> QED
  BY <1>4, <1>5, <1>6, <1>7

\* So do those of a control thread, and every step.
LEMMA TalkInvNext ==
    ASSUME TalkInv, [Next]_vars
    PROVE  TalkInv'
<1>1. ASSUME NEW g \in GPUs, Wake(g) \/ Scan(g) \/ Mark(g) PROVE TalkInv'
  <2>1. TypeOK' /\ fifo \in [GPUs -> Seq(Message)]
    BY <1>1, ControlTypesNext DEF TalkInv, TypeOK
  <2>2. UNCHANGED <<listeners, fifo, reply, procs>>
    BY <1>1 DEF Wake, Scan, Mark
  <2>3. Later([h \in GPUs |-> 0])
    BY <2>1, <2>2, FifoStays
  <2>4. lpc' = lpc /\ pcd' = pcd
    BY <2>2 DEF listeners
  <2> QED
    BY <2>1, <2>2, <2>3, <2>4, TalkWork
<1>2. CASE UNCHANGED vars
  <2>1. UNCHANGED <<slots, listeners, controls, sem, fifo, reply, procs, broken>>
    BY <1>2 DEF vars
  <2>2. TypeOK' /\ fifo \in [GPUs -> Seq(Message)]
    BY <2>1 DEF TalkInv, TypeOK, slots, listeners, controls, procs
  <2>3. Later([h \in GPUs |-> 0])
    BY <2>1, <2>2, FifoStays
  <2>4. lpc' = lpc /\ pcd' = pcd
    BY <2>1 DEF listeners
  <2> QED
    BY <2>1, <2>2, <2>3, <2>4, TalkWork
<1> QED
  BY <1>1, <1>2, LasSteps, TalkQuiet, TalkSteps, TalkListens

\* No FIFO holds anything at first.
LEMMA TalkInvInit == Init => TalkInv
<1> SUFFICES ASSUME Init PROVE TalkInv
  OBVIOUS
<1>1. TypeOK
  BY LasAssumption, Zeros DEF Init, TypeOK, Priorities
<1>2. ASSUME NEW g \in GPUs PROVE fifo[g] = <<>> /\ lpc[g] = "start" /\ DOMAIN fifo[g] = {}
  BY DEF Init
<1>3. ASSUME NEW g \in GPUs PROVE PcdOk(g) /\ \A k \in DOMAIN fifo[g] : MsgOk(fifo[g][k], g)
  BY <1>2 DEF PcdOk, Busy, Adding, Registering
<1>4. ASSUME NEW p \in Procs PROVE AskOnce(p) /\ ProcOk(p)
  <2>1. reply[p] = <<>> /\ Len(reply[p]) =< 1
    BY DEF Init
  <2>2. AskOnce(p)
    BY <1>2, <2>1 DEF AskOnce, ServedBy, Busy, Adding, Registering
  <2>3. ProcOk(p)
    BY <2>1 DEF Init, ProcOk
  <2> QED
    BY <2>2, <2>3
<1> QED
  BY <1>1, <1>3, <1>4 DEF TalkInv

-----------------------------------------------------------------------------
(* The table, while registrations are orderly.                              *)

\* What went wrong is not forgotten.
LEMMA BrokenGrows == ASSUME [Next]_vars PROVE broken \subseteq broken'
<1> USE DEF ServeSetDevice, ServeCall, Close, Die, AddLost, AddCrash, AddWait, NotifyWait, PriorityWait, RemWait, Wait,
            NotifySkip, AddRead, PriorityRead, AddSend, NotifySend, PrioritySend, RemSend
<1>1. ASSUME NEW p \in Procs,
             \/ \E g \in GPUs : ServeSetDevice(p, g)
             \/ ServeCall(p) \/ Close(p) \/ Die(p)
             \/ AddLost(p) \/ AddCrash(p) \/ AddWait(p) \/ NotifyWait(p) \/ PriorityWait(p) \/ RemWait(p)
             \/ NotifySkip(p) \/ AddRead(p) \/ PriorityRead(p)
             \/ AddSend(p) \/ NotifySend(p) \/ PrioritySend(p) \/ RemSend(p)
      PROVE  broken \subseteq broken'
  BY <1>1
<1>2. ASSUME NEW g \in GPUs,
             \/ WriteMapping(g) \/ Start(g)
             \/ TakeAdd(g) \/ TakeAgain(g) \/ TakeRem(g) \/ TakeNotify(g) \/ TakePriority(g)
             \/ RegPid(g) \/ RegValid(g) \/ RegGpu(g) \/ RegPriority(g) \/ RegIndex(g)
             \/ RegCount(g) \/ ReplyIndex(g) \/ ReplyPriority(g)
             \/ Wake(g) \/ Scan(g) \/ Mark(g)
      PROVE  broken \subseteq broken'
  BY <1>2 DEF WriteMapping, Start, TakeAdd, TakeAgain, TakeRem, TakeNotify, TakePriority, RegPid, RegValid, RegGpu,
              RegPriority, RegIndex, RegCount, ReplyIndex, ReplyPriority, Answer, Wake, Scan, Mark
<1>3. UNCHANGED vars => broken \subseteq broken'
  BY DEF vars
<1> QED
  BY <1>1, <1>2, <1>3, LasSteps

\* No report of p is on the way.
NoNotes(p) == \A g \in GPUs : \A k \in DOMAIN fifo[g] : ~ NoteIn(p, g, k)

\* Where a process whose reports have all been taken is.
LEMMA NotePlace ==
    ASSUME OrderInv, NEW p \in Procs,
           \/ ppc[p] \notin {"priority", "priority_send", "priority_read", "dead"}
           \/ reply[p] # <<>>
           \/ \E h \in GPUs : ServedBy(p, h)
    PROVE  /\ NoNotes(p)
           /\ index[p] # NoIndex /\ ppc[p] # "gone" => execution_time[index[p]] = inherited[p] + served[p]
<1>1. NoteOk(p)
  BY DEF OrderInv
<1>2. NoNotes(p)
  BY <1>1 DEF NoteOk, NoNotes
<1> QED
  BY <1>1, <1>2 DEF NoteOk, NoNotes

\* A process does something: the others are not concerned.
LEMMA OrderProc ==
    ASSUME TalkInv, OrderInv, NEW p \in Procs, UNCHANGED <<slots, listeners>>, Others(p),
           Silent(p) \/ index'[p] = index[p],
           \A q \in Procs : q # p => reply'[q] = reply[q],
           \A g \in GPUs : \A k \in DOMAIN fifo[g] : k \in DOMAIN fifo'[g] /\ fifo'[g][k] = fifo[g][k],
           \A g \in GPUs : \A k \in DOMAIN fifo'[g] : k \in DOMAIN fifo[g] \/ fifo'[g][k].pid = p,
           GrantOk(p)', NoteOk(p)'
    PROVE  OrderInv'
<1>1. /\ process_list' = process_list /\ valid' = valid /\ gpu_binding' = gpu_binding
      /\ execution_time' = execution_time /\ inherited' = inherited /\ count' = count
      /\ lpc' = lpc /\ pcd' = pcd /\ lidx' = lidx
  BY DEF slots, listeners
<1>2. OneRegisters' /\ OneSlot'
  BY <1>1 DEF OrderInv, OneRegisters, OneSlot
<1>3. ASSUME NEW g \in GPUs PROVE RegOk(g)'
  <2>1. RegOk(g) /\ PcdOk(g)
    BY DEF OrderInv, TalkInv
  <2>2. CASE lpc[g] \notin Adding
    BY <1>1, <2>2 DEF RegOk, Adding, Registering
  <2>3. CASE lpc[g] \in Adding
    <3>1. pcd[g].pid \in Procs /\ ServedBy(pcd[g].pid, g)
      BY <2>1, <2>3 DEF PcdOk, Message, ServedBy, Busy
    <3>2. index'[pcd[g].pid] = index[pcd[g].pid]
      BY <3>1 DEF Others, Silent
    <3>3. (AlreadyAdded(pcd[g].pid) <=> AlreadyAdded(pcd[g].pid)')
          /\ (Granted(pcd[g].pid, lidx[g], g) <=> Granted(pcd[g].pid, lidx[g], g)')
      BY <1>1, <3>2 DEF AlreadyAdded, Granted, Owns
    <3> QED
      BY <1>1, <2>1, <3>2, <3>3 DEF RegOk
  <2> QED
    BY <2>2, <2>3
<1>4. ASSUME NEW q \in Procs, q # p PROVE GrantOk(q)' /\ NoteOk(q)'
  <2>1. GrantOk(q) /\ NoteOk(q)
    BY DEF OrderInv
  <2>2. /\ ppc'[q] = ppc[q] /\ device'[q] = device[q] /\ signo'[q] = signo[q]
        /\ running_gpu'[q] = running_gpu[q] /\ index'[q] = index[q] /\ served'[q] = served[q]
        /\ reply'[q] = reply[q]
    BY <1>4 DEF Others
  <2>3. GrantOk(q)'
    BY <1>1, <2>1, <2>2 DEF GrantOk, Granted, Owns
  <2>4. ASSUME NEW g \in GPUs, NEW k \in DOMAIN fifo'[g]
        PROVE  /\ NoteIn(q, g, k)' => k \in DOMAIN fifo[g] /\ NoteIn(q, g, k) /\ fifo'[g][k] = fifo[g][k]
               /\ AskIn(q, g, k)' => k \in DOMAIN fifo[g] /\ AskIn(q, g, k)
    BY <1>4, <2>4 DEF NoteIn, AskIn
  <2>5. ASSUME NEW g \in GPUs, NEW k \in DOMAIN fifo[g], NoteIn(q, g, k)
        PROVE  k \in DOMAIN fifo'[g] /\ NoteIn(q, g, k)'
    BY <2>5 DEF NoteIn
  <2>6. \A h \in GPUs : ServedBy(q, h)' <=> ServedBy(q, h)
    BY <1>1 DEF ServedBy
  <2>7. NoteOk(q)'
    <3>1. ASSUME NEW g \in GPUs, NEW k \in DOMAIN fifo'[g], NoteIn(q, g, k)'
          PROVE  /\ g = running_gpu'[q]
                 /\ ppc'[q] \in {"priority", "priority_send", "priority_read", "dead"}
                 /\ reply'[q] = <<>>
                 /\ \A h \in GPUs : ~ ServedBy(q, h)'
                 /\ \A h \in GPUs : \A l \in DOMAIN fifo'[h] :
                      /\ AskIn(q, h, l)' => h = g /\ k < l
                      /\ NoteIn(q, h, l)' => h = g /\ k = l
                 /\ execution_time'[index'[q]] + fifo'[g][k].arg = inherited'[q] + served'[q]
      <4>1. k \in DOMAIN fifo[g] /\ NoteIn(q, g, k) /\ fifo'[g][k] = fifo[g][k]
        BY <2>4, <3>1
      <4> QED
        BY <1>1, <2>1, <2>2, <2>4, <2>6, <4>1 DEF NoteOk
    <3>2. ASSUME index'[q] # NoIndex, ppc'[q] # "gone",
                 \A g \in GPUs : \A k \in DOMAIN fifo'[g] : ~ NoteIn(q, g, k)'
          PROVE  execution_time'[index'[q]] = inherited'[q] + served'[q]
      BY <1>1, <2>1, <2>2, <2>5, <3>2 DEF NoteOk
    <3> QED
      BY <3>1, <3>2 DEF NoteOk
  <2> QED
    BY <2>3, <2>7
<1> QED
  BY <1>2, <1>3, <1>4 DEF OrderInv

\* A process goes on in an iteration in which nothing of it is on the way.
LEMMA OrderStill ==
    ASSUME TalkInv, OrderInv, NEW p \in Procs, UNCHANGED <<slots, listeners>>, Others(p),
           NoNotes(p), ppc[p] # "gone", index'[p] = index[p], running_gpu'[p] = running_gpu[p],
           served'[p] = served[p],
           index[p] # NoIndex => execution_time[index[p]] = inherited[p] + served[p],
           \A q \in Procs : q # p => reply'[q] = reply[q],
           \A g \in GPUs : \A k \in DOMAIN fifo[g] : k \in DOMAIN fifo'[g] /\ fifo'[g][k] = fifo[g][k],
           \A g \in GPUs : \A k \in DOMAIN fifo'[g] :
             \/ k \in DOMAIN fifo[g] /\ fifo'[g][k] = fifo[g][k]
             \/ fifo'[g][k].pid = p /\ fifo'[g][k].action # "NOTIFY_SCHED",
           ppc'[p] # "add_read" \/ reply'[p] = <<>>,
           signo'[p] # NoIndex => \/ signo'[p] = signo[p] /\ device'[p] = device[p]
                                  \/ Granted(p, signo'[p], device'[p])
    PROVE  OrderInv'
<1>1. /\ process_list' = process_list /\ valid' = valid /\ gpu_binding' = gpu_binding
      /\ execution_time' = execution_time /\ inherited' = inherited
  BY DEF slots
<1>2. GrantOk(p)'
  <2>1. GrantOk(p)
    BY DEF OrderInv
  <2> QED
    BY <1>1, <2>1 DEF GrantOk, Granted, Owns
<1>3. NoteOk(p)'
  <2>1. \A g \in GPUs : \A k \in DOMAIN fifo'[g] : ~ NoteIn(p, g, k)'
    BY DEF NoNotes, NoteIn
  <2> QED
    BY <1>1, <2>1 DEF NoteOk
<1> QED
  BY <1>2, <1>3, OrderProc

\* Requests, calls, semaphores and death keep the table in order.
LEMMA OrderQuiet ==
    ASSUME TalkInv, OrderInv, NEW p \in Procs,
           \/ \E g \in GPUs : ServeSetDevice(p, g)
           \/ ServeCall(p) \/ Close(p) \/ Die(p)
           \/ AddLost(p) \/ AddCrash(p) \/ AddWait(p) \/ NotifyWait(p) \/ PriorityWait(p) \/ RemWait(p)
    PROVE  OrderInv'
<1>1. TypeOK /\ ProcOk(p) /\ GrantOk(p) /\ NoteOk(p)
  BY DEF TalkInv, OrderInv
<1>2. device \in [Procs -> GPUs \cup {NoGpu}] /\ ppc \in [Procs -> ProcPlaces]
  BY <1>1 DEF TypeOK, ProcPlaces
<1>3. UNCHANGED <<slots, listeners, fifo, reply, signo, running_gpu, index, served>>
  BY DEF ServeSetDevice, ServeCall, Close, Die, AddLost, AddCrash, AddWait, NotifyWait, PriorityWait, RemWait, Wait
<1>4. \E to : ppc' = [ppc EXCEPT ![p] = to]
  BY DEF ServeSetDevice, ServeCall, Close, Die, AddLost, AddCrash, AddWait, NotifyWait, PriorityWait, RemWait, Wait
<1>5. device' = device \/ \E to : device' = [device EXCEPT ![p] = to]
  BY DEF ServeSetDevice, ServeCall, Close, Die, AddLost, AddCrash, AddWait, NotifyWait, PriorityWait, RemWait, Wait
<1>6. Others(p)
  BY <1>2, <1>3, <1>4, <1>5 DEF Others
<1>7. CASE \/ \E g \in GPUs : ServeSetDevice(p, g)
           \/ ServeCall(p) \/ Close(p)
           \/ AddLost(p) \/ AddCrash(p) \/ AddWait(p) \/ NotifyWait(p) \/ RemWait(p)
  <2>1. ppc[p] \in {"serve", "add", "notify", "rem"}
    BY <1>7 DEF ServeSetDevice, ServeCall, Close, AddLost, AddCrash, AddWait, NotifyWait, RemWait, Wait
  <2>2. ppc'[p] # "add_read"
    BY <1>2, <1>7 DEF ServeSetDevice, ServeCall, Close, AddLost, AddCrash, AddWait, NotifyWait, RemWait, Wait
  <2>3. signo[p] # NoIndex => device' = device
    BY <1>1, <1>7 DEF ServeSetDevice, ServeCall, Close, AddLost, AddCrash, AddWait, NotifyWait, RemWait, Wait, ProcOk
  <2>4. NoNotes(p) /\ (index[p] # NoIndex => execution_time[index[p]] = inherited[p] + served[p])
    BY <2>1, NotePlace
  <2> QED
    BY <1>3, <1>6, <2>1, <2>2, <2>3, <2>4, OrderStill
<1>8. CASE PriorityWait(p) \/ Die(p)
  <2>1. device' = device /\ ppc[p] # "gone" /\ ppc'[p] \in {"priority_send", "dead"}
        /\ (ppc[p] = "priority" \/ ppc'[p] = "dead")
    BY <1>2, <1>8 DEF PriorityWait, Wait, Die
  <2>2. /\ process_list' = process_list /\ valid' = valid /\ gpu_binding' = gpu_binding
        /\ execution_time' = execution_time /\ inherited' = inherited /\ lpc' = lpc /\ pcd' = pcd
    BY <1>3 DEF slots, listeners
  <2>3. GrantOk(p)'
    BY <1>1, <1>3, <2>1, <2>2 DEF GrantOk, Granted, Owns
  <2>4. NoteOk(p)'
    BY <1>1, <1>3, <2>1, <2>2 DEF NoteOk, NoteIn, AskIn, ServedBy
  <2> QED
    BY <1>3, <1>6, <2>3, <2>4, OrderProc
<1> QED
  BY <1>7, <1>8

\* So does the end of an iteration.
LEMMA OrderLoop ==
    ASSUME TalkInv, OrderInv, NEW p \in Procs, NotifySkip(p) \/ NotifySend(p)
    PROVE  OrderInv'
<1>1. TypeOK /\ ProcOk(p) /\ GrantOk(p)
  BY DEF TalkInv, OrderInv
<1>2. ppc[p] \in {"notify", "notify_send"} /\ Loop(p) /\ UNCHANGED <<slots, listeners, reply>>
  BY DEF NotifySkip, NotifySend
<1>3. Silent(p) /\ reply[p] = <<>>
  BY <1>2, AskPlace
<1>4. NoNotes(p) /\ (index[p] # NoIndex => execution_time[index[p]] = inherited[p] + served[p])
  BY <1>2, NotePlace
<1>5. /\ process_list' = process_list /\ valid' = valid /\ gpu_binding' = gpu_binding
      /\ execution_time' = execution_time /\ inherited' = inherited /\ lpc' = lpc /\ pcd' = pcd
  BY <1>2 DEF slots, listeners
<1>6. signo[p] # NoIndex => index[p] = NoIndex /\ Granted(p, signo[p], device[p])
  BY <1>1 DEF GrantOk, Granted
<1>7. GrantOk(p)'
  <2>1. device'[p] = NoGpu /\ signo'[p] = NoIndex /\ ppc'[p] # "add_read"
    BY <1>1, <1>2, LoopEnds
  <2>2. index'[p] # NoIndex => Owns(p, index'[p], running_gpu'[p])
    <3>1. CASE signo[p] = NoIndex
      <4>1. index'[p] = index[p] /\ running_gpu'[p] = running_gpu[p]
        BY <1>1, <1>2, <3>1, LoopEnds, Zeros
      <4> QED
        BY <1>1, <1>2, <4>1 DEF GrantOk
    <3>2. CASE signo[p] # NoIndex
      <4>1. index'[p] = signo[p] /\ running_gpu'[p] = device[p]
        BY <1>1, <1>2, <3>2, LoopEnds
      <4> QED
        BY <1>6, <3>2, <4>1 DEF Granted
    <3> QED
      BY <3>1, <3>2
  <2> QED
    BY <1>5, <2>1, <2>2 DEF GrantOk, Owns
<1>8. CASE NotifySkip(p)
  <2>1. running_gpu[p] = NoGpu /\ UNCHANGED <<fifo, served>>
    BY <1>8 DEF NotifySkip
  <2>2. index[p] = NoIndex /\ served[p] = 0
    BY <1>1, <2>1 DEF ProcOk
  <2>3. Others(p)
    BY <1>1, <1>2, <2>1, LoopEnds DEF Others
  <2>4. index'[p] # NoIndex => execution_time[index'[p]] = inherited[p]
    <3>1. CASE signo[p] = NoIndex
      BY <1>1, <1>2, <2>2, <3>1, LoopEnds, Zeros
    <3>2. CASE signo[p] # NoIndex
      <4>1. index'[p] = signo[p]
        BY <1>1, <1>2, <3>2, LoopEnds
      <4> QED
        BY <1>6, <3>2, <4>1 DEF Granted
    <3> QED
      BY <3>1, <3>2
  <2>5. NoteOk(p)'
    <3>1. \A g \in GPUs : \A k \in DOMAIN fifo'[g] : ~ NoteIn(p, g, k)'
      BY <1>4, <2>1 DEF NoNotes, NoteIn
    <3>2. inherited[p] \in Nat /\ inherited[p] + 0 = inherited[p]
      BY <1>1 DEF TypeOK
    <3> QED
      BY <1>1, <1>5, <2>1, <2>2, <2>4, <3>1, <3>2 DEF NoteOk
  <2> QED
    BY <1>2, <1>3, <1>7, <2>1, <2>3, <2>5, OrderProc
<1>9. CASE NotifySend(p)
  <2>1. PICK t \in Costs : /\ Write(running_gpu[p], [pid |-> p, action |-> "NOTIFY_SCHED", arg |-> t])
                           /\ served' = [served EXCEPT ![p] = @ + t]
    BY <1>9 DEF NotifySend
  <2>2. index[p] \in Slots /\ running_gpu[p] \in GPUs /\ t \in Nat
    BY <1>1, <1>9, ProcDevice, LasAssumption DEF ProcOk, NotifySend
  <2>3. signo[p] = NoIndex
    BY <1>6, <2>2, Zeros
  <2>4. index'[p] = index[p] /\ running_gpu'[p] = running_gpu[p] /\ ppc'[p] = "priority"
    BY <1>1, <1>2, <2>2, <2>3, LoopEnds, Zeros
  <2>5. PICK m \in Message : m = [pid |-> p, action |-> "NOTIFY_SCHED", arg |-> t]
    BY <2>2, IsMessage DEF Actions
  <2>6. PICK g0 \in GPUs : g0 = running_gpu[p]
    BY <2>2
  <2>7. fifo' = [fifo EXCEPT ![g0] = Append(@, m)] /\ fifo \in [GPUs -> Seq(Message)]
    BY <1>1, <2>1, <2>5, <2>6 DEF Write, TypeOK
  <2>8. Others(p)
    BY <1>1, <1>2, <2>1, LoopEnds DEF Others, TypeOK
  <2>9. PICK n : n = Len(fifo[g0]) + 1
    OBVIOUS
  <2>10. /\ \A g \in GPUs : \A k \in DOMAIN fifo'[g] :
               \/ k \in DOMAIN fifo[g] /\ fifo'[g][k] = fifo[g][k]
               \/ g = g0 /\ k = n /\ fifo'[g][k] = m
         /\ \A g \in GPUs : \A k \in DOMAIN fifo[g] : k \in DOMAIN fifo'[g] /\ fifo'[g][k] = fifo[g][k]
         /\ n \in DOMAIN fifo'[g0] /\ fifo'[g0][n] = m
    BY <2>7, <2>9, FifoGrows
  <2>11. served'[p] = served[p] + t /\ execution_time'[index'[p]] = inherited[p] + served[p]
    BY <1>1, <1>4, <1>5, <2>1, <2>2, <2>4, Zeros DEF TypeOK
  <2>12. NoteOk(p)'
    <3>1. ASSUME NEW g \in GPUs, NEW k \in DOMAIN fifo'[g]
          PROVE  NoteIn(p, g, k)' => g = g0 /\ k = n /\ fifo'[g][k] = m
      BY <1>4, <2>10 DEF NoNotes, NoteIn
    <3>2. ASSUME NEW g \in GPUs, NEW k \in DOMAIN fifo'[g] PROVE ~ AskIn(p, g, k)'
      BY <1>3, <2>5, <2>10 DEF Silent, AskIn
    <3>3. \A h \in GPUs : ~ ServedBy(p, h)'
      BY <1>3, <1>5 DEF Silent, ServedBy
    <3>4. NoteIn(p, g0, n)'
      BY <2>5, <2>10 DEF NoteIn
    <3>5. execution_time'[index'[p]] + m.arg = inherited'[p] + served'[p]
      <4>1. inherited' = inherited /\ inherited[p] \in Nat /\ served[p] \in Nat
        BY <1>1, <1>5 DEF TypeOK
      <4>2. m.arg = t
        BY <2>5
      <4> QED
        BY <2>2, <2>11, <4>1, <4>2
    <3>6. reply'[p] = <<>>
      BY <1>2, <1>3
    <3> QED
      BY <2>4, <2>6, <2>10, <3>1, <3>2, <3>3, <3>4, <3>5, <3>6 DEF NoteOk
  <2>13. \A g \in GPUs : \A k \in DOMAIN fifo'[g] : k \in DOMAIN fifo[g] \/ fifo'[g][k].pid = p
    BY <2>5, <2>10
  <2> QED
    BY <1>2, <1>3, <1>7, <2>8, <2>10, <2>12, <2>13, OrderProc
<1> QED
  BY <1>8, <1>9

\* So do the requests to register and to deregister, and the answers.
LEMMA OrderTalk ==
    ASSUME TalkInv, OrderInv, NEW p \in Procs,
           AddSend(p) \/ RemSend(p) \/ AddRead(p) \/ PriorityRead(p)
    PROVE  OrderInv'
<1>1. TypeOK /\ ProcOk(p) /\ GrantOk(p)
  BY DEF TalkInv, OrderInv
<1>2. /\ ppc \in [Procs -> ProcPlaces] /\ signo \in [Procs -> Slots \cup {NoIndex}]
      /\ fifo \in [GPUs -> Seq(Message)] /\ reply \in [Procs -> Seq(Priorities \cup Slots)]
  BY <1>1 DEF TypeOK, ProcPlaces
<1>3. UNCHANGED <<slots, listeners, device, running_gpu, index, served>>
  BY DEF AddSend, RemSend, AddRead, PriorityRead
<1>4. CASE AddSend(p) \/ RemSend(p)
  <2>1. /\ UNCHANGED <<reply, signo>> /\ ppc[p] \in {"add_send", "rem_send"}
        /\ \E to : ppc' = [ppc EXCEPT ![p] = to]
    BY <1>4 DEF AddSend, RemSend
  <2>2. NoNotes(p) /\ (index[p] # NoIndex => execution_time[index[p]] = inherited[p] + served[p])
    BY <2>1, NotePlace
  <2>3. reply[p] = <<>>
    BY <2>1, AskPlace
  <2>4. Others(p)
    BY <1>2, <1>3, <2>1 DEF Others
  <2>5. PICK g0 \in GPUs, m \in Message :
          fifo' = [fifo EXCEPT ![g0] = Append(@, m)] /\ m.pid = p /\ m.action # "NOTIFY_SCHED"
    <3>1. CASE AddSend(p)
      <4>1. device[p] \in GPUs
        BY <1>1, <3>1, ProcDevice DEF AddSend, ProcOk
      <4>2. [pid |-> p, action |-> "ADD_Q", arg |-> device[p]] \in Message
        BY <4>1, Zeros, IsMessage DEF Actions
      <4> QED
        BY <3>1, <4>1, <4>2 DEF AddSend, Write
    <3>2. CASE RemSend(p)
      <4>1. running_gpu[p] \in GPUs
        BY <1>1, <3>2, ProcDevice DEF RemSend, ProcOk
      <4>2. [pid |-> p, action |-> "REM_Q", arg |-> 0] \in Message
        BY IsMessage DEF Actions
      <4> QED
        BY <3>2, <4>1, <4>2 DEF RemSend, Write
    <3> QED
      BY <1>4, <3>1, <3>2
  <2>6. /\ \A g \in GPUs : \A k \in DOMAIN fifo'[g] :
             \/ k \in DOMAIN fifo[g] /\ fifo'[g][k] = fifo[g][k]
             \/ fifo'[g][k] = m
        /\ \A g \in GPUs : \A k \in DOMAIN fifo[g] : k \in DOMAIN fifo'[g] /\ fifo'[g][k] = fifo[g][k]
    BY <1>2, <2>5, FifoGrows
  <2>7. \A g \in GPUs : \A k \in DOMAIN fifo'[g] :
             \/ k \in DOMAIN fifo[g] /\ fifo'[g][k] = fifo[g][k]
             \/ fifo'[g][k].pid = p /\ fifo'[g][k].action # "NOTIFY_SCHED"
    BY <2>5, <2>6
  <2>8. ppc[p] # "gone"
    BY <2>1
  <2> QED
    BY <1>3, <2>1, <2>2, <2>3, <2>4, <2>6, <2>7, <2>8, OrderStill
<1>5. CASE AddRead(p) \/ PriorityRead(p)
  <2>1. /\ reply[p] # <<>> /\ reply' = [reply EXCEPT ![p] = Tail(@)] /\ UNCHANGED fifo
        /\ ppc[p] \in {"add_read", "priority_read"}
        /\ \E to \in {"notify", "serve"} : ppc' = [ppc EXCEPT ![p] = to]
    BY <1>5 DEF AddRead, PriorityRead
  <2>2. NoNotes(p) /\ (index[p] # NoIndex => execution_time[index[p]] = inherited[p] + served[p])
    BY <2>1, NotePlace
  <2>3. Others(p)
    BY <1>2, <1>3, <1>5, <2>1 DEF Others, AddRead, PriorityRead
  <2>4. signo'[p] # NoIndex => Granted(p, signo'[p], device'[p])
    <3>1. CASE AddRead(p)
      <4>1. ppc[p] = "add_read" /\ signo'[p] = Head(reply[p])
        BY <1>2, <3>1 DEF AddRead
      <4>2. reply[p] \in Seq(Priorities \cup Slots)
        BY <1>2
      <4>3. Head(reply[p]) = reply[p][1]
        BY <2>1, <4>2, HeadTailProperties
      <4> QED
        BY <1>1, <1>3, <2>1, <4>1, <4>3 DEF GrantOk
    <3>2. CASE PriorityRead(p)
      BY <1>1, <3>2 DEF PriorityRead, ProcOk
    <3> QED
      BY <1>5, <3>1, <3>2
  <2>5. ppc'[p] # "add_read" /\ ppc[p] # "gone"
    BY <1>2, <2>1
  <2>6. \A q \in Procs : q # p => reply'[q] = reply[q]
    BY <1>2, <2>1
  <2> QED
    BY <1>3, <2>1, <2>2, <2>3, <2>4, <2>5, <2>6, OrderStill
<1> QED
  BY <1>4, <1>5

\* So does a request for the priority: it follows the report.
LEMMA OrderAsk ==
    ASSUME TalkInv, OrderInv, NEW p \in Procs, PrioritySend(p)
    PROVE  OrderInv'
<1>1. TypeOK /\ ProcOk(p) /\ GrantOk(p) /\ NoteOk(p)
  BY DEF TalkInv, OrderInv
<1>2. ppc \in [Procs -> ProcPlaces] /\ fifo \in [GPUs -> Seq(Message)]
  BY <1>1 DEF TypeOK, ProcPlaces
<1>3. /\ UNCHANGED <<slots, listeners, reply, device, signo, running_gpu, index, served>>
      /\ ppc[p] = "priority_send" /\ ppc' = [ppc EXCEPT ![p] = "priority_read"]
  BY DEF PrioritySend
<1>4. /\ process_list' = process_list /\ valid' = valid /\ gpu_binding' = gpu_binding
      /\ execution_time' = execution_time /\ inherited' = inherited /\ lpc' = lpc /\ pcd' = pcd
  BY <1>3 DEF slots, listeners
<1>5. ppc'[p] = "priority_read" /\ Others(p)
  BY <1>2, <1>3 DEF Others
<1>6. Silent(p) /\ reply[p] = <<>>
  BY <1>3, AskPlace
<1>7. PICK g0 \in GPUs : g0 = running_gpu[p]
  BY <1>1, <1>3, ProcDevice DEF ProcOk
<1>8. PICK m \in Message : m = [pid |-> p, action |-> "GET_PRIORITY", arg |-> index[p]]
  BY <1>1, <1>3, ProcDevice, Zeros, IsMessage DEF Actions, ProcOk
<1>9. fifo' = [fifo EXCEPT ![g0] = Append(@, m)]
  BY <1>7, <1>8 DEF PrioritySend, Write
<1>10. PICK n : n = Len(fifo[g0]) + 1
  OBVIOUS
<1>11. /\ \A g \in GPUs : \A k \in DOMAIN fifo'[g] :
            \/ k \in DOMAIN fifo[g] /\ fifo'[g][k] = fifo[g][k]
            \/ g = g0 /\ k = n /\ fifo'[g][k] = m
       /\ \A g \in GPUs : \A k \in DOMAIN fifo[g] : k \in DOMAIN fifo'[g] /\ fifo'[g][k] = fifo[g][k]
       /\ \A k \in DOMAIN fifo[g0] : k < n
  BY <1>2, <1>9, <1>10, FifoGrows
<1>12. GrantOk(p)'
  BY <1>1, <1>3, <1>4, <1>5 DEF GrantOk, Granted, Owns
<1>13. ASSUME NEW g \in GPUs, NEW k \in DOMAIN fifo'[g]
       PROVE  /\ NoteIn(p, g, k)' => k \in DOMAIN fifo[g] /\ NoteIn(p, g, k) /\ fifo'[g][k] = fifo[g][k]
              /\ AskIn(p, g, k)' => g = g0 /\ k = n
  BY <1>6, <1>8, <1>11 DEF NoteIn, AskIn, Silent
<1>14. NoteOk(p)'
  <2>1. ASSUME NEW g \in GPUs, NEW k \in DOMAIN fifo'[g], NoteIn(p, g, k)'
        PROVE  /\ g = running_gpu'[p] /\ ppc'[p] = "priority_read" /\ reply'[p] = <<>>
               /\ \A h \in GPUs : ~ ServedBy(p, h)'
               /\ \A h \in GPUs : \A l \in DOMAIN fifo'[h] :
                    /\ AskIn(p, h, l)' => h = g /\ k < l
                    /\ NoteIn(p, h, l)' => h = g /\ k = l
               /\ execution_time'[index'[p]] + fifo'[g][k].arg = inherited'[p] + served'[p]
    <3>1. k \in DOMAIN fifo[g] /\ NoteIn(p, g, k) /\ fifo'[g][k] = fifo[g][k]
      BY <1>13, <2>1
    <3>2. g = g0 /\ k < n
      BY <1>1, <1>7, <1>11, <3>1 DEF NoteOk
    <3>3. execution_time'[index'[p]] + fifo'[g][k].arg = inherited'[p] + served'[p]
      BY <1>1, <1>3, <1>4, <3>1 DEF NoteOk
    <3>4. \A h \in GPUs : \A l \in DOMAIN fifo'[h] : NoteIn(p, h, l)' => h = g /\ k = l
      BY <1>1, <1>13, <3>1 DEF NoteOk
    <3>5. \A h \in GPUs : ~ ServedBy(p, h)'
      BY <1>4, <1>6 DEF Silent, ServedBy
    <3> QED
      BY <1>3, <1>5, <1>6, <1>7, <1>13, <3>2, <3>3, <3>4, <3>5
  <2>2. ASSUME index'[p] # NoIndex, \A g \in GPUs : \A k \in DOMAIN fifo'[g] : ~ NoteIn(p, g, k)'
        PROVE  execution_time'[index'[p]] = inherited'[p] + served'[p]
    <3>1. \A g \in GPUs : \A k \in DOMAIN fifo[g] : ~ NoteIn(p, g, k)
      BY <1>11, <2>2 DEF NoteIn
    <3> QED
      BY <1>1, <1>3, <1>4, <2>2, <3>1 DEF NoteOk
  <2> QED
    BY <2>1, <2>2 DEF NoteOk
<1>15. \A g \in GPUs : \A k \in DOMAIN fifo'[g] : k \in DOMAIN fifo[g] \/ fifo'[g][k].pid = p
  BY <1>8, <1>11
<1> QED
  BY <1>3, <1>5, <1>6, <1>11, <1>12, <1>14, <1>15, OrderProc

\* The reports of q move up in the FIFOs; none is taken.
LEMMA NoteShift ==
    ASSUME TalkInv, NEW q \in Procs, NoteOk(q), UNCHANGED procs, reply'[q] = reply[q],
           NEW d, Later(d), \A h \in GPUs : ServedBy(q, h)' => ServedBy(q, h),
           \A g \in GPUs : \A k \in DOMAIN fifo[g] :
             NoteIn(q, g, k) => \E l \in DOMAIN fifo'[g] : fifo'[g][l] = fifo[g][k],
           index[q] # NoIndex /\ ppc[q] # "gone" => /\ execution_time'[index[q]] = execution_time[index[q]]
                                                 /\ inherited'[q] = inherited[q]
    PROVE  NoteOk(q)'
<1>1. /\ ppc' = ppc /\ running_gpu' = running_gpu /\ index' = index /\ served' = served
  BY DEF procs
<1>2. ASSUME NEW g \in GPUs, NEW k \in DOMAIN fifo'[g]
      PROVE  /\ k \in Nat /\ d[g] \in {0, 1} /\ k + d[g] \in DOMAIN fifo[g]
             /\ fifo'[g][k] = fifo[g][k + d[g]]
             /\ NoteIn(q, g, k)' => NoteIn(q, g, k + d[g])
             /\ AskIn(q, g, k)' => AskIn(q, g, k + d[g])
  BY <1>2 DEF Later, NoteIn, AskIn
<1>3. ASSUME NEW g \in GPUs, NEW k \in DOMAIN fifo'[g], NoteIn(q, g, k)'
      PROVE  /\ g = running_gpu'[q]
             /\ ppc'[q] \in {"priority", "priority_send", "priority_read", "dead"}
             /\ reply'[q] = <<>>
             /\ \A h \in GPUs : ~ ServedBy(q, h)'
             /\ \A h \in GPUs : \A l \in DOMAIN fifo'[h] :
                  /\ AskIn(q, h, l)' => h = g /\ k < l
                  /\ NoteIn(q, h, l)' => h = g /\ k = l
             /\ execution_time'[index'[q]] + fifo'[g][k].arg = inherited'[q] + served'[q]
  <2>1. k + d[g] \in DOMAIN fifo[g] /\ NoteIn(q, g, k + d[g]) /\ k \in Nat /\ d[g] \in {0, 1}
    BY <1>2, <1>3
  <2>2. PICK kk \in DOMAIN fifo[g] : kk = k + d[g]
    BY <2>1
  <2>3. /\ g = running_gpu[q] /\ ppc[q] \in {"priority", "priority_send", "priority_read", "dead"}
        /\ reply[q] = <<>> /\ \A h \in GPUs : ~ ServedBy(q, h)
        /\ execution_time[index[q]] + fifo[g][kk].arg = inherited[q] + served[q]
        /\ \A h \in GPUs : \A l \in DOMAIN fifo[h] :
             /\ AskIn(q, h, l) => h = g /\ kk < l
             /\ NoteIn(q, h, l) => h = g /\ kk = l
    BY <2>1, <2>2 DEF NoteOk
  <2>4. ASSUME NEW h \in GPUs, NEW l \in DOMAIN fifo'[h]
        PROVE  /\ AskIn(q, h, l)' => h = g /\ k < l
               /\ NoteIn(q, h, l)' => h = g /\ k = l
    <3>1. /\ AskIn(q, h, l)' => h = g /\ kk < l + d[h]
          /\ NoteIn(q, h, l)' => h = g /\ kk = l + d[h]
      BY <1>2, <2>3
    <3>2. l \in Nat /\ d[h] \in {0, 1}
      BY <1>2
    <3> QED
      BY <2>1, <2>2, <3>1, <3>2
  <2>5. MsgOk(fifo[g][kk], g) /\ fifo[g][kk].action = "NOTIFY_SCHED" /\ fifo[g][kk].pid = q
    BY <2>1, <2>2 DEF TalkInv, NoteIn
  <2>6. index[q] # NoIndex
    BY <2>5 DEF MsgOk
  <2>7. execution_time'[index'[q]] + fifo'[g][k].arg = inherited'[q] + served'[q]
    BY <1>1, <1>2, <2>2, <2>3, <2>6
  <2> QED
    BY <1>1, <2>3, <2>4, <2>7
<1>4. ASSUME index'[q] # NoIndex, ppc'[q] # "gone",
             \A g \in GPUs : \A k \in DOMAIN fifo'[g] : ~ NoteIn(q, g, k)'
      PROVE  execution_time'[index'[q]] = inherited'[q] + served'[q]
  <2>1. \A g \in GPUs : \A k \in DOMAIN fifo[g] : ~ NoteIn(q, g, k)
    BY <1>4 DEF NoteIn
  <2> QED
    BY <1>1, <1>4, <2>1 DEF NoteOk
<1> QED
  BY <1>3, <1>4 DEF NoteOk

\* A slot that is given to q, or will be, stays so, with the time it held then.
OwnsKept(q) ==
    \A i \in Slots : \A h :
      Owns(q, i, h) /\ ppc[q] # "gone" /\ (index[q] = NoIndex => h = device[q])
      => /\ Owns(q, i, h)'
         /\ index[q] = NoIndex => execution_time'[i] = execution_time[i] /\ inherited'[q] = inherited[q]

\* After the step, slot i is given to q for GPU h.
GrantedNext(q, i, h) ==
    /\ i \in Slots /\ process_list'[i] = q /\ valid'[i] /\ gpu_binding'[i] = h
    /\ execution_time'[i] = inherited'[q] /\ index'[q] = NoIndex

\* The listener of g0 does something that takes no slot from a process.
LEMMA OrderTable ==
    ASSUME TalkInv, OrderInv, UNCHANGED procs, NEW g0 \in GPUs,
           \A q \in Procs : OwnsKept(q) /\ NoteOk(q)',
           \A q \in Procs : \/ reply'[q] = reply[q]
                            \/ ppc[q] = "add_read" => GrantedNext(q, reply'[q][1], device[q]),
           \A h \in GPUs : h # g0 => lpc'[h] = lpc[h] /\ pcd'[h] = pcd[h] /\ lidx'[h] = lidx[h],
           \A h \in GPUs : h # g0 /\ lpc[h] \in Registering => RegOk(h)',
           OneRegisters', OneSlot', RegOk(g0)'
    PROVE  OrderInv'
<1>1. /\ ppc' = ppc /\ running_gpu' = running_gpu /\ index' = index /\ device' = device /\ signo' = signo
  BY DEF procs
<1>2. TypeOK
  BY DEF TalkInv
<1>3. ASSUME NEW q \in Procs PROVE GrantOk(q)'
  <2>1. GrantOk(q) /\ ProcOk(q) /\ OwnsKept(q)
    BY DEF OrderInv, TalkInv
  <2>2. ASSUME NEW i, Granted(q, i, device[q]), ppc[q] # "gone" PROVE GrantedNext(q, i, device[q])
    BY <1>1, <2>1, <2>2 DEF Granted, OwnsKept, Owns, GrantedNext
  <2>3. signo[q] # NoIndex => GrantedNext(q, signo[q], device[q])
    BY <2>1, <2>2 DEF GrantOk, ProcOk
  <2>4. ASSUME index[q] # NoIndex, ppc[q] # "gone"
        PROVE  /\ process_list'[index[q]] = q /\ valid'[index[q]]
               /\ gpu_binding'[index[q]] = running_gpu[q]
    <3>1. index[q] \in Slots
      BY <1>2, <2>4, ProcDevice
    <3> QED
      BY <2>1, <2>4, <3>1 DEF GrantOk, OwnsKept, Owns
  <2>5. ppc[q] = "add_read" /\ reply'[q] # <<>> => GrantedNext(q, reply'[q][1], device[q])
    <3>1. CASE reply'[q] = reply[q]
      <4>1. ASSUME ppc[q] = "add_read", reply[q] # <<>> PROVE GrantedNext(q, reply[q][1], device[q])
        BY <2>1, <2>2, <4>1 DEF GrantOk
      <4> QED
        BY <3>1, <4>1
    <3>2. CASE ppc[q] = "add_read" => GrantedNext(q, reply'[q][1], device[q])
      BY <3>2
    <3> QED
      BY <3>1, <3>2
  <2> QED
    BY <1>1, <2>3, <2>4, <2>5 DEF GrantOk, Granted, Owns, GrantedNext
<1>4. ASSUME NEW h \in GPUs PROVE RegOk(h)'
  <2>1. CASE h = g0 \/ lpc[h] \in Registering
    BY <2>1
  <2>2. CASE h # g0 /\ lpc[h] \notin Registering
    <3>1. lpc'[h] = lpc[h] /\ pcd'[h] = pcd[h] /\ lidx'[h] = lidx[h]
      BY <2>2
    <3>2. CASE lpc[h] = "reply_index"
      <4>1. RegOk(h) /\ PcdOk(h) /\ pcd[h] \in Message
        BY <3>2 DEF OrderInv, TalkInv, PcdOk, Busy, Adding
      <4>2. PICK q \in Procs : q = pcd[h].pid
        BY <4>1 DEF Message
      <4>3. Granted(q, lidx[h], h) /\ device[q] = h /\ ppc[q] # "gone" /\ OwnsKept(q)
        BY <3>2, <4>1, <4>2 DEF RegOk, PcdOk, Adding
      <4>4. Granted(q, lidx[h], h)'
        BY <1>1, <3>1, <4>3 DEF Granted, OwnsKept
      <4> QED
        BY <3>1, <3>2, <4>2, <4>4 DEF RegOk, Registering
    <3>3. CASE lpc[h] # "reply_index"
      BY <2>2, <3>1, <3>3 DEF RegOk, Registering
    <3> QED
      BY <3>2, <3>3
  <2> QED
    BY <2>1, <2>2
<1> QED
  BY <1>3, <1>4 DEF OrderInv

\* The message a listener takes.
LEMMA Taken ==
    ASSUME TalkInv, NEW g \in GPUs, NEW a, Take(g, a), NEW m, m = Head(fifo[g])
    PROVE  /\ m \in Message /\ m.pid \in Procs /\ m.action = a /\ MsgOk(m, g)
           /\ 1 \in DOMAIN fifo[g] /\ fifo[g][1] = m /\ lpc[g] = "read"
           /\ Later([h \in GPUs |-> IF h = g THEN 1 ELSE 0])
           /\ \A k \in DOMAIN fifo'[g] : k + 1 # 1
           /\ \A h \in GPUs : \A k \in DOMAIN fifo[h] :
                (h = g /\ k = 1) \/ \E l \in DOMAIN fifo'[h] : fifo'[h][l] = fifo[h][k]
<1>1. fifo \in [GPUs -> Seq(Message)]
  BY DEF TalkInv, TypeOK
<1>2. fifo[g] # <<>> /\ fifo' = [fifo EXCEPT ![g] = Tail(@)] /\ m.action = a /\ lpc[g] = "read"
  BY DEF Take
<1>3. m \in Message /\ 1 \in DOMAIN fifo[g] /\ fifo[g][1] = m
  BY <1>1, <1>2, FifoShrinks
<1>4. m.pid \in Procs /\ MsgOk(m, g)
  BY <1>3 DEF Message, TalkInv
<1> QED
  BY <1>1, <1>2, <1>3, <1>4, FifoShrinks

\* An illegal request is dropped.
LEMMA OrderAgain ==
    ASSUME TalkInv, OrderInv, NEW g \in GPUs, TakeAgain(g)
    PROVE  OrderInv'
<1> DEFINE d == [h \in GPUs |-> IF h = g THEN 1 ELSE 0]
<1>1. PICK m : m = Head(fifo[g])
  OBVIOUS
<1>2. Take(g, "ADD_Q") /\ UNCHANGED <<slots, listeners, reply, procs>>
  BY DEF TakeAgain
<1>3. /\ Later(d) /\ m.action = "ADD_Q" /\ fifo[g][1] = m /\ lpc[g] = "read"
      /\ \A h \in GPUs : \A k \in DOMAIN fifo[h] :
           (h = g /\ k = 1) \/ \E l \in DOMAIN fifo'[h] : fifo'[h][l] = fifo[h][k]
  BY <1>1, <1>2, Taken
<1> HIDE DEF d
<1>4. /\ process_list' = process_list /\ valid' = valid /\ gpu_binding' = gpu_binding
      /\ execution_time' = execution_time /\ inherited' = inherited /\ count' = count
      /\ lpc' = lpc /\ pcd' = pcd /\ lidx' = lidx
      /\ index' = index /\ device' = device /\ ppc' = ppc
  BY <1>2 DEF slots, listeners, procs
<1>5. ASSUME NEW q \in Procs PROVE OwnsKept(q) /\ NoteOk(q)' /\ reply'[q] = reply[q]
  <2>1. OwnsKept(q)
    BY <1>4 DEF OwnsKept, Owns
  <2>2. \A h \in GPUs : ServedBy(q, h)' => ServedBy(q, h)
    BY <1>4 DEF ServedBy
  <2>3. \A h \in GPUs : \A k \in DOMAIN fifo[h] :
          NoteIn(q, h, k) => \E l \in DOMAIN fifo'[h] : fifo'[h][l] = fifo[h][k]
    BY <1>3 DEF NoteIn
  <2>4. NoteOk(q) /\ reply'[q] = reply[q]
    BY <1>2 DEF OrderInv
  <2>5. NoteOk(q)'
    BY <1>2, <1>3, <1>4, <2>2, <2>3, <2>4, NoteShift
  <2> QED
    BY <2>1, <2>4, <2>5
<1>6. \A h \in GPUs : RegOk(h)'
  BY <1>4 DEF OrderInv, RegOk, AlreadyAdded, Granted, Owns
<1>7. OneRegisters' /\ OneSlot'
  BY <1>4 DEF OrderInv, OneRegisters, OneSlot
<1> QED
  BY <1>2, <1>4, <1>5, <1>6, <1>7, OrderTable

\* A process is taken out of the table.
LEMMA OrderRem ==
    ASSUME TalkInv, OrderInv, NEW g \in GPUs, TakeRem(g)
    PROVE  OrderInv'
<1> DEFINE d == [h \in GPUs |-> IF h = g THEN 1 ELSE 0]
<1>1. PICK m : m = Head(fifo[g])
  OBVIOUS
<1>2. /\ Take(g, "REM_Q")
      /\ UNCHANGED <<gpu_binding, priority, execution_time, count, inherited, listeners, reply, procs>>
  BY DEF TakeRem
<1>3. /\ Later(d) /\ m.action = "REM_Q" /\ fifo[g][1] = m /\ lpc[g] = "read" /\ m.pid \in Procs
      /\ MsgOk(m, g)
      /\ \A h \in GPUs : \A k \in DOMAIN fifo[h] :
           (h = g /\ k = 1) \/ \E l \in DOMAIN fifo'[h] : fifo'[h][l] = fifo[h][k]
  BY <1>1, <1>2, Taken
<1> HIDE DEF d
<1>4. /\ gpu_binding' = gpu_binding /\ execution_time' = execution_time /\ inherited' = inherited /\ count' = count
      /\ lpc' = lpc /\ pcd' = pcd /\ lidx' = lidx
      /\ index' = index /\ device' = device /\ ppc' = ppc
  BY <1>2 DEF listeners, procs
<1>5. ppc[m.pid] = "gone"
  BY <1>3 DEF MsgOk
<1>6. \/ process_list' = process_list /\ valid' = valid
      \/ \E i \in Slots : /\ process_list[i] = m.pid
                          /\ process_list' = [process_list EXCEPT ![i] = None]
                          /\ valid' = [valid EXCEPT ![i] = FALSE]
  <2> DEFINE S == Mine(m.pid, g)
  <2>1. /\ S = {} => UNCHANGED <<process_list, valid>>
        /\ S # {} => /\ process_list' = [process_list EXCEPT ![First(S)] = None]
                     /\ valid' = [valid EXCEPT ![First(S)] = FALSE]
    BY <1>1 DEF TakeRem
  <2>2. S \in SUBSET Slots /\ \A i \in S : process_list[i] = m.pid
    BY DEF Mine
  <2>3. S # {} => First(S) \in S
    <3> HIDE DEF S
    <3> QED
      BY <2>2, FirstIn
  <2> HIDE DEF S
  <2> QED
    BY <2>1, <2>2, <2>3
<1>7. TypeOK
  BY DEF TalkInv
<1>8. \A i \in Slots : \/ process_list'[i] = process_list[i] /\ valid'[i] = valid[i]
                       \/ process_list[i] = m.pid /\ process_list'[i] = None
  BY <1>6, <1>7 DEF TypeOK
<1>9. ASSUME NEW q \in Procs PROVE OwnsKept(q) /\ NoteOk(q)' /\ reply'[q] = reply[q]
  <2>1. OwnsKept(q)
    BY <1>4, <1>5, <1>8 DEF OwnsKept, Owns
  <2>2. \A h \in GPUs : ServedBy(q, h)' => ServedBy(q, h)
    BY <1>4 DEF ServedBy
  <2>3. \A h \in GPUs : \A k \in DOMAIN fifo[h] :
          NoteIn(q, h, k) => \E l \in DOMAIN fifo'[h] : fifo'[h][l] = fifo[h][k]
    BY <1>3 DEF NoteIn
  <2>4. NoteOk(q) /\ reply'[q] = reply[q]
    BY <1>2 DEF OrderInv
  <2>5. NoteOk(q)'
    BY <1>2, <1>3, <1>4, <2>2, <2>3, <2>4, NoteShift
  <2> QED
    BY <2>1, <2>4, <2>5
<1>10. ASSUME NEW h \in GPUs, lpc[h] \in Registering PROVE RegOk(h)'
  <2>1. RegOk(h) /\ PcdOk(h) /\ pcd[h] \in Message /\ count \in Slots
    BY <1>7, <1>10 DEF OrderInv, TalkInv, PcdOk, Busy, Adding, TypeOK
  <2>2. pcd[h].pid \in Procs /\ pcd[h].pid # m.pid
    BY <1>5, <1>10, <2>1 DEF Message, PcdOk, Adding
  <2>3. process_list[count] = pcd[h].pid => process_list'[count] = process_list[count] /\ valid'[count] = valid[count]
    BY <1>8, <2>1, <2>2
  <2>4. ~ AlreadyAdded(pcd[h].pid) => ~ AlreadyAdded(pcd[h].pid)'
    BY <1>4, <1>8, <2>2, LasAssumption DEF AlreadyAdded
  <2>5. lpc[h] # "reply_index"
    BY <1>10 DEF Registering
  <2> QED
    BY <1>4, <1>10, <2>1, <2>3, <2>4, <2>5 DEF RegOk
<1>11. OneRegisters' /\ OneSlot'
  <2>1. OneSlot'
    BY <1>8, LasAssumption DEF OrderInv, OneSlot
  <2> QED
    BY <1>4, <2>1 DEF OrderInv, OneRegisters
<1>12. RegOk(g)'
  BY <1>3, <1>4 DEF RegOk, Registering
<1> QED
  BY <1>2, <1>4, <1>9, <1>10, <1>11, <1>12, OrderTable

\* A report is taken: the slot of its sender is charged.
LEMMA OrderCharge ==
    ASSUME TalkInv, OrderInv, NEW g \in GPUs, TakeNotify(g)
    PROVE  OrderInv'
<1> DEFINE d == [h \in GPUs |-> IF h = g THEN 1 ELSE 0]
<1>1. PICK m : m = Head(fifo[g])
  OBVIOUS
<1>2. /\ Take(g, "NOTIFY_SCHED")
      /\ UNCHANGED <<process_list, valid, gpu_binding, priority, count, inherited, listeners, reply, procs>>
  BY DEF TakeNotify
<1>3. /\ Later(d) /\ m.action = "NOTIFY_SCHED" /\ fifo[g][1] = m /\ lpc[g] = "read" /\ m.pid \in Procs
      /\ MsgOk(m, g) /\ m \in Message /\ 1 \in DOMAIN fifo[g]
      /\ \A k \in DOMAIN fifo'[g] : k + 1 # 1
      /\ \A h \in GPUs : \A k \in DOMAIN fifo[h] :
           (h = g /\ k = 1) \/ \E l \in DOMAIN fifo'[h] : fifo'[h][l] = fifo[h][k]
  BY <1>1, <1>2, Taken
<1>4. \A h \in GPUs : \A k \in DOMAIN fifo'[h] :
        /\ h = g => d[h] = 1
        /\ k + d[h] \in DOMAIN fifo[h] /\ fifo'[h][k] = fifo[h][k + d[h]]
  BY <1>3 DEF Later
<1> HIDE DEF d
<1>5. /\ process_list' = process_list /\ valid' = valid /\ gpu_binding' = gpu_binding /\ count' = count
      /\ inherited' = inherited
      /\ lpc' = lpc /\ pcd' = pcd /\ lidx' = lidx
      /\ index' = index /\ device' = device /\ ppc' = ppc /\ served' = served
  BY <1>2 DEF listeners, procs
<1>6. PICK p \in Procs, n \in Nat : p = m.pid /\ n = m.arg
  BY <1>3 DEF Message
<1>7. NoteIn(p, g, 1) /\ NoteOk(p) /\ GrantOk(p) /\ TypeOK
  BY <1>3, <1>6 DEF NoteIn, OrderInv, TalkInv
<1>8. /\ g = running_gpu[p] /\ ppc[p] # "gone" /\ index[p] \in Slots
      /\ execution_time[index[p]] + n = inherited[p] + served[p]
  <2>1. index[p] # NoIndex
    BY <1>3, <1>6 DEF MsgOk
  <2> QED
    BY <1>3, <1>6, <1>7, <2>1, ProcDevice DEF NoteOk
<1>9. Owns(p, index[p], g) /\ index[p] # NoIndex
  BY <1>7, <1>8, Zeros DEF GrantOk
<1>10. PICK i \in Slots : i = index[p]
  BY <1>8
<1>11. execution_time' = [execution_time EXCEPT ![i] = @ + n]
  <2> DEFINE S == Mine(p, g)
  <2>1. S # {} => execution_time' = [execution_time EXCEPT ![First(S)] = @ + n]
    BY <1>1, <1>6 DEF TakeNotify
  <2>2. \A j : j \in S <=> j \in Slots /\ process_list[j] = p /\ gpu_binding[j] = g
    BY DEF Mine
  <2> HIDE DEF S
  <2>3. \A j \in S : j = i
    BY <1>9, <1>10, <2>2, LasAssumption DEF OrderInv, OneSlot, Owns
  <2>4. i \in S /\ S \in SUBSET Slots
    BY <1>9, <1>10, <2>2 DEF Owns
  <2>5. First(S) = i
    BY <2>3, <2>4, FirstIn
  <2> QED
    BY <2>1, <2>4, <2>5
<1>12. /\ \A j \in Slots : j # i => execution_time'[j] = execution_time[j]
       /\ execution_time'[i] = execution_time[i] + n
  BY <1>7, <1>11 DEF TypeOK
<1>13. \A j \in Slots : process_list[j] \in Procs /\ process_list[j] # p => j # i
  BY <1>9, <1>10 DEF Owns
<1>14. ASSUME NEW q \in Procs PROVE OwnsKept(q) /\ NoteOk(q)' /\ reply'[q] = reply[q]
  <2>1. OwnsKept(q)
    BY <1>5, <1>9, <1>12, <1>13 DEF OwnsKept, Owns
  <2>2. \A h \in GPUs : ServedBy(q, h)' => ServedBy(q, h)
    BY <1>5 DEF ServedBy
  <2>3. NoteOk(q) /\ GrantOk(q) /\ reply'[q] = reply[q]
    BY <1>2 DEF OrderInv
  <2>4. CASE q # p
    <3>1. \A h \in GPUs : \A k \in DOMAIN fifo[h] :
            NoteIn(q, h, k) => \E l \in DOMAIN fifo'[h] : fifo'[h][l] = fifo[h][k]
      BY <1>3, <1>6, <2>4 DEF NoteIn
    <3>2. index[q] # NoIndex /\ ppc[q] # "gone" => /\ execution_time'[index[q]] = execution_time[index[q]]
                                                  /\ inherited'[q] = inherited[q]
      <4>1. index[q] # NoIndex => index[q] \in Slots
        BY <1>7, ProcDevice
      <4> QED
        BY <1>5, <1>12, <1>13, <2>3, <2>4, <4>1 DEF GrantOk, Owns
    <3>3. NoteOk(q)'
      BY <1>2, <1>3, <2>2, <2>3, <3>1, <3>2, NoteShift
    <3> QED
      BY <2>1, <2>3, <3>3
  <2>5. CASE q = p
    <3>1. ASSUME NEW h \in GPUs, NEW k \in DOMAIN fifo'[h], NoteIn(p, h, k)' PROVE FALSE
      <4>1. k + d[h] \in DOMAIN fifo[h] /\ NoteIn(p, h, k + d[h])
        BY <1>4, <3>1 DEF NoteIn
      <4>2. h = g /\ k + d[h] = 1
        BY <1>3, <1>7, <4>1 DEF NoteOk
      <4> QED
        BY <1>3, <1>4, <4>2
    <3>2. execution_time'[index'[p]] = inherited'[p] + served'[p]
      BY <1>5, <1>8, <1>10, <1>12
    <3>3. NoteOk(p)'
      BY <3>1, <3>2 DEF NoteOk
    <3> QED
      BY <2>1, <2>3, <2>5, <3>3
  <2> QED
    BY <2>4, <2>5
<1>15. ASSUME NEW h \in GPUs, lpc[h] \in Registering PROVE RegOk(h)'
  <2>1. RegOk(h) /\ PcdOk(h) /\ pcd[h] \in Message /\ count \in Slots
    BY <1>7, <1>15 DEF OrderInv, TalkInv, PcdOk, Busy, Adding, TypeOK
  <2>2. pcd[h].pid \in Procs /\ pcd[h].pid # p
    BY <1>9, <1>15, <2>1 DEF Message, RegOk
  <2>3. process_list[count] = pcd[h].pid => execution_time'[count] = execution_time[count]
    BY <1>12, <1>13, <2>1, <2>2
  <2>4. lpc[h] # "reply_index"
    BY <1>15 DEF Registering
  <2> QED
    BY <1>5, <1>15, <2>1, <2>3, <2>4 DEF RegOk, AlreadyAdded
<1>16. OneRegisters' /\ OneSlot'
  BY <1>5 DEF OrderInv, OneRegisters, OneSlot
<1>17. RegOk(g)'
  BY <1>3, <1>5 DEF RegOk, Registering
<1> QED
  BY <1>2, <1>5, <1>14, <1>15, <1>16, <1>17, OrderTable

\* A request is taken: its sender has no report on the way, since reports are
\* ahead of requests.
LEMMA OrderRequest ==
    ASSUME TalkInv, OrderInv, NEW g \in GPUs, TakeAdd(g) \/ TakePriority(g), Orderly'
    PROVE  OrderInv'
<1> DEFINE d == [h \in GPUs |-> IF h = g THEN 1 ELSE 0]
<1>1. PICK m : m = Head(fifo[g])
  OBVIOUS
<1>2. /\ \E a \in {"ADD_Q", "GET_PRIORITY"} : Take(g, a)
      /\ UNCHANGED <<slots, lidx, reply, procs>>
      /\ pcd' = [pcd EXCEPT ![g] = m]
      /\ \E to : lpc' = [lpc EXCEPT ![g] = to]
  BY <1>1 DEF TakeAdd, TakePriority
<1>3. /\ Later(d) /\ m.action \in {"ADD_Q", "GET_PRIORITY"} /\ fifo[g][1] = m /\ lpc[g] = "read"
      /\ m.pid \in Procs /\ MsgOk(m, g) /\ m \in Message /\ 1 \in DOMAIN fifo[g]
      /\ \A k \in DOMAIN fifo'[g] : k + 1 # 1
      /\ \A h \in GPUs : \A k \in DOMAIN fifo[h] :
           (h = g /\ k = 1) \/ \E l \in DOMAIN fifo'[h] : fifo'[h][l] = fifo[h][k]
  BY <1>1, <1>2, Taken
<1>4. \A h \in GPUs : \A k \in DOMAIN fifo'[h] :
        /\ h = g => d[h] = 1
        /\ k \in Nat /\ k + d[h] \in DOMAIN fifo[h] /\ fifo'[h][k] = fifo[h][k + d[h]]
  BY <1>3 DEF Later
<1> HIDE DEF d
<1>5. /\ process_list' = process_list /\ valid' = valid /\ gpu_binding' = gpu_binding
      /\ execution_time' = execution_time /\ inherited' = inherited /\ count' = count /\ lidx' = lidx
      /\ index' = index /\ device' = device /\ ppc' = ppc /\ served' = served
  BY <1>2 DEF slots, procs
<1>6. lpc \in [GPUs -> ListenPlaces] /\ pcd \in [GPUs -> Message \cup {NoMessage}]
  BY DEF TalkInv, TypeOK, ListenPlaces
<1>7. \A h \in GPUs : h # g => lpc'[h] = lpc[h] /\ pcd'[h] = pcd[h]
  BY <1>2, <1>6
<1>8. PICK p \in Procs : p = m.pid
  BY <1>3
<1>9. AskIn(p, g, 1) /\ pcd'[g] = m
  BY <1>2, <1>3, <1>6, <1>8 DEF AskIn
<1>10. ASSUME NEW q \in Procs PROVE OwnsKept(q) /\ NoteOk(q)' /\ reply'[q] = reply[q]
  <2>1. OwnsKept(q)
    BY <1>5 DEF OwnsKept, Owns
  <2>2. NoteOk(q) /\ reply'[q] = reply[q]
    BY <1>2 DEF OrderInv
  <2>3. CASE q # p
    <3>1. \A h \in GPUs : \A k \in DOMAIN fifo[h] :
            NoteIn(q, h, k) => \E l \in DOMAIN fifo'[h] : fifo'[h][l] = fifo[h][k]
      BY <1>3, <1>8, <2>3 DEF NoteIn
    <3>2. \A h \in GPUs : ServedBy(q, h)' => ServedBy(q, h)
      BY <1>7, <1>8, <1>9, <2>3 DEF ServedBy
    <3>3. NoteOk(q)'
      BY <1>2, <1>3, <1>5, <2>2, <3>1, <3>2, NoteShift
    <3> QED
      BY <2>1, <2>2, <3>3
  <2>4. CASE q = p
    <3>1. ASSUME NEW h \in GPUs, NEW k \in DOMAIN fifo[h], NoteIn(p, h, k) PROVE FALSE
      <4>1. h = g /\ k < 1
        BY <1>3, <1>9, <2>2, <2>4, <3>1 DEF NoteOk
      <4>2. fifo[h] \in Seq(Message) /\ DOMAIN fifo[h] = 1 .. Len(fifo[h])
        BY DEF TalkInv, TypeOK
      <4> QED
        BY <4>1, <4>2
    <3>2. \A h \in GPUs : \A k \in DOMAIN fifo'[h] : ~ NoteIn(p, h, k)'
      BY <1>4, <3>1 DEF NoteIn
    <3>3. NoteOk(p)'
      BY <1>5, <2>2, <2>4, <3>1, <3>2 DEF NoteOk
    <3> QED
      BY <2>1, <2>2, <2>4, <3>3
  <2> QED
    BY <2>3, <2>4
<1>11. OneSlot'
  BY <1>5 DEF OrderInv, OneSlot
<1>12. ASSUME NEW h \in GPUs, h # g, lpc[h] \in Registering PROVE RegOk(h)'
  <2>1. RegOk(h)
    BY DEF OrderInv
  <2> QED
    BY <1>5, <1>7, <1>12, <2>1 DEF RegOk, AlreadyAdded, Granted, Owns
<1>13. OneRegisters' /\ RegOk(g)'
  <2>1. CASE TakeAdd(g)
    <3>1. lpc'[g] = "reg_pid" /\ ~ AlreadyAdded(p)
      BY <1>1, <1>6, <1>8, <2>1 DEF TakeAdd
    <3>2. \A h \in GPUs : lpc[h] \notin Registering
      BY <2>1 DEF TakeAdd, Orderly
    <3>3. OneRegisters'
      BY <1>7, <3>2 DEF OneRegisters
    <3>4. index[p] = NoIndex
      <4>1. ppc[p] # "gone" /\ GrantOk(p) /\ TypeOK
        BY <1>3, <1>8, <2>1 DEF MsgOk, OrderInv, TalkInv, TakeAdd, Take
      <4>2. index[p] # NoIndex => Owns(p, index[p], running_gpu[p]) /\ index[p] \in Slots
        BY <4>1, ProcDevice DEF GrantOk
      <4> QED
        BY <3>1, <4>2 DEF Owns, AlreadyAdded
    <3>5. ~ AlreadyAdded(p)'
      BY <1>5, <3>1 DEF AlreadyAdded
    <3>6. RegOk(g)'
      BY <1>5, <1>8, <1>9, <3>1, <3>4, <3>5 DEF RegOk
    <3> QED
      BY <3>3, <3>6
  <2>2. CASE TakePriority(g)
    <3>1. lpc'[g] = "reply_priority"
      BY <1>6, <2>2 DEF TakePriority
    <3>2. OneRegisters'
      BY <1>7, <3>1 DEF OneRegisters, Registering, OrderInv
    <3> QED
      BY <3>1, <3>2 DEF RegOk, Registering
  <2> QED
    BY <2>1, <2>2
<1> QED
  BY <1>2, <1>5, <1>7, <1>10, <1>11, <1>12, <1>13, OrderTable

\* The statements of las_register_process: nobody else registers, and the slot
\* is free and was never charged.
LEMMA OrderRegister ==
    ASSUME TalkInv, OrderInv, NEW g \in GPUs, Orderly',
           RegPid(g) \/ RegValid(g) \/ RegGpu(g) \/ RegPriority(g) \/ RegIndex(g) \/ RegCount(g)
    PROVE  OrderInv'
<1>1. TypeOK /\ RegOk(g) /\ PcdOk(g)
  BY DEF TalkInv, OrderInv
<1>2. /\ process_list \in [Slots -> Procs \cup {None}] /\ valid \in [Slots -> BOOLEAN]
      /\ gpu_binding \in [Slots -> GPUs] /\ count \in Slots /\ lpc \in [GPUs -> ListenPlaces]
      /\ lidx \in [GPUs -> Slots] /\ fifo \in [GPUs -> Seq(Message)]
  BY <1>1 DEF TypeOK, ListenPlaces
<1>3. lpc[g] \in Registering
  BY DEF RegPid, RegValid, RegGpu, RegPriority, RegIndex, RegCount, Registering
<1>4. PICK p \in Procs : p = pcd[g].pid
  BY <1>1, <1>3 DEF PcdOk, Busy, Adding, Message
<1>5. /\ index[p] = NoIndex /\ device[p] = g /\ pcd[g].arg = g /\ ServedBy(p, g)
      /\ \A h \in GPUs : h # g => lpc[h] \notin Registering
  BY <1>1, <1>3, <1>4 DEF RegOk, PcdOk, Adding, Busy, ServedBy, OrderInv, OneRegisters
<1>6. /\ execution_time' = execution_time /\ pcd' = pcd
      /\ UNCHANGED <<fifo, reply, procs>>
      /\ \E to \in Adding : lpc' = [lpc EXCEPT ![g] = to]
  BY DEF RegPid, RegValid, RegGpu, RegPriority, RegIndex, RegCount, slots, Adding, Registering
<1>7. /\ \A h \in GPUs : h # g => lpc'[h] = lpc[h]
      /\ index' = index /\ device' = device /\ ppc' = ppc
  BY <1>2, <1>6 DEF procs
<1>8. lidx' = lidx \/ \E i : lidx' = [lidx EXCEPT ![g] = i]
  BY DEF RegPid, RegValid, RegGpu, RegPriority, RegIndex, RegCount
<1>15. /\ RegPid(g) => inherited' = [inherited EXCEPT ![p] = execution_time[count]]
       /\ ~ RegPid(g) => inherited' = inherited
  BY <1>4 DEF RegPid, RegValid, RegGpu, RegPriority, RegIndex, RegCount, slots
<1>16. \A q \in Procs : q # p \/ ~ RegPid(g) => inherited'[q] = inherited[q]
  BY <1>1, <1>15 DEF TypeOK
<1>9. \A i \in Slots : \/ /\ process_list'[i] = process_list[i] /\ valid'[i] = valid[i]
                          /\ gpu_binding'[i] = gpu_binding[i]
                       \/ /\ i = count /\ process_list[i] \in {None, p} /\ process_list'[i] = p
                          /\ valid'[i] \in {valid[i], TRUE} /\ gpu_binding'[i] \in {gpu_binding[i], g}
  <2>1. CASE RegPid(g)
    <3>1. process_list[count] = None
      BY <2>1 DEF RegPid, Orderly
    <3>2. /\ process_list' = [process_list EXCEPT ![count] = p]
          /\ valid' = valid /\ gpu_binding' = gpu_binding
      BY <1>4, <2>1 DEF RegPid
    <3> QED
      BY <1>2, <3>1, <3>2
  <2>2. CASE RegValid(g)
    <3>1. process_list' = process_list /\ process_list[count] = p /\ gpu_binding' = gpu_binding
          /\ valid' = [valid EXCEPT ![count] = TRUE]
      BY <1>1, <1>4, <2>2 DEF RegValid, RegOk, Registering
    <3> QED
      BY <1>2, <3>1
  <2>3. CASE RegGpu(g)
    <3>1. process_list' = process_list /\ process_list[count] = p /\ valid' = valid
          /\ gpu_binding' = [gpu_binding EXCEPT ![count] = g]
      BY <1>1, <1>4, <1>5, <2>3 DEF RegGpu, RegOk, Registering
    <3> QED
      BY <1>2, <3>1
  <2>4. CASE RegPriority(g) \/ RegIndex(g) \/ RegCount(g)
    BY <2>4 DEF RegPriority, RegIndex, RegCount, slots
  <2> QED
    BY <2>1, <2>2, <2>3, <2>4
<1>10. ASSUME NEW q \in Procs PROVE OwnsKept(q) /\ NoteOk(q)' /\ reply'[q] = reply[q]
  <2>1. OwnsKept(q)
    <3>1. ASSUME NEW i \in Slots, NEW h, Owns(q, i, h), index[q] = NoIndex => h = device[q]
          PROVE  Owns(q, i, h)'
      <4>1. q # None
        BY LasAssumption
      <4>2. CASE i # count \/ process_list[i] # p
        BY <1>9, <3>1, <4>1, <4>2 DEF Owns
      <4>3. CASE i = count /\ process_list[i] = p
        <5>1. q = p /\ h = g
          BY <1>5, <3>1, <4>3 DEF Owns
        <5> QED
          BY <1>9, <3>1, <4>3, <5>1 DEF Owns
      <4> QED
        BY <4>2, <4>3
    <3>2. ASSUME NEW i \in Slots, process_list[i] = q PROVE inherited'[q] = inherited[q]
      <4>1. RegPid(g) => q # p
        BY <1>1, <1>4, <3>2 DEF RegOk, RegPid, AlreadyAdded
      <4> QED
        BY <1>16, <4>1
    <3> QED
      BY <1>6, <3>1, <3>2 DEF OwnsKept, Owns
  <2>2. NoteOk(q) /\ reply'[q] = reply[q]
    BY <1>6 DEF OrderInv
  <2>3. \A h \in GPUs : ServedBy(q, h)' => ServedBy(q, h)
    BY <1>2, <1>3, <1>6 DEF ServedBy, Busy, Adding
  <2>4. Later([h \in GPUs |-> 0])
    BY <1>2, <1>6, FifoStays
  <2>5. \A h \in GPUs : \A k \in DOMAIN fifo[h] :
          NoteIn(q, h, k) => \E l \in DOMAIN fifo'[h] : fifo'[h][l] = fifo[h][k]
    BY <1>6
  <2>7. index[q] # NoIndex => inherited'[q] = inherited[q]
    BY <1>5, <1>16
  <2>6. NoteOk(q)'
    BY <1>6, <2>2, <2>3, <2>4, <2>5, <2>7, NoteShift
  <2> QED
    BY <2>1, <2>2, <2>6
<1>11. OneRegisters'
  BY <1>5, <1>7 DEF OneRegisters
<1>12. OneSlot'
  <2>1. CASE RegPid(g)
    <3>1. process_list' = [process_list EXCEPT ![count] = p]
      BY <1>4, <2>1 DEF RegPid
    <3>2. \A i \in Slots : process_list[i] # p
      BY <1>1, <1>4, <2>1 DEF RegOk, RegPid, AlreadyAdded
    <3> QED
      BY <1>2, <3>1, <3>2 DEF OrderInv, OneSlot
  <2>2. CASE ~ RegPid(g)
    <3>1. process_list' = process_list
      BY <2>2 DEF RegValid, RegGpu, RegPriority, RegIndex, RegCount, slots
    <3> QED
      BY <3>1 DEF OrderInv, OneSlot
  <2> QED
    BY <2>1, <2>2
<1>18. ~ RegPid(g) => inherited'[p] = inherited[p]
  BY <1>15
<1>19. lpc[g] # "reg_pid" => ~ RegPid(g)
  BY DEF RegPid
<1>13. RegOk(g)'
  <2>1. CASE RegPid(g)
    <3>1. lpc'[g] = "reg_valid" /\ process_list'[count] = p /\ count' = count
          /\ execution_time[count] = inherited'[p]
      BY <1>1, <1>2, <1>4, <1>15, <2>1 DEF RegPid, Orderly, TypeOK
    <3> QED
      BY <1>4, <1>5, <1>6, <1>7, <3>1 DEF RegOk, Registering
  <2>2. CASE RegValid(g)
    <3>1. lpc'[g] = "reg_gpu" /\ process_list' = process_list /\ valid'[count] = TRUE /\ count' = count
      BY <1>2, <2>2 DEF RegValid
    <3>2. process_list[count] = p /\ execution_time[count] = inherited[p]
      BY <1>1, <1>4, <2>2 DEF RegOk, RegValid, Registering
    <3>3. inherited'[p] = inherited[p]
      BY <1>18, <1>19, <2>2 DEF RegValid
    <3> QED
      BY <1>4, <1>5, <1>6, <1>7, <3>1, <3>2, <3>3 DEF RegOk, Registering
  <2>3. CASE RegGpu(g)
    <3>1. lpc'[g] = "reg_priority" /\ process_list' = process_list /\ valid' = valid
          /\ gpu_binding'[count] = g /\ count' = count
      BY <1>2, <1>5, <2>3 DEF RegGpu
    <3>2. process_list[count] = p /\ execution_time[count] = inherited[p] /\ valid[count]
      BY <1>1, <1>4, <2>3 DEF RegOk, RegGpu, Registering
    <3>3. inherited'[p] = inherited[p]
      BY <1>18, <1>19, <2>3 DEF RegGpu
    <3> QED
      BY <1>4, <1>5, <1>6, <1>7, <3>1, <3>2, <3>3 DEF RegOk, Registering
  <2>4. CASE RegPriority(g) \/ RegIndex(g)
    <3>1. /\ lpc'[g] \in {"reg_index", "reg_count"} /\ process_list' = process_list /\ valid' = valid
          /\ gpu_binding' = gpu_binding /\ count' = count
          /\ lpc'[g] = "reg_count" => lidx'[g] = count
      BY <1>2, <2>4 DEF RegPriority, RegIndex, slots
    <3>2. process_list[count] = p /\ execution_time[count] = inherited[p] /\ valid[count] /\ gpu_binding[count] = g
      BY <1>1, <1>4, <2>4 DEF RegOk, RegPriority, RegIndex, Registering
    <3>3. inherited'[p] = inherited[p]
      BY <1>18, <1>19, <2>4 DEF RegPriority, RegIndex
    <3> QED
      BY <1>4, <1>5, <1>6, <1>7, <3>1, <3>2, <3>3 DEF RegOk, Registering
  <2>5. CASE RegCount(g)
    <3>1. /\ lpc'[g] = "reply_index" /\ process_list' = process_list /\ valid' = valid
          /\ gpu_binding' = gpu_binding /\ lidx' = lidx
      BY <1>2, <2>5 DEF RegCount
    <3>2. process_list[count] = p /\ execution_time[count] = inherited[p] /\ valid[count] /\ gpu_binding[count] = g
          /\ lidx[g] = count
      BY <1>1, <1>4, <2>5 DEF RegOk, RegCount, Registering
    <3>3. inherited'[p] = inherited[p]
      BY <1>18, <1>19, <2>5 DEF RegCount
    <3> QED
      BY <1>2, <1>4, <1>5, <1>6, <1>7, <3>1, <3>2, <3>3 DEF RegOk, Registering, Granted, Owns
  <2> QED
    BY <2>1, <2>2, <2>3, <2>4, <2>5
<1>14. \A h \in GPUs : h # g => lidx'[h] = lidx[h] /\ pcd'[h] = pcd[h]
  BY <1>2, <1>6, <1>8
<1> QED
  BY <1>5, <1>6, <1>7, <1>10, <1>11, <1>12, <1>13, <1>14, OrderTable

\* A listener starts: no process is registered, so no flag it clears matters.
LEMMA OrderStart ==
    ASSUME TalkInv, OrderInv, NEW g \in GPUs, Start(g), Orderly'
    PROVE  OrderInv'
<1>1. \A i \in Slots : process_list[i] = None
  BY DEF Start, Orderly
<1>2. /\ process_list' = process_list /\ execution_time' = execution_time /\ inherited' = inherited /\ count' = count
      /\ pcd' = pcd /\ lidx' = lidx /\ UNCHANGED <<fifo, reply, procs>>
      /\ lpc' = [lpc EXCEPT ![g] = "read"]
  BY DEF Start
<1>3. lpc \in [GPUs -> ListenPlaces] /\ fifo \in [GPUs -> Seq(Message)] /\ count \in Slots
  BY DEF TalkInv, TypeOK, ListenPlaces
<1>4. lpc'[g] = "read" /\ \A h \in GPUs : h # g => lpc'[h] = lpc[h]
  BY <1>2, <1>3
<1>5. ASSUME NEW q \in Procs PROVE OwnsKept(q) /\ NoteOk(q)' /\ reply'[q] = reply[q]
  <2>1. OwnsKept(q)
    BY <1>1, LasAssumption DEF OwnsKept, Owns
  <2>2. NoteOk(q) /\ reply'[q] = reply[q]
    BY <1>2 DEF OrderInv
  <2>3. \A h \in GPUs : ServedBy(q, h)' => ServedBy(q, h)
    BY <1>2, <1>4 DEF ServedBy, Busy, Adding, Registering
  <2>4. Later([h \in GPUs |-> 0])
    BY <1>2, <1>3, FifoStays
  <2>5. NoteOk(q)'
    BY <1>2, <2>2, <2>3, <2>4, NoteShift
  <2> QED
    BY <2>1, <2>2, <2>5
<1>6. ASSUME NEW h \in GPUs, h # g, lpc[h] \in Registering PROVE RegOk(h)'
  <2>1. RegOk(h) /\ pcd[h] \in Message
    BY <1>6 DEF OrderInv, TalkInv, PcdOk, Busy, Adding
  <2>2. pcd[h].pid # None
    BY <2>1, LasAssumption DEF Message
  <2>3. lpc[h] = "reg_pid"
    BY <1>1, <1>3, <1>6, <2>1, <2>2 DEF RegOk
  <2>4. index' = index /\ lpc'[h] = lpc[h]
    BY <1>2, <1>4, <1>6 DEF procs
  <2> QED
    BY <1>2, <2>1, <2>3, <2>4 DEF RegOk, AlreadyAdded
<1>7. OneRegisters' /\ OneSlot' /\ RegOk(g)'
  <2>1. OneRegisters'
    BY <1>4 DEF OrderInv, OneRegisters, Registering
  <2>2. OneSlot'
    BY <1>2 DEF OrderInv, OneSlot
  <2>3. RegOk(g)'
    BY <1>4 DEF RegOk, Registering
  <2> QED
    BY <2>1, <2>2, <2>3
<1> QED
  BY <1>2, <1>4, <1>5, <1>6, <1>7, OrderTable

\* A listener appends its line to the mapping file: no matter for the table.
LEMMA OrderMapping ==
    ASSUME TalkInv, OrderInv, NEW g \in GPUs, WriteMapping(g)
    PROVE  OrderInv'
<1>1. /\ UNCHANGED <<slots, pcd, lidx, fifo, reply, procs>> /\ lpc[g] = "start"
      /\ lpc' = [lpc EXCEPT ![g] = "mapped"]
  BY DEF WriteMapping
<1>2. lpc \in [GPUs -> ListenPlaces] /\ fifo \in [GPUs -> Seq(Message)]
  BY DEF TalkInv, TypeOK, ListenPlaces
<1>3. /\ process_list' = process_list /\ valid' = valid /\ gpu_binding' = gpu_binding
      /\ execution_time' = execution_time /\ inherited' = inherited /\ count' = count
      /\ index' = index /\ device' = device /\ ppc' = ppc
  BY <1>1 DEF slots, procs
<1>4. lpc'[g] = "mapped" /\ \A h \in GPUs : h # g => lpc'[h] = lpc[h]
  BY <1>1, <1>2
<1>5. ASSUME NEW q \in Procs PROVE OwnsKept(q) /\ NoteOk(q)' /\ reply'[q] = reply[q]
  <2>1. OwnsKept(q)
    BY <1>3 DEF OwnsKept, Owns
  <2>2. NoteOk(q) /\ reply'[q] = reply[q]
    BY <1>1 DEF OrderInv
  <2>3. \A h \in GPUs : ServedBy(q, h)' => ServedBy(q, h)
    BY <1>1, <1>4 DEF ServedBy, Busy, Adding, Registering
  <2>4. Later([h \in GPUs |-> 0])
    BY <1>1, <1>2, FifoStays
  <2>5. NoteOk(q)'
    BY <1>1, <1>3, <2>2, <2>3, <2>4, NoteShift
  <2> QED
    BY <2>1, <2>2, <2>5
<1>6. ASSUME NEW h \in GPUs, h # g, lpc[h] \in Registering PROVE RegOk(h)'
  BY <1>1, <1>3, <1>4, <1>6 DEF OrderInv, RegOk, AlreadyAdded, Granted, Owns
<1>7. OneRegisters' /\ OneSlot' /\ RegOk(g)'
  <2>1. OneRegisters'
    BY <1>4 DEF OrderInv, OneRegisters, Registering
  <2>2. OneSlot'
    BY <1>3 DEF OrderInv, OneSlot
  <2>3. RegOk(g)'
    BY <1>4 DEF RegOk, Registering
  <2> QED
    BY <2>1, <2>2, <2>3
<1> QED
  BY <1>1, <1>4, <1>5, <1>6, <1>7, OrderTable

\* A listener answers: the index it tells is the slot it gave.
LEMMA OrderAnswer ==
    ASSUME TalkInv, OrderInv, NEW g \in GPUs, ReplyIndex(g) \/ ReplyPriority(g)
    PROVE  OrderInv'
<1>1. TypeOK /\ RegOk(g) /\ PcdOk(g)
  BY DEF TalkInv, OrderInv
<1>2. /\ lpc \in [GPUs -> ListenPlaces] /\ fifo \in [GPUs -> Seq(Message)]
      /\ lidx \in [GPUs -> Slots] /\ priority \in [Slots -> Priorities]
      /\ pcd \in [GPUs -> Message \cup {NoMessage}]
  BY <1>1 DEF TypeOK, ListenPlaces
<1>3. PICK v \in Priorities \cup Slots :
        /\ Answer(g, lpc[g], v) /\ lpc[g] \in {"reply_index", "reply_priority"}
        /\ lpc[g] = "reply_index" => v = lidx[g]
  <2>1. CASE ReplyIndex(g)
    BY <1>2, <2>1 DEF ReplyIndex, Answer
  <2>2. CASE ReplyPriority(g)
    <3>1. priority[pcd[g].arg] \in Priorities
      BY <1>1, <1>2, <2>2 DEF ReplyPriority, PcdOk
    <3> QED
      BY <2>2, <3>1 DEF ReplyPriority, Answer
  <2> QED
    BY <2>1, <2>2
<1>4. /\ reply' = [reply EXCEPT ![pcd[g].pid] = Append(@, v)] /\ UNCHANGED <<slots, fifo, procs>>
      /\ lpc' = [lpc EXCEPT ![g] = "read"] /\ pcd' = [pcd EXCEPT ![g] = NoMessage]
      /\ lidx' = [lidx EXCEPT ![g] = 0]
  BY <1>3 DEF Answer
<1>6. lpc[g] = "reply_index" => v \in Slots
  BY <1>2, <1>3
<1>7. TypeOK'
  BY ListenTypesNext
<1>5. PICK p \in Procs : /\ p = pcd[g].pid /\ reply'[p] = <<v>>
                         /\ ppc[p] = "add_read" => lpc[g] = "reply_index"
                         /\ \A q \in Procs : q # p => reply'[q] = reply[q]
  <2>1. UNCHANGED <<procs, fifo>> /\ lpc[g] \in {"reply_index", "reply_priority"}
    BY <1>3, <1>4
  <2>2. /\ reply' = [reply EXCEPT ![pcd[g].pid] = Append(@, v)]
        /\ lpc' = [lpc EXCEPT ![g] = "read"] /\ pcd' = [pcd EXCEPT ![g] = NoMessage]
    BY <1>4
  <2> QED
    BY <1>6, <1>7, <2>1, <2>2, TalkAnswer
<1>9. /\ process_list' = process_list /\ valid' = valid /\ gpu_binding' = gpu_binding
      /\ execution_time' = execution_time /\ inherited' = inherited /\ count' = count
      /\ index' = index /\ device' = device /\ ppc' = ppc /\ served' = served
  BY <1>4 DEF slots, procs
<1>10. /\ lpc'[g] = "read"
       /\ \A h \in GPUs : h # g => lpc'[h] = lpc[h] /\ pcd'[h] = pcd[h] /\ lidx'[h] = lidx[h]
  BY <1>2, <1>4
<1>11. ppc[p] = "add_read" => GrantedNext(p, reply'[p][1], device[p])
  <2> SUFFICES ASSUME ppc[p] = "add_read" PROVE GrantedNext(p, reply'[p][1], device[p])
    OBVIOUS
  <2>1. lpc[g] = "reply_index" /\ v = lidx[g] /\ device[p] = g
    BY <1>1, <1>3, <1>5 DEF PcdOk, Adding
  <2>2. Granted(p, v, g)
    BY <1>1, <1>5, <2>1 DEF RegOk
  <2>3. reply'[p][1] = v
    BY <1>5
  <2> QED
    BY <1>9, <2>1, <2>2, <2>3 DEF Granted, Owns, GrantedNext
<1>12. ServedBy(p, g)
  BY <1>3, <1>5 DEF ServedBy, Busy, Adding
<1>13. ASSUME NEW q \in Procs
       PROVE  /\ OwnsKept(q) /\ NoteOk(q)'
              /\ reply'[q] = reply[q]
                 \/ (ppc[q] = "add_read" => GrantedNext(q, reply'[q][1], device[q]))
  <2>1. OwnsKept(q)
    BY <1>9 DEF OwnsKept, Owns
  <2>2. NoteOk(q)
    BY DEF OrderInv
  <2>3. CASE q # p
    <3>1. reply'[q] = reply[q]
      BY <1>5, <2>3
    <3>2. \A h \in GPUs : ServedBy(q, h)' => ServedBy(q, h)
      BY <1>10 DEF ServedBy, Busy, Adding, Registering
    <3>3. Later([h \in GPUs |-> 0])
      BY <1>2, <1>4, FifoStays
    <3>4. NoteOk(q)'
      BY <1>4, <1>9, <2>2, <3>1, <3>2, <3>3, NoteShift
    <3> QED
      BY <2>1, <3>1, <3>4
  <2>4. CASE q = p
    <3>1. NoNotes(p) /\ (index[p] # NoIndex /\ ppc[p] # "gone" => execution_time[index[p]] = inherited[p] + served[p])
      BY <1>5, <1>12, NotePlace
    <3>2. \A h \in GPUs : \A k \in DOMAIN fifo'[h] : ~ NoteIn(p, h, k)'
      BY <1>4, <3>1 DEF NoNotes, NoteIn
    <3>3. NoteOk(p)'
      BY <1>9, <3>1, <3>2 DEF NoteOk
    <3> QED
      BY <1>11, <2>1, <2>4, <3>3
  <2> QED
    BY <2>3, <2>4
<1>14. ASSUME NEW h \in GPUs, h # g, lpc[h] \in Registering PROVE RegOk(h)'
  <2>1. RegOk(h)
    BY DEF OrderInv
  <2> QED
    BY <1>9, <1>10, <1>14, <2>1 DEF RegOk, AlreadyAdded, Granted, Owns
<1>15. OneRegisters' /\ OneSlot' /\ RegOk(g)'
  <2>1. OneRegisters'
    BY <1>10 DEF OrderInv, OneRegisters, Registering
  <2>2. OneSlot'
    BY <1>9 DEF OrderInv, OneSlot
  <2>3. RegOk(g)'
    BY <1>10 DEF RegOk, Registering
  <2> QED
    BY <2>1, <2>2, <2>3
<1> QED
  BY <1>4, <1>10, <1>13, <1>14, <1>15, OrderTable

\* A control thread changes nothing of this, nor does a step of nobody.
LEMMA OrderSame ==
    ASSUME TalkInv, OrderInv,
           UNCHANGED <<process_list, valid, gpu_binding, execution_time, count, inherited>>,
           UNCHANGED <<listeners, fifo, reply, procs>>
    PROVE  OrderInv'
<1>1. /\ process_list' = process_list /\ valid' = valid /\ gpu_binding' = gpu_binding
      /\ execution_time' = execution_time /\ inherited' = inherited /\ count' = count
      /\ lpc' = lpc /\ pcd' = pcd /\ lidx' = lidx /\ fifo' = fifo /\ reply' = reply
  BY DEF listeners
<1>2. /\ index' = index /\ device' = device /\ ppc' = ppc /\ served' = served /\ signo' = signo
      /\ running_gpu' = running_gpu
  BY DEF procs
<1>3. OneRegisters' /\ OneSlot'
  BY <1>1 DEF OrderInv, OneRegisters, OneSlot
<1>4. ASSUME NEW h \in GPUs PROVE RegOk(h)'
  BY <1>1, <1>2 DEF OrderInv, RegOk, AlreadyAdded, Granted, Owns
<1>5. ASSUME NEW q \in Procs PROVE GrantOk(q)'
  BY <1>1, <1>2 DEF OrderInv, GrantOk, Granted, Owns
<1>6. ASSUME NEW q \in Procs PROVE NoteOk(q)'
  BY <1>1, <1>2 DEF OrderInv, NoteOk, NoteIn, AskIn, ServedBy
<1> QED
  BY <1>3, <1>4, <1>5, <1>6 DEF OrderInv

\* Every step keeps the table in order, as long as registrations are orderly.
LEMMA OrderNext ==
    ASSUME TalkInv, Orderly => OrderInv, [Next]_vars, Orderly'
    PROVE  OrderInv'
<1>1. OrderInv
  BY BrokenGrows DEF Orderly
<1>2. ASSUME NEW g \in GPUs, Wake(g) \/ Scan(g) \/ Mark(g) PROVE OrderInv'
  BY <1>1, <1>2, OrderSame DEF Wake, Scan, Mark, slots
<1>3. CASE UNCHANGED vars
  BY <1>1, <1>3, OrderSame DEF vars, slots
<1> QED
  BY <1>1, <1>2, <1>3, LasSteps, OrderQuiet, OrderLoop, OrderTalk, OrderAsk, OrderAgain, OrderRem,
     OrderCharge, OrderRequest, OrderRegister, OrderMapping, OrderStart, OrderAnswer

\* At first no process is registered.
LEMMA OrderInit == Init => OrderInv
<1> SUFFICES ASSUME Init PROVE OrderInv
  OBVIOUS
<1>1. OneRegisters /\ OneSlot
  BY DEF Init, OneRegisters, OneSlot, Registering
<1>2. ASSUME NEW g \in GPUs PROVE RegOk(g)
  BY DEF Init, RegOk, Registering
<1>3. ASSUME NEW p \in Procs PROVE GrantOk(p) /\ NoteOk(p)
  <2>1. \A g \in GPUs : DOMAIN fifo[g] = {}
    BY DEF Init
  <2> QED
    BY <2>1 DEF Init, GrantOk, NoteOk
<1> QED
  BY <1>1, <1>2, <1>3 DEF OrderInv

-----------------------------------------------------------------------------
(* The theorems.                                                            *)

\* The invariant of the scheduler: one request at most of a process is on the
\* way; and, while registrations do not overlap, take a slot in use or meet a
\* starting listener, one report at most is on the way, ahead of the next
\* request, and a process that holds an index owns the slot.
THEOREM LasInvariant == Spec => []LasInv
<1>1. Init => LasInv
  BY TalkInvInit, OrderInit DEF LasInv
<1>2. LasInv /\ [Next]_vars => LasInv'
  BY TalkInvNext, OrderNext DEF LasInv
<1> QED
  BY <1>1, <1>2, PTL DEF Spec

\* The variables of processes, listeners and control threads keep their types,
\* whatever the order of messages and registrations: what a process keeps as
\* its index is the number of a slot, and las_register_process stays inside
\* process_list.  It does not say that the answer read was meant as an index,
\* since FRESH is also the number of a slot: SlotsOwned does.
THEOREM LasTypeCorrect == Spec => []TypeOK
<1>1. LasInv => TypeOK
  BY DEF LasInv, TalkInv
<1> QED
  BY <1>1, LasInvariant, PTL

\* The index that las_add_queue returned is the slot of the process, with its
\* GPU and its flag, although las_register_process takes no lock.
THEOREM SlotsOwned == Spec => []SlotOwned
<1>1. LasInv => SlotOwned
  BY DEF LasInv, OrderInv, GrantOk, Owns, SlotOwned, Registered
<1> QED
  BY <1>1, LasInvariant, PTL

\* The sum over no message is 0, that over one message its time.
LEMMA SumOfOne ==
    ASSUME NEW q, NEW k, NEW S, S \subseteq {k}, S # {} => q[k].arg \in Nat
    PROVE  SumOf(q, S) = IF S = {} THEN 0 ELSE q[k].arg
<1> DEFINE step(f) == [s \in SUBSET S |-> IF s = {} THEN 0
                        ELSE q[CHOOSE x \in s : TRUE].arg + f[s \ {CHOOSE x \in s : TRUE}]]
           iter == CHOOSE f : f = step(f)
           sum == [s \in SUBSET S |-> IF s = {} THEN 0 ELSE q[k].arg]
<1>1. SumOf(q, S) = iter[S]
  BY SMT DEF SumOf, MapThenSumSet, MapThenFoldSet
<1>2. ASSUME NEW s \in SUBSET S, s # {}
      PROVE  s = S /\ (CHOOSE x \in s : TRUE) = k /\ s \ {CHOOSE x \in s : TRUE} = {}
  <2>1. s = {k} /\ S = {k}
    BY <1>2
  <2>2. (CHOOSE x \in s : TRUE) \in s
    BY <1>2
  <2> QED
    BY <2>1, <2>2
<1>3. sum = step(sum)
  <2>1. ASSUME NEW s \in SUBSET S
        PROVE  sum[s] = IF s = {} THEN 0
                        ELSE q[CHOOSE x \in s : TRUE].arg + sum[s \ {CHOOSE x \in s : TRUE}]
    <3>1. CASE s = {}
      BY <3>1
    <3>2. CASE s # {}
      <4>1. sum[s] = q[k].arg /\ sum[{}] = 0
        BY <3>2
      <4>2. q[CHOOSE x \in s : TRUE].arg + sum[s \ {CHOOSE x \in s : TRUE}] = q[k].arg + 0
        BY <1>2, <3>2, <4>1
      <4>3. q[k].arg \in Nat
        BY <1>2, <3>2
      <4>4. q[k].arg + 0 = q[k].arg
        BY <4>3
      <4> QED
        BY <3>2, <4>1, <4>2, <4>4
    <3> QED
      BY <3>1, <3>2
  <2>2. sum = [s \in SUBSET S |-> sum[s]]
    OBVIOUS
  <2> HIDE DEF sum
  <2> QED
    BY <2>1, <2>2
<1>4. iter = step(iter)
  <2> HIDE DEF step
  <2> QED
    BY <1>3
<1> HIDE DEF iter, sum
<1>5. CASE S = {}
  <2>1. iter[S] = 0
    BY <1>4, <1>5
  <2> QED
    BY <1>1, <1>5, <2>1
<1>6. CASE S # {}
  <2>1. iter[{}] = 0
    BY <1>4
  <2>2. iter[S] = q[CHOOSE x \in S : TRUE].arg + iter[S \ {CHOOSE x \in S : TRUE}]
    BY <1>4, <1>6
  <2>3. iter[S] = q[k].arg + 0
    BY <1>2, <1>6, <2>1, <2>2
  <2> QED
    BY <1>1, <1>6, <2>3
<1> QED
  BY <1>5, <1>6

\* The time p has yet to be charged for is that of its one report on the way.
LEMMA PendingIs ==
    ASSUME LasInv, Orderly, NEW p \in Procs, index[p] # NoIndex, ppc[p] # "gone"
    PROVE  execution_time[index[p]] + Pending(p) = inherited[p] + served[p]
<1>1. TypeOK /\ NoteOk(p) /\ index[p] \in Slots
  BY ProcDevice DEF LasInv, TalkInv, OrderInv
<1>2. running_gpu[p] \in GPUs
  BY <1>1, ProcDevice DEF LasInv, TalkInv, ProcOk
<1>3. PICK g \in GPUs : g = running_gpu[p]
  BY <1>2
<1>4. PICK q \in Seq(Message) : q = fifo[g]
  BY <1>1 DEF TypeOK
<1>5. DOMAIN q = 1 .. Len(q)
  BY <1>4
<1>6. execution_time[index[p]] \in Nat /\ served[p] \in Nat /\ inherited[p] \in Nat
  BY <1>1 DEF TypeOK
<1> DEFINE S == {k \in 1 .. Len(q) : q[k].pid = p /\ q[k].action = "NOTIFY_SCHED"}
<1>7. Pending(p) = SumOf(q, S)
  BY <1>3, <1>4 DEF Pending
<1>8. \A k : k \in S <=> k \in DOMAIN fifo[g] /\ NoteIn(p, g, k)
  BY <1>4, <1>5 DEF NoteIn
<1> HIDE DEF S
<1>9. CASE S = {}
  <2>1. \A h \in GPUs : \A k \in DOMAIN fifo[h] : ~ NoteIn(p, h, k)
    BY <1>1, <1>3, <1>8, <1>9 DEF NoteOk
  <2>2. execution_time[index[p]] = inherited[p] + served[p]
    BY <1>1, <2>1 DEF NoteOk
  <2>3. SumOf(q, S) = 0
    <3>1. S \subseteq {1}
      BY <1>9
    <3> QED
      BY <1>9, <3>1, SumOfOne
  <2> QED
    BY <1>6, <1>7, <2>2, <2>3
<1>10. CASE S # {}
  <2>1. PICK k \in S : TRUE
    BY <1>10
  <2>2. k \in DOMAIN fifo[g] /\ NoteIn(p, g, k)
    BY <1>8, <2>1
  <2>3. S \subseteq {k} /\ execution_time[index[p]] + fifo[g][k].arg = inherited[p] + served[p]
    BY <1>1, <1>8, <2>2 DEF NoteOk
  <2>4. PICK n \in Nat : n = q[k].arg
    <3>1. q[k] \in Message
      BY <1>4, <2>2
    <3> QED
      BY <3>1 DEF Message
  <2>5. SumOf(q, S) = n
    BY <1>10, <2>3, <2>4, SumOfOne
  <2> QED
    BY <1>4, <1>6, <1>7, <2>3, <2>4, <2>5
<1> QED
  BY <1>9, <1>10

\* What the slot of a process holds and what is on the way to the listener add
\* up to the time the process reported and what an earlier owner had left in
\* the slot, which las_register_process does not reset.
THEOREM ServiceIsCharged == Spec => []ServiceCharged
<1>1. LasInv => ServiceCharged
  BY PendingIs DEF ServiceCharged, Registered
<1> QED
  BY <1>1, LasInvariant, PTL
=============================================================================

-------------------------- MODULE FairShareProofs --------------------------
(***************************************************************************)
(* Proofs about FairShare, for any number of processes, GPUs, table slots  *)
(* and registrations: the semaphore excludes, one slice is all there is,   *)
(* and who registers gets one slot of the table.                           *)
(***************************************************************************)
EXTENDS FairShare, FiniteSetTheorems, SequenceTheorems, WellFoundedInduction, TLAPS

\* A non-empty set of naturals has a least element.
LEMMA LeastNat ==
    ASSUME NEW S \in SUBSET Nat, S # {} PROVE \E m \in S : \A k \in S : m <= k
<1> DEFINE R == OpToRel(<, Nat)
<1>1. IsWellFoundedOn(R, Nat)
  BY NatLessThanWellFounded
<1>2. \A k, m \in Nat : <<k, m>> \in R <=> k < m
  BY DEF OpToRel
<1> HIDE DEF R
<1>3. PICK m \in S : \A k \in S : <<k, m>> \notin R
  BY <1>1, WFMin
<1>4. \A k \in S : ~ (k < m)
  BY <1>2, <1>3
<1> QED
  BY <1>4

\* A set in which any two elements are the same has at most one.
LEMMA AtMostOne ==
    ASSUME NEW S, \A x, y \in S : x = y
    PROVE  Cardinality(S) \in {0, 1} /\ (Cardinality(S) = 0 <=> S = {})
<1>1. CASE S = {}
  BY <1>1, FS_EmptySet
<1>2. CASE S # {}
  <2>1. PICK x \in S : S = {x}
    BY <1>2
  <2>2. Cardinality({x}) = 1
    BY FS_Singleton
  <2> QED
    BY <1>2, <2>1, <2>2
<1> QED
  BY <1>1, <1>2

-----------------------------------------------------------------------------
(* The semaphore.                                                           *)

MutexInv ==
    /\ pc \in [Procs -> Places]
    /\ sem \in {0, 1}
    /\ \A p, q \in Procs : pc[p] \in Inside /\ pc[q] \in Inside => p = q
    /\ (\E p \in Procs : pc[p] \in Inside) => sem = 0
    /\ sem = 0 => \E p \in Procs : pc[p] \in Inside \cup {"dead"}

\* A step that changes no process's place and not the semaphore keeps the
\* invariant.
LEMMA MutexSame == MutexInv /\ UNCHANGED <<pc, sem>> => MutexInv'
  BY DEF MutexInv

\* A process that moves within the section, or outside of it and not from death.
LEMMA MutexMove ==
    ASSUME MutexInv, NEW p \in Procs, NEW to \in Places, pc' = [pc EXCEPT ![p] = to],
           sem' = sem, pc[p] # "dead", pc[p] \in Inside <=> to \in Inside
    PROVE  MutexInv'
  BY DEF MutexInv

\* Every step keeps the semaphore and the section in agreement.
LEMMA MutexNext == MutexInv /\ [Next]_vars => MutexInv'
<1> SUFFICES ASSUME MutexInv, [Next]_vars PROVE MutexInv'
  OBVIOUS
<1>1. ASSUME NEW p \in Procs, P(p) PROVE MutexInv'
  <2>1. PICK to \in {"addS", "lost", "remS"} : pc' = [pc EXCEPT ![p] = to]
    BY <1>1 DEF P, Go
  <2>2. sem = 1 /\ sem' = 0 /\ \A q \in Procs : pc[q] \notin Inside
    BY <1>1 DEF P, MutexInv
  <2>3. to \in Inside /\ to \in Places
    BY DEF Inside, Places
  <2>4. pc' \in [Procs -> Places] /\ pc'[p] = to /\ \A q \in Procs : q # p => pc'[q] = pc[q]
    BY <2>1, <2>3 DEF MutexInv
  <2> QED
    BY <2>2, <2>3, <2>4 DEF MutexInv
<1>2. ASSUME NEW p \in Procs, Send(p) \/ Handshake(p) PROVE MutexInv'
  <2>1. PICK to \in {"addR", "remV", "addV"} : pc' = [pc EXCEPT ![p] = to]
    BY <1>2 DEF Send, Handshake, Go
  <2>2. sem' = sem /\ pc[p] \in {"addS", "remS", "addR"}
    BY <1>2 DEF Send, Handshake, Go
  <2> QED
    BY <2>1, <2>2, MutexMove DEF Inside, Places
<1>3. ASSUME NEW p \in Procs, V(p) PROVE MutexInv'
  <2>1. PICK to \in {"serve", "gone"} : pc' = [pc EXCEPT ![p] = to]
    BY <1>3 DEF V, Go
  <2>2. pc[p] \in Inside /\ sem' = sem + 1
    BY <1>3 DEF V, Go, Inside
  <2>3. sem' = 1
    BY <2>2 DEF MutexInv
  <2>4. to \notin Inside /\ to \in Places
    BY DEF Inside, Places
  <2>5. pc' \in [Procs -> Places] /\ \A q \in Procs : pc'[q] \notin Inside
    BY <2>1, <2>2, <2>4 DEF MutexInv
  <2> QED
    BY <2>3, <2>5 DEF MutexInv
<1>4. ASSUME NEW p \in Procs, NEW g \in GPUs, SetDevice(p, g) PROVE MutexInv'
  BY <1>4, MutexMove DEF SetDevice, Go, Inside, Places
<1>5. ASSUME NEW p \in Procs, Close(p) PROVE MutexInv'
  BY <1>5, MutexMove DEF Close, Go, Inside, Places
<1>6. ASSUME NEW p \in Procs, Killed(p) PROVE MutexInv'
  <2>1. /\ pc' \in [Procs -> Places] /\ sem' = sem /\ pc'[p] = "dead"
        /\ \A q \in Procs : q # p => pc'[q] = pc[q]
    BY <1>6 DEF Killed, MutexInv, Places
  <2> QED
    BY <2>1 DEF MutexInv, Inside
<1>7. ASSUME NEW p \in Procs, SigSchedule(p) \/ Wake(p) \/ Expire(p) PROVE MutexInv'
  BY <1>7, MutexSame DEF SigSchedule, Wake, Expire, calls
<1>8. ASSUME NEW g \in GPUs, ListenStep(g) \/ ControlStep(g) PROVE MutexInv'
  <2>1. UNCHANGED calls
    BY <1>8 DEF ListenStep, WriteMapping, Start, Read, Remove, SendAlarm, RegPid, RegActive, RegGpu, RegCount,
                ControlStep, Pick, Dispatch
  <2> QED
    BY <2>1, MutexSame DEF calls
<1>9. CASE UNCHANGED vars
  BY <1>9, MutexSame DEF vars, calls
<1> QED
  BY <1>1, <1>2, <1>3, <1>4, <1>5, <1>6, <1>7, <1>8, <1>9 DEF Next, ProcStep, SignalStep

\* The initial state.
LEMMA MutexInit == Init => MutexInv
  BY DEF Init, MutexInv, Places, Inside

\* The semaphore admits one process at a time to the FIFOs, whatever the
\* number of processes, and whichever of them are killed (P and V around
\* fs_add_queue and fs_rem_queue).
THEOREM SectionExclusive == Spec => []Exclusive
<1>1. MutexInv => Exclusive
  <2> SUFFICES ASSUME MutexInv PROVE Exclusive
    OBVIOUS
  <2> DEFINE S == {p \in Procs : pc[p] \in Inside}
  <2>1. Cardinality(S) \in {0, 1} /\ (Cardinality(S) = 0 <=> S = {})
    <3>1. \A x, y \in S : x = y
      BY DEF MutexInv
    <3> HIDE DEF S
    <3> QED
      BY <3>1, AtMostOne
  <2>2. S # {} => sem = 0
    BY DEF MutexInv
  <2>3. sem + Cardinality(S) =< 1
    <3> HIDE DEF S
    <3> QED
      BY <2>1, <2>2 DEF MutexInv
  <2> QED
    BY <2>3 DEF Exclusive, MutexInv
<1> QED
  BY <1>1, MutexInit, MutexNext, PTL DEF Spec

-----------------------------------------------------------------------------
(* The slice.                                                               *)

\* SIGSCHED was sent to p, or p was put to sleep and woken.
Roused(p) == sched[p] \/ (slept[p] /\ ~ asleep[p] /\ Alive(p))

SliceInv ==
    /\ pc \in [Procs -> Places]
    /\ {sched, asleep, slept} \subseteq [Procs -> BOOLEAN]
    /\ sched_index_mut \in GPUs \cup {NoGpu}
    /\ kpc \in [GPUs -> ControlPlaces]
    /\ slices \in {0, 1}
    /\ \A g \in GPUs : kpc[g] \in {"wait", "relock"} <=> sched_index_mut = g
    /\ slices = 1 <=> \E g \in GPUs : kpc[g] = "wait" /\ sched_index_mut = g
    /\ \A p \in Procs : Roused(p) => slices = 1
    /\ \A p, q \in Procs : Roused(p) /\ Roused(q) => p = q

\* A step that rouses nobody and leaves the control threads alone.
LEMMA SliceSame ==
    ASSUME SliceInv, UNCHANGED <<sched_index_mut, kpc, slices>>,
           pc' \in [Procs -> Places], {sched', asleep', slept'} \subseteq [Procs -> BOOLEAN],
           \A p \in Procs : Roused(p)' => Roused(p)
    PROVE  SliceInv'
  BY DEF SliceInv

\* A step of a process's own program sends no signal and revives nobody.
LEMMA SliceMove ==
    ASSUME SliceInv, NEW p \in Procs, NEW from \in Places \ {"gone", "dead"}, NEW to \in Places,
           Go(p, from, to), UNCHANGED <<controls, signals>>
    PROVE  SliceInv'
<1>1. pc' \in [Procs -> Places] /\ UNCHANGED <<sched, asleep, slept>>
  BY DEF Go, SliceInv, signals
<1>2. \A q \in Procs : Alive(q)' => Alive(q)
  BY DEF Go, Alive, SliceInv
<1>3. \A q \in Procs : Roused(q)' => Roused(q)
  BY <1>1, <1>2 DEF Roused
<1> QED
  BY <1>1, <1>3, SliceSame DEF controls, SliceInv

\* Every step keeps the account of the one slice.
LEMMA SliceNext == SliceInv /\ [Next]_vars => SliceInv'
<1> SUFFICES ASSUME SliceInv, [Next]_vars PROVE SliceInv'
  OBVIOUS
<1>1. ASSUME NEW p \in Procs, ProcStep(p) \/ Close(p) \/ \E g \in GPUs : SetDevice(p, g)
      PROVE  SliceInv'
  <2>1. UNCHANGED <<controls, signals>>
    BY <1>1 DEF ProcStep, P, Send, Handshake, V, Close, SetDevice
  <2>2. \E from \in Places \ {"gone", "dead"}, to \in Places : Go(p, from, to)
    BY <1>1 DEF ProcStep, P, Send, Handshake, V, Close, SetDevice, Places, Inside
  <2> QED
    BY <2>1, <2>2, SliceMove
<1>2. ASSUME NEW p \in Procs, SigSchedule(p) PROVE SliceInv'
  <2>1. \A q \in Procs : Roused(q)' => Roused(q)
    BY <1>2 DEF SigSchedule, Roused, Alive, SliceInv, calls
  <2> QED
    BY <1>2, <2>1, SliceSame DEF SigSchedule, controls, calls, SliceInv
<1>3. ASSUME NEW p \in Procs, Wake(p) PROVE SliceInv'
  <2>1. \A q \in Procs : Roused(q)' => Roused(q)
    BY <1>3 DEF Wake, Roused, Alive, SliceInv, calls
  <2> QED
    BY <1>3, <2>1, SliceSame DEF Wake, controls, calls, SliceInv
<1>4. ASSUME NEW p \in Procs, Killed(p) PROVE SliceInv'
  <2>1. pc' \in [Procs -> Places] /\ {sched', asleep', slept'} \subseteq [Procs -> BOOLEAN]
    BY <1>4 DEF Killed, SliceInv, Places
  <2>2. \A q \in Procs : Roused(q)' => Roused(q)
    BY <1>4 DEF Killed, Roused, Alive, SliceInv
  <2> QED
    BY <1>4, <2>1, <2>2, SliceSame DEF Killed, controls
<1>5. ASSUME NEW p \in Procs, Expire(p) PROVE SliceInv'
  BY <1>5, SliceSame DEF Expire, controls, calls, SliceInv, Roused, Alive
<1>6. ASSUME NEW g \in GPUs, ListenStep(g) PROVE SliceInv'
  <2>1. UNCHANGED <<controls, calls, sched, asleep, slept>>
    BY <1>6 DEF ListenStep, WriteMapping, Start, Read, Remove, SendAlarm, RegPid, RegActive, RegGpu, RegCount, signals
  <2> QED
    BY <2>1, SliceSame DEF controls, calls, SliceInv, Roused, Alive
<1>7. ASSUME NEW g \in GPUs, NEW s \in Slots, Pick(g, s) PROVE SliceInv'
  <2>1. /\ UNCHANGED <<sched_index_mut, slices, pc, sched, asleep, slept>>
        /\ kpc[g] = "loop" /\ kpc' = [kpc EXCEPT ![g] = "lock"]
    BY <1>7 DEF Pick, calls, signals
  <2>2. \A p \in Procs : Roused(p)' <=> Roused(p)
    BY <2>1 DEF Roused, Alive
  <2>3. /\ kpc' \in [GPUs -> ControlPlaces]
        /\ \A h \in GPUs : kpc'[h] \in {"wait", "relock"} <=> kpc[h] \in {"wait", "relock"}
        /\ \A h \in GPUs : kpc'[h] = "wait" <=> kpc[h] = "wait"
    BY <2>1 DEF SliceInv, ControlPlaces
  <2> QED
    BY <2>1, <2>2, <2>3 DEF SliceInv
<1>8. ASSUME NEW g \in GPUs, Dispatch(g) PROVE SliceInv'
  <2>1. NoGpu \notin GPUs
    BY FairShareAssumption DEF NoGpu, GPUs
  <2>2. slices = 0 /\ \A p \in Procs : ~ Roused(p)
    BY <1>8, <2>1 DEF Dispatch, SliceInv
  <2>3. \A h \in GPUs : kpc[h] \notin {"wait", "relock"}
    BY <1>8, <2>1 DEF Dispatch, SliceInv
  <2>4. UNCHANGED <<pc, asleep, slept>> /\ sched_index_mut' = g
    BY <1>8 DEF Dispatch, Signal, calls, signals
  <2>5. \A p \in Procs : Alive(p)' <=> Alive(p)
    BY <2>4 DEF Alive
  <2>6. CASE kpc' = [kpc EXCEPT ![g] = "wait"] /\ Signal(process_id[g]) /\ slices' = slices + 1
    <3>1. slices' = 1
      BY <2>2, <2>6
    <3>2. sched' \in [Procs -> BOOLEAN] /\ \A p \in Procs : sched'[p] => p = process_id[g]
      BY <2>2, <2>6 DEF Signal, SliceInv, Roused
    <3>3. \A p \in Procs : Roused(p)' => p = process_id[g]
      BY <2>2, <2>4, <2>5, <3>2 DEF Roused
    <3>4. kpc' \in [GPUs -> ControlPlaces] /\ kpc'[g] = "wait" /\ \A h \in GPUs : h # g => kpc'[h] = kpc[h]
      BY <2>6 DEF SliceInv, ControlPlaces
    <3> QED
      BY <2>3, <2>4, <3>1, <3>2, <3>3, <3>4 DEF SliceInv
  <2>7. CASE kpc' = [kpc EXCEPT ![g] = "relock"] /\ UNCHANGED <<signals, slices>>
    <3>1. sched' = sched /\ \A p \in Procs : ~ Roused(p)'
      BY <2>2, <2>4, <2>5, <2>7 DEF Roused, signals
    <3>2. kpc' \in [GPUs -> ControlPlaces] /\ kpc'[g] = "relock" /\ \A h \in GPUs : h # g => kpc'[h] = kpc[h]
      BY <2>7 DEF SliceInv, ControlPlaces
    <3> QED
      BY <2>2, <2>3, <2>4, <2>7, <3>1, <3>2 DEF SliceInv
  <2> QED
    BY <1>8, <2>6, <2>7 DEF Dispatch
<1>9. CASE UNCHANGED vars
  BY <1>9, SliceSame DEF vars, controls, calls, signals, SliceInv, Roused, Alive
<1> QED
  BY <1>1, <1>2, <1>3, <1>4, <1>5, <1>6, <1>7, <1>8, <1>9 DEF Next, SignalStep, ControlStep

\* The initial state.
LEMMA SliceInit == Init => SliceInv
<1> SUFFICES ASSUME Init PROVE SliceInv
  OBVIOUS
<1>1. pc \in [Procs -> Places] /\ {sched, asleep, slept} \subseteq [Procs -> BOOLEAN]
  BY DEF Init, Places
<1>2. sched_index_mut = NoGpu /\ NoGpu \notin GPUs /\ slices = 0
  BY FairShareAssumption DEF Init, NoGpu, GPUs
<1>3. kpc \in [GPUs -> ControlPlaces] /\ \A g \in GPUs : kpc[g] = "loop"
  BY DEF Init, ControlPlaces
<1>4. \A p \in Procs : ~ Roused(p)
  BY DEF Init, Roused
<1> QED
  BY <1>1, <1>2, <1>3, <1>4 DEF SliceInv

\* One slice is all the scheduler gives, to all GPUs together: the control
\* thread that gives it keeps sched_index_mut and waits for ever, and of the
\* processes that were put to sleep at most one is ever woken.  The comments of
\* sigschedulehandler ("Now we set up the timer and let the process execute till
\* timer expires.  On timer expiry, this handler will be called again") promise
\* slice after slice: what follows is the defect, for every instance.
OneSlice ==
    /\ slices =< 1
    /\ slices = 1 <=> \E g \in GPUs : kpc[g] = "wait" /\ sched_index_mut = g
    /\ Cardinality({p \in Procs : slept[p] /\ ~ asleep[p] /\ Alive(p)}) =< 1

\* fs_control_thread never gives sched_index_mut back.
THEOREM OneSliceEver == Spec => []OneSlice
<1>1. SliceInv => OneSlice
  <2> SUFFICES ASSUME SliceInv PROVE OneSlice
    OBVIOUS
  <2> DEFINE S == {p \in Procs : slept[p] /\ ~ asleep[p] /\ Alive(p)}
  <2>1. \A x, y \in S : x = y
    BY DEF SliceInv, Roused
  <2>2. Cardinality(S) =< 1
    <3> HIDE DEF S
    <3> QED
      BY <2>1, AtMostOne
  <2> QED
    BY <2>2 DEF OneSlice, SliceInv
<1> QED
  BY <1>1, SliceInit, SliceNext, PTL DEF Spec

-----------------------------------------------------------------------------
(* The table.                                                               *)

FairTypes ==
    /\ process_list \in [Slots -> Procs \cup {None}]
    /\ gpu_binding \in [Slots -> GPUs]
    /\ count \in Slots
    /\ lpc \in [GPUs -> ListenerPlaces]
    /\ pcd \in [GPUs -> Message \cup {NoMessage}]
    /\ fifo \in [GPUs -> Seq(Message)]
    /\ process_id \in [GPUs -> Procs \cup {None}]
    /\ pc \in [Procs -> Places]
    /\ target \in [Procs -> GPUs]
    /\ running_gpu \in [Procs -> GPUs \cup {NoGpu}]
    /\ {sched, asleep} \subseteq [Procs -> BOOLEAN]
    /\ adds \in [Procs -> Nat]

\* Listener g enters a process in the table.
EnterPlaces == {"alarm", "list", "active", "gpu", "count"}

\* A message at listener g.  A process asks one listener at a time, and waits for
\* the answer; to unregister, it writes to the listener that has registered it.
MsgOk(m, g) ==
    IF m.action = "ADD_Q"
      THEN /\ pc[m.pid] = "addR" /\ target[m.pid] = g /\ m.gpuid = g
           /\ lpc[g] = "reply" => pcd[g].pid # m.pid
      ELSE pc[m.pid] \in {"remV", "gone"} /\ running_gpu[m.pid] = g

\* It asks once.
Once(f) ==
    \A i, j \in DOMAIN f :
      f[i].action = "ADD_Q" /\ f[j].action = "ADD_Q" /\ f[i].pid = f[j].pid => i = j

\* The message that listener g handles.
ListenOk(g) ==
    /\ lpc[g] \in Registering => pcd[g] \in Message /\ pcd[g].gpuid = g
    /\ lpc[g] = "reply" => pc[pcd[g].pid] = "addR" /\ target[pcd[g].pid] = g

MsgInv ==
    \A g \in GPUs :
      /\ \A i \in DOMAIN fifo[g] : MsgOk(fifo[g][i], g)
      /\ Once(fifo[g])
      /\ ListenOk(g)

\* The processes that have been answered, and those that ever set a device.
Past == {p \in Procs : running_gpu[p] # NoGpu \/ pc[p] \in {"addV", "dead"}}
Started == {p \in Procs : adds[p] > 0}

\* Only they are in the table, and only who was in the table gets SIGSCHED.
PastInv ==
    /\ \A s \in Slots : process_list[s] \in Past \cup {None}
    /\ \A g \in GPUs : process_id[g] \in Past \cup {None}
    /\ \A g \in GPUs : lpc[g] \in EnterPlaces => pcd[g].pid \in Past
    /\ \A p \in Procs :
         /\ sched[p] => p \in Past
         /\ asleep[p] => ~ Blocked(p)
         /\ p \in Past \/ pc[p] \in {"addP", "addS", "addR"} => adds[p] > 0
         /\ pc[p] \in {"serve", "remP", "remS", "remV"} => running_gpu[p] # NoGpu
    /\ IsFiniteSet(Started)

\* The GPU of a process that has been answered.
Home(p, g) == IF running_gpu[p] # NoGpu THEN running_gpu[p] = g
                                        ELSE pc[p] = "addV" => target[p] = g

\* The number of slots that have been filled.
Entering == \E g \in GPUs : lpc[g] \in EnterPlaces
Filled == Cardinality(Past) - (IF Entering THEN 1 ELSE 0)

CountOk == Filled \in 0 .. N /\ count = Filled % N /\ (Entering => Filled < N)

OneEnters ==
    \A g, h \in GPUs : lpc[g] \in Registering /\ lpc[h] \in Registering => g = h

\* Process p has slot s, and no other.
Has(p, s) == \A u \in Slots : process_list[u] = p <=> u = s

EnterOk(g) ==
    /\ lpc[g] = "reply" => pcd[g].pid \notin Past
    /\ lpc[g] \in EnterPlaces => Home(pcd[g].pid, g)
    /\ lpc[g] \in {"alarm", "list"} => \A u \in Slots : process_list[u] # pcd[g].pid
    /\ lpc[g] \in {"active", "gpu", "count"} => Has(pcd[g].pid, count)
    /\ lpc[g] = "count" => gpu_binding[count] = g

\* Process p has been answered and entered, and has not asked to be removed.
Settled(p) ==
    /\ p \in Past /\ pc[p] \notin {"dead", "gone", "remV"}
    /\ \A g \in GPUs : lpc[g] \in EnterPlaces => pcd[g].pid # p

\* It has one slot, of its GPU, among those that have been filled.
Seated(p) == \E s \in Slots : s < Filled /\ Home(p, gpu_binding[s]) /\ Has(p, s)

SeatsOk ==
    /\ CountOk /\ OneEnters
    /\ \A g \in GPUs : EnterOk(g)
    /\ \A p \in Procs : (Settled(p) => Seated(p)) /\ (pc[p] = "addV" => running_gpu[p] = NoGpu)

\* Registrations have not overlapped, and there are enough slots.
Calm == ~ overlap /\ Cardinality(Started) =< N

SeatInv == Calm => SeatsOk

TableInv == FairTypes /\ MsgInv /\ PastInv /\ SeatInv

\* The steps, one by one.
LEMMA FairSteps ==
    ASSUME [Next]_vars
    PROVE  \/ \E p \in Procs : \/ P(p) \/ Send(p) \/ Handshake(p) \/ V(p)
                               \/ SigSchedule(p) \/ Wake(p) \/ Killed(p) \/ Expire(p)
                               \/ Close(p) \/ \E g \in GPUs : SetDevice(p, g)
           \/ \E g \in GPUs : \/ WriteMapping(g) \/ Start(g) \/ Read(g) \/ Remove(g) \/ SendAlarm(g) \/ RegPid(g)
                              \/ RegActive(g) \/ RegGpu(g) \/ RegCount(g)
                              \/ \E s \in Slots : Pick(g, s)
                              \/ Dispatch(g)
           \/ UNCHANGED vars
  BY DEF Next, ProcStep, SignalStep, ListenStep, ControlStep

\* No GPU is the value for none, the first GPU and the first slot exist, and a GPU has slots.
LEMMA GpuSlots == NoGpu \notin GPUs /\ 0 \in GPUs /\ 0 \in Slots /\ N \in Nat \ {0}
  BY FairShareAssumption DEF NoGpu, GPUs, Slots

\* The slot that is removed is one of those looked for.
LEMMA FirstIn == ASSUME NEW S \in SUBSET Slots, S # {} PROVE FirstOf(S) \in S
<1>1. S \in SUBSET Nat
  BY FairShareAssumption DEF Slots
<1>2. \E s \in S : \A u \in S : s <= u
  BY <1>1, LeastNat
<1> QED
  BY <1>2 DEF FirstOf

\* Types are kept.
LEMMA FairTypesNext == FairTypes /\ MsgInv /\ [Next]_vars => FairTypes'
<1> SUFFICES ASSUME FairTypes, MsgInv, [Next]_vars PROVE FairTypes'
  OBVIOUS
<1>1. ASSUME NEW p \in Procs, P(p) \/ Close(p) PROVE FairTypes'
  <2>1. \E from, to \in Places : Go(p, from, to)
    BY <1>1 DEF P, Close, Places, Inside
  <2>2. pc' \in [Procs -> Places]
    BY <2>1 DEF Go, FairTypes
  <2> QED
    BY <1>1, <2>2 DEF P, Close, FairTypes, table, listeners, controls, signals
<1>2. ASSUME NEW p \in Procs, Send(p) PROVE FairTypes'
  <2>1. \E from, to \in Places : Go(p, from, to)
    BY <1>2 DEF Send, Places, Inside
  <2>2. pc' \in [Procs -> Places]
    BY <2>1 DEF Go, FairTypes
  <2>3. fifo' \in [GPUs -> Seq(Message)]
    <3>1. ASSUME NEW m \in Message, NEW g, fifo' = [fifo EXCEPT ![g] = Append(@, m)]
          PROVE  fifo' \in [GPUs -> Seq(Message)]
      <4>1. fifo \in [GPUs -> Seq(Message)]
        BY DEF FairTypes
      <4>2. \A h \in GPUs : Append(fifo[h], m) \in Seq(Message)
        BY <3>1, <4>1, AppendProperties
      <4> QED
        BY <3>1, <4>1, <4>2
    <3>2. CASE Go(p, "addS", "addR")
      <4>1. [pid |-> p, action |-> "ADD_Q", gpuid |-> target[p]] \in Message
        BY DEF Message, FairTypes
      <4> QED
        BY <1>2, <3>1, <3>2, <4>1 DEF Send, Go
    <3>3. CASE Go(p, "remS", "remV")
      <4>1. CASE running_gpu[p] \in GPUs
        <5>1. [pid |-> p, action |-> "REM_Q", gpuid |-> running_gpu[p]] \in Message
          BY <4>1 DEF Message
        <5> QED
          BY <1>2, <3>1, <3>3, <5>1 DEF Send, Go
      <4>2. CASE running_gpu[p] \notin GPUs
        BY <1>2, <3>3, <4>2 DEF Send, Go, FairTypes
      <4> QED
        BY <4>1, <4>2
    <3> QED
      BY <1>2, <3>2, <3>3 DEF Send
  <2> QED
    BY <1>2, <2>2, <2>3 DEF Send, FairTypes, table, controls, signals
<1>3. ASSUME NEW p \in Procs, Handshake(p) PROVE FairTypes'
  <2>1. pc' \in [Procs -> Places] /\ lpc' \in [GPUs -> ListenerPlaces]
    BY <1>3 DEF Handshake, Go, FairTypes, Places, Inside, ListenerPlaces
  <2> QED
    BY <1>3, <2>1 DEF Handshake, FairTypes, table, controls, signals
<1>4. ASSUME NEW p \in Procs, V(p) PROVE FairTypes'
  <2>1. pc' \in [Procs -> Places]
    BY <1>4 DEF V, Go, FairTypes, Places
  <2>2. running_gpu' \in [Procs -> GPUs \cup {NoGpu}] /\ target' \in [Procs -> GPUs]
    BY <1>4, GpuSlots DEF V, FairTypes
  <2> QED
    BY <1>4, <2>1, <2>2 DEF V, FairTypes, table, listeners, controls, signals
<1>5. ASSUME NEW p \in Procs, SigSchedule(p) \/ Wake(p) \/ Expire(p) PROVE FairTypes'
  <2>1. {sched', asleep'} \subseteq [Procs -> BOOLEAN]
    BY <1>5 DEF SigSchedule, Wake, Expire, FairTypes
  <2>2. UNCHANGED <<table, listeners, controls, calls>>
    BY <1>5 DEF SigSchedule, Wake, Expire
  <2> QED
    BY <2>1, <2>2 DEF FairTypes, table, listeners, controls, calls
<1>6. ASSUME NEW p \in Procs, Killed(p) PROVE FairTypes'
  BY <1>6 DEF Killed, FairTypes, Places, table, listeners, controls
<1>7. ASSUME NEW p \in Procs, NEW g \in GPUs, SetDevice(p, g) PROVE FairTypes'
  <2>1. pc' \in [Procs -> Places]
    BY <1>7 DEF SetDevice, Go, FairTypes, Places
  <2>2. adds' \in [Procs -> Nat]
    <3>1. adds' = [adds EXCEPT ![p] = @ + 1]
      BY <1>7 DEF SetDevice
    <3> QED
      BY <3>1 DEF FairTypes
  <2>3. target' \in [Procs -> GPUs]
    BY <1>7 DEF SetDevice, FairTypes
  <2>4. UNCHANGED <<table, listeners, controls, signals, running_gpu>>
    BY <1>7 DEF SetDevice
  <2> QED
    BY <2>1, <2>2, <2>3, <2>4 DEF FairTypes, table, listeners, controls, signals
<1>8. ASSUME NEW g \in GPUs, WriteMapping(g) \/ Start(g) \/ Remove(g) \/ SendAlarm(g) \/ RegActive(g) PROVE FairTypes'
  <2>1. lpc' \in [GPUs -> ListenerPlaces]
    BY <1>8 DEF WriteMapping, Start, Remove, SendAlarm, RegActive, FairTypes, ListenerPlaces
  <2> QED
    BY <1>8, <2>1 DEF WriteMapping, Start, Remove, SendAlarm, RegActive, FairTypes, table, controls, signals, calls
<1>9. ASSUME NEW g \in GPUs, Read(g) PROVE FairTypes'
  <2>1. fifo' \in [GPUs -> Seq(Message)] /\ Head(fifo[g]) \in Message
    BY <1>9 DEF Read, FairTypes
  <2>2. lpc' \in [GPUs -> ListenerPlaces]
    BY <1>9 DEF Read, FairTypes, ListenerPlaces
  <2>3. pcd' \in [GPUs -> Message \cup {NoMessage}]
    <3>1. pcd' = pcd \/ pcd' = [pcd EXCEPT ![g] = Head(fifo[g])]
      BY <1>9 DEF Read
    <3> QED
      BY <2>1, <3>1 DEF FairTypes
  <2>4. process_list' \in [Slots -> Procs \cup {None}]
    BY <1>9 DEF Read, FairTypes
  <2>5. UNCHANGED <<gpu_binding, count, controls, signals, calls>>
    BY <1>9 DEF Read
  <2> QED
    BY <2>1, <2>2, <2>3, <2>4, <2>5 DEF FairTypes, controls, signals, calls
<1>10. ASSUME NEW g \in GPUs, RegPid(g) PROVE FairTypes'
  <2>1. pcd[g].pid \in Procs \cup {None}
    BY DEF FairTypes, Message, NoMessage
  <2>2. lpc' \in [GPUs -> ListenerPlaces] /\ process_list' \in [Slots -> Procs \cup {None}]
    BY <1>10, <2>1 DEF RegPid, FairTypes, ListenerPlaces
  <2> QED
    BY <1>10, <2>2 DEF RegPid, FairTypes, controls, signals, calls
<1>11. ASSUME NEW g \in GPUs, RegGpu(g) PROVE FairTypes'
  <2>1. pcd[g].gpuid \in GPUs
    BY <1>11 DEF RegGpu, MsgInv, ListenOk, Registering
  <2>2. lpc' \in [GPUs -> ListenerPlaces] /\ gpu_binding' \in [Slots -> GPUs]
    BY <1>11, <2>1 DEF RegGpu, FairTypes, ListenerPlaces
  <2> QED
    BY <1>11, <2>2 DEF RegGpu, FairTypes, controls, signals, calls
<1>12. ASSUME NEW g \in GPUs, RegCount(g) PROVE FairTypes'
  <2>1. lpc' \in [GPUs -> ListenerPlaces] /\ pcd' \in [GPUs -> Message \cup {NoMessage}]
    BY <1>12 DEF RegCount, FairTypes, ListenerPlaces
  <2>2. (count + 1) % N \in Slots
    BY FairShareAssumption DEF FairTypes, Slots
  <2> QED
    BY <1>12, <2>1, <2>2 DEF RegCount, FairTypes, controls, signals, calls
<1>13. ASSUME NEW g \in GPUs, NEW s \in Slots, Pick(g, s) PROVE FairTypes'
  BY <1>13 DEF Pick, FairTypes, table, listeners, signals, calls
<1>14. ASSUME NEW g \in GPUs, Dispatch(g) PROVE FairTypes'
  <2>1. sched' \in [Procs -> BOOLEAN] /\ UNCHANGED asleep
    BY <1>14 DEF Dispatch, Signal, FairTypes, signals
  <2>2. process_id' \in [GPUs -> Procs \cup {None}]
    BY <1>14 DEF Dispatch, FairTypes
  <2> QED
    BY <1>14, <2>1, <2>2 DEF Dispatch, FairTypes, table, listeners, calls
<1>15. CASE UNCHANGED vars
  BY <1>15 DEF FairTypes, vars, table, listeners, controls, signals, calls
<1> QED
  BY <1>1, <1>2, <1>3, <1>4, <1>5, <1>6, <1>7, <1>8, <1>9, <1>10, <1>11, <1>12, <1>13, <1>14, <1>15,
     FairSteps
-----------------------------------------------------------------------------
(* The messages.                                                            *)

\* Nothing that a message depends on changes.
MsgStay ==
    /\ UNCHANGED fifo
    /\ \A p \in Procs :
         /\ pc[p] = "addR" => pc'[p] = "addR" /\ target'[p] = target[p]
         /\ pc[p] \in {"remV", "gone"} =>
              pc'[p] \in {"remV", "gone"} /\ running_gpu'[p] = running_gpu[p]
    /\ \A g \in GPUs : lpc'[g] \in Registering =>
         /\ lpc[g] \in Registering /\ pcd'[g] = pcd[g]
         /\ lpc'[g] = "reply" => lpc[g] = "reply"

\* Such a step keeps the invariant of the messages.
LEMMA MsgKept == ASSUME FairTypes, MsgInv, MsgStay PROVE MsgInv'
<1> SUFFICES ASSUME NEW g \in GPUs
             PROVE  /\ \A i \in DOMAIN fifo[g] : MsgOk(fifo[g][i], g)'
                    /\ Once(fifo[g])
                    /\ ListenOk(g)'
  BY DEF MsgStay, MsgInv
<1>1. Once(fifo[g])
  BY DEF MsgInv
<1>2. ListenOk(g)'
  <2>1. lpc'[g] \in Registering => pcd'[g] \in Message /\ pcd'[g].gpuid = g
    BY DEF MsgInv, MsgStay, ListenOk
  <2>2. CASE lpc'[g] = "reply"
    <3>1. /\ lpc[g] = "reply" /\ pcd'[g] = pcd[g] /\ pcd[g] \in Message
          /\ pc[pcd[g].pid] = "addR" /\ target[pcd[g].pid] = g
      BY <2>2 DEF MsgInv, MsgStay, ListenOk, Registering
    <3>2. pcd[g].pid \in Procs
      BY <3>1 DEF Message
    <3> QED
      BY <2>1, <3>1, <3>2 DEF MsgStay, ListenOk
  <2> QED
    BY <2>1, <2>2 DEF ListenOk
<1>3. ASSUME NEW i \in DOMAIN fifo[g] PROVE MsgOk(fifo[g][i], g)'
  <2>1. PICK m \in Message : m = fifo[g][i]
    BY <1>3 DEF FairTypes
  <2>2. MsgOk(m, g) /\ m.pid \in Procs
    BY <2>1 DEF MsgInv, Message
  <2>3. lpc'[g] = "reply" => lpc[g] = "reply" /\ pcd'[g] = pcd[g]
    BY DEF MsgStay, Registering
  <2>4. MsgOk(m, g)'
    BY <2>2, <2>3 DEF MsgStay, MsgOk
  <2> QED
    BY <2>1, <2>4 DEF MsgStay
<1> QED
  BY <1>1, <1>2, <1>3

\* A process writes its message.
LEMMA MsgSent ==
    ASSUME FairTypes, MsgInv, NEW p \in Procs, NEW g0 \in GPUs, NEW m \in Message, m.pid = p,
           fifo' = [fifo EXCEPT ![g0] = Append(@, m)],
           pc[p] \in {"addS", "remS"}, NEW to, pc' = [pc EXCEPT ![p] = to],
           UNCHANGED <<lpc, pcd, target, running_gpu>>, MsgOk(m, g0)'
    PROVE  MsgInv'
<1> SUFFICES ASSUME NEW g \in GPUs
             PROVE  /\ \A i \in DOMAIN fifo'[g] : MsgOk(fifo[g][i], g)'
                    /\ Once(fifo'[g])
                    /\ ListenOk(g)'
  BY DEF MsgInv
<1>1. fifo[g] \in Seq(Message) /\ \A q \in Procs : q # p => pc'[q] = pc[q]
  BY DEF FairTypes
<1>2. ListenOk(g)'
  <2>1. ListenOk(g)
    BY DEF MsgInv
  <2>2. lpc[g] = "reply" => pcd[g].pid \in Procs /\ pcd[g].pid # p
    BY <2>1 DEF ListenOk, Registering, Message
  <2> QED
    BY <1>1, <2>1, <2>2 DEF ListenOk
<1>3. ASSUME NEW i \in DOMAIN fifo[g], NEW n, n = fifo[g][i]
      PROVE  n.pid # p /\ MsgOk(n, g)'
  <2>1. n \in Message
    BY <1>1, <1>3
  <2>2. MsgOk(n, g)
    BY <1>3 DEF MsgInv
  <2>3. n.pid \in Procs /\ n.pid # p
    BY <2>1, <2>2 DEF MsgOk, Message
  <2>4. MsgOk(n, g)'
    BY <1>1, <2>2, <2>3 DEF MsgOk
  <2> QED
    BY <2>3, <2>4
<1>4. Once(fifo[g])
  BY DEF MsgInv
<1>5. CASE g # g0
  <2>1. fifo'[g] = fifo[g]
    BY <1>5 DEF FairTypes
  <2> QED
    BY <1>2, <1>3, <1>4, <2>1
<1>6. CASE g = g0
  <2> DEFINE f == fifo[g]
  <2>1. fifo'[g] = Append(f, m)
    BY <1>6 DEF FairTypes
  <2>2. DOMAIN Append(f, m) = 1 .. Len(f) + 1 /\ DOMAIN f = 1 .. Len(f)
    BY <1>1, AppendProperties
  <2>3. \A i \in DOMAIN f : Append(f, m)[i] = f[i]
    BY <1>1, AppendProperties
  <2>4. Append(f, m)[Len(f) + 1] = m /\ Len(f) \in Nat
    BY <1>1, AppendProperties
  <2>5. \A i \in DOMAIN Append(f, m) : i \in DOMAIN f \/ i = Len(f) + 1
    BY <2>2, <2>4
  <2>6. ASSUME NEW i \in DOMAIN Append(f, m), NEW n, n = Append(f, m)[i] PROVE MsgOk(n, g)'
    BY <1>3, <1>6, <2>3, <2>4, <2>5, <2>6
  <2>7. Once(Append(f, m))
    <3>1. \A i \in DOMAIN f : Append(f, m)[i].pid # p
      BY <1>3, <2>3
    <3> QED
      BY <1>4, <2>3, <2>4, <2>5, <3>1 DEF Once
  <2> QED
    BY <1>2, <2>1, <2>6, <2>7
<1> QED
  BY <1>5, <1>6
\* Listener g reads the next message.
LEMMA MsgRead ==
    ASSUME FairTypes, MsgInv, NEW g0 \in GPUs, Read(g0) PROVE MsgInv'
<1> DEFINE m == Head(fifo[g0])
<1>1. /\ fifo[g0] \in Seq(Message) /\ fifo[g0] # <<>> /\ m \in Message
      /\ fifo' = [fifo EXCEPT ![g0] = Tail(@)] /\ lpc[g0] = "read"
  BY DEF Read, FairTypes
<1>2. UNCHANGED <<pc, target, running_gpu>>
  BY DEF Read, calls
<1>3. MsgOk(m, g0) /\ m = fifo[g0][1] /\ 1 \in DOMAIN fifo[g0]
  BY <1>1, HeadTailProperties DEF MsgInv
<1>4. \/ lpc'[g0] = "reply" /\ pcd'[g0] = m /\ m.action = "ADD_Q"
      \/ lpc'[g0] \notin Registering
  <2>1. \/ lpc' = [lpc EXCEPT ![g0] = "reply"] /\ pcd' = [pcd EXCEPT ![g0] = m] /\ m.action = "ADD_Q"
        \/ lpc' = [lpc EXCEPT ![g0] = "inactive"]
        \/ UNCHANGED lpc
    BY DEF Read
  <2> QED
    BY <1>1, <2>1 DEF FairTypes, Registering
<1>5. \A g \in GPUs : g # g0 => fifo'[g] = fifo[g] /\ lpc'[g] = lpc[g] /\ pcd'[g] = pcd[g]
  <2>1. \A g \in GPUs : g # g0 => fifo'[g] = fifo[g]
    BY <1>1 DEF FairTypes
  <2>2. \A g \in GPUs : g # g0 => lpc'[g] = lpc[g]
    BY DEF Read, FairTypes
  <2>3. pcd' = pcd \/ pcd' = [pcd EXCEPT ![g0] = m]
    BY DEF Read
  <2> QED
    BY <2>1, <2>2, <2>3 DEF FairTypes
<1> SUFFICES ASSUME NEW g \in GPUs
             PROVE  /\ \A i \in DOMAIN fifo'[g] : MsgOk(fifo[g][i], g)'
                    /\ Once(fifo'[g])
                    /\ ListenOk(g)'
  BY DEF MsgInv
<1> HIDE DEF m
<1>6. CASE g # g0
  <2>1. fifo'[g] = fifo[g] /\ lpc'[g] = lpc[g] /\ pcd'[g] = pcd[g]
    BY <1>5, <1>6
  <2>2. \A n : MsgOk(n, g) <=> MsgOk(n, g)'
    BY <1>2, <2>1 DEF MsgOk
  <2>3. ListenOk(g)'
    BY <1>2, <2>1 DEF MsgInv, ListenOk
  <2> QED
    BY <2>1, <2>2, <2>3 DEF MsgInv
<1>7. CASE g = g0
  <2>1. fifo'[g] = Tail(fifo[g]) /\ fifo[g] \in Seq(Message)
    BY <1>1, <1>7 DEF FairTypes
  <2>2. \A i \in DOMAIN Tail(fifo[g]) : i + 1 \in DOMAIN fifo[g] /\ i + 1 # 1
                                          /\ Tail(fifo[g])[i] = fifo[g][i + 1]
    <3>1. Len(Tail(fifo[g])) = Len(fifo[g]) - 1 /\ Len(fifo[g]) \in Nat
          /\ DOMAIN Tail(fifo[g]) = 1 .. Len(Tail(fifo[g])) /\ DOMAIN fifo[g] = 1 .. Len(fifo[g])
      BY <1>1, <1>7, HeadTailProperties
    <3>2. \A i \in 1 .. Len(Tail(fifo[g])) : Tail(fifo[g])[i] = fifo[g][i + 1]
      BY <1>1, <1>7, HeadTailProperties
    <3> QED
      BY <3>1, <3>2
  <2>3. Once(fifo[g])
    BY DEF MsgInv
  <2>4. Once(Tail(fifo[g]))
    <3>1. \A i, j \in DOMAIN Tail(fifo[g]) : i + 1 = j + 1 => i = j
      BY <1>1, <1>7, HeadTailProperties
    <3> QED
      BY <2>2, <2>3, <3>1 DEF Once
  <2>5. ASSUME NEW i \in DOMAIN Tail(fifo[g]), NEW n, n = Tail(fifo[g])[i] PROVE MsgOk(n, g)'
    <3>1. n = fifo[g][i + 1] /\ n \in Message /\ MsgOk(n, g)
      BY <2>1, <2>2, <2>5 DEF MsgInv
    <3>2. CASE n.action = "ADD_Q"
      <4>1. m.action = "ADD_Q" => m.pid # n.pid
        BY <1>3, <1>7, <2>2, <2>3, <3>1, <3>2 DEF Once
      <4> QED
        BY <1>2, <1>4, <1>7, <3>1, <3>2, <4>1 DEF MsgOk, Registering
    <3>3. CASE n.action # "ADD_Q"
      BY <1>2, <3>1, <3>3 DEF MsgOk
    <3> QED
      BY <3>2, <3>3
  <2>6. ListenOk(g)'
    BY <1>1, <1>2, <1>3, <1>4, <1>7 DEF ListenOk, MsgOk, Registering
  <2> QED
    BY <2>1, <2>4, <2>5, <2>6
<1> QED
  BY <1>6, <1>7

\* Every step keeps the invariant of the messages.
LEMMA MsgInvNext == FairTypes /\ MsgInv /\ PastInv /\ [Next]_vars => MsgInv'
<1> SUFFICES ASSUME FairTypes, MsgInv, PastInv, [Next]_vars PROVE MsgInv'
  OBVIOUS
<1>1. ASSUME NEW p \in Procs, P(p) \/ V(p) \/ Close(p) PROVE MsgInv'
  <2>1. UNCHANGED listeners
    BY <1>1 DEF P, V, Close
  <2>2. /\ \A q \in Procs : q # p => pc'[q] = pc[q] /\ target'[q] = target[q]
                                       /\ running_gpu'[q] = running_gpu[q]
        /\ pc[p] = "remV" => pc'[p] = "gone" /\ running_gpu' = running_gpu
        /\ pc[p] \notin {"addR", "gone"}
    BY <1>1 DEF P, V, Close, Go, FairTypes
  <2>3. MsgStay
    BY <2>1, <2>2 DEF MsgStay, listeners
  <2> QED
    BY <2>3, MsgKept
<1>2. ASSUME NEW p \in Procs, Send(p) PROVE MsgInv'
  <2>1. UNCHANGED <<lpc, pcd, target, running_gpu>>
    BY <1>2 DEF Send
  <2>2. CASE Go(p, "addS", "addR")
    <3>1. PICK g \in GPUs : g = target[p]
      BY DEF FairTypes
    <3>2. PICK m \in Message : m = [pid |-> p, action |-> "ADD_Q", gpuid |-> g]
      BY DEF Message
    <3>3. fifo' = [fifo EXCEPT ![g] = Append(@, m)] /\ pc' = [pc EXCEPT ![p] = "addR"]
          /\ pc[p] = "addS"
      BY <1>2, <2>2, <3>1, <3>2 DEF Send, Go
    <3>4. pc'[p] = "addR"
      BY <3>3 DEF FairTypes
    <3>5. lpc[g] = "reply" => pcd[g].pid # p
      BY <3>3 DEF MsgInv, ListenOk
    <3>6. MsgOk(m, g)'
      BY <2>1, <3>1, <3>2, <3>4, <3>5 DEF MsgOk
    <3>7. m.pid = p
      BY <3>2
    <3> QED
      BY <2>1, <3>3, <3>6, <3>7, MsgSent
  <2>3. CASE Go(p, "remS", "remV")
    <3>1. pc[p] = "remS" /\ pc' = [pc EXCEPT ![p] = "remV"]
      BY <2>3 DEF Go
    <3>2. PICK g \in GPUs : g = running_gpu[p]
      BY <3>1 DEF FairTypes, PastInv
    <3>3. PICK m \in Message : m = [pid |-> p, action |-> "REM_Q", gpuid |-> g]
      BY DEF Message
    <3>4. fifo' = [fifo EXCEPT ![g] = Append(@, m)]
      BY <1>2, <3>1, <3>2, <3>3 DEF Send, Go
    <3>5. pc'[p] = "remV"
      BY <3>1 DEF FairTypes
    <3>6. MsgOk(m, g)'
      BY <2>1, <3>2, <3>3, <3>5 DEF MsgOk
    <3>7. m.pid = p
      BY <3>3
    <3> QED
      BY <2>1, <3>1, <3>4, <3>6, <3>7, MsgSent
  <2> QED
    BY <1>2, <2>2, <2>3 DEF Send
<1>3. ASSUME NEW p \in Procs, Handshake(p) PROVE MsgInv'
  <2>1. PICK h \in GPUs : lpc[h] = "reply" /\ pcd[h].pid = p /\ lpc' = [lpc EXCEPT ![h] = "alarm"]
    BY <1>3 DEF Handshake
  <2>2. UNCHANGED <<pcd, fifo, target, running_gpu>> /\ pc[p] = "addR" /\ pc' = [pc EXCEPT ![p] = "addV"]
    BY <1>3 DEF Handshake, Go
  <2>3. target[p] = h
    BY <2>1 DEF MsgInv, ListenOk
  <2>4. /\ lpc'[h] = "alarm" /\ \A g \in GPUs : g # h => lpc'[g] = lpc[g]
        /\ \A q \in Procs : q # p => pc'[q] = pc[q]
    BY <2>1, <2>2 DEF FairTypes
  <2> SUFFICES ASSUME NEW g \in GPUs
               PROVE  (\A i \in DOMAIN fifo[g] : MsgOk(fifo[g][i], g)') /\ Once(fifo[g]) /\ ListenOk(g)'
    BY <2>2 DEF MsgInv
  <2>5. ListenOk(g)'
    <3>1. CASE g = h
      BY <2>1, <2>2, <2>4, <3>1 DEF MsgInv, ListenOk, Registering
    <3>2. CASE g # h
      <4>1. lpc[g] = "reply" => pcd[g] \in Message /\ pcd[g].pid # p
        BY <2>3, <3>2 DEF MsgInv, ListenOk, Registering
      <4>2. lpc[g] = "reply" => pcd[g].pid \in Procs
        BY <4>1 DEF Message
      <4> QED
        BY <2>2, <2>4, <3>2, <4>1, <4>2 DEF MsgInv, ListenOk
    <3> QED
      BY <3>1, <3>2
  <2>6. ASSUME NEW i \in DOMAIN fifo[g] PROVE MsgOk(fifo[g][i], g)'
    <3>1. PICK n \in Message : n = fifo[g][i]
      BY <2>6 DEF FairTypes
    <3>2. MsgOk(n, g) /\ n.pid \in Procs
      BY <2>6, <3>1 DEF MsgInv, Message
    <3>3. n.pid # p
      BY <2>1, <2>2, <2>3, <3>2 DEF MsgOk
    <3>4. lpc'[g] = "reply" => lpc[g] = "reply"
      BY <2>4
    <3>5. MsgOk(n, g)'
      BY <2>2, <2>4, <3>2, <3>3, <3>4 DEF MsgOk
    <3> QED
      BY <2>2, <3>1, <3>5
  <2> QED
    BY <2>5, <2>6 DEF MsgInv
<1>4. ASSUME NEW p \in Procs, NEW g \in GPUs, SetDevice(p, g) PROVE MsgInv'
  <2>1. UNCHANGED <<listeners, running_gpu>>
    BY <1>4 DEF SetDevice
  <2>2. /\ pc[p] \in {"new", "serve"} /\ target' = [target EXCEPT ![p] = g]
        /\ \E to \in {"addP", "lostP", "gone"} : pc' = [pc EXCEPT ![p] = to]
    BY <1>4 DEF SetDevice, Go
  <2>3. MsgStay
    BY <2>1, <2>2 DEF MsgStay, listeners, FairTypes
  <2> QED
    BY <2>3, MsgKept
<1>5. ASSUME NEW p \in Procs, SigSchedule(p) \/ Wake(p) \/ Expire(p) PROVE MsgInv'
  <2>1. UNCHANGED <<listeners, calls>>
    BY <1>5 DEF SigSchedule, Wake, Expire
  <2> QED
    BY <2>1, MsgKept DEF MsgStay, listeners, calls
<1>6. ASSUME NEW p \in Procs, Killed(p) PROVE MsgInv'
  <2>1. UNCHANGED <<listeners, target, running_gpu>> /\ pc' = [pc EXCEPT ![p] = "dead"]
    BY <1>6 DEF Killed
  <2>2. pc[p] \notin {"addR", "remV", "gone"}
    BY <1>6 DEF Killed, PastInv, Blocked, Alive
  <2>3. MsgStay
    BY <2>1, <2>2 DEF MsgStay, listeners, FairTypes
  <2> QED
    BY <2>3, MsgKept
<1>7. ASSUME NEW g \in GPUs,
             WriteMapping(g) \/ Start(g) \/ Remove(g) \/ SendAlarm(g) \/ RegPid(g) \/ RegActive(g) \/ RegGpu(g)
      PROVE  MsgInv'
  <2>1. UNCHANGED <<fifo, pcd, calls>>
    BY <1>7 DEF WriteMapping, Start, Remove, SendAlarm, RegPid, RegActive, RegGpu
  <2>2. \A h \in GPUs : /\ lpc'[h] \in Registering => lpc[h] \in Registering
                        /\ lpc'[h] = "reply" => lpc[h] = "reply"
    BY <1>7 DEF WriteMapping, Start, Remove, SendAlarm, RegPid, RegActive, RegGpu, FairTypes, Registering
  <2> QED
    BY <2>1, <2>2, MsgKept DEF MsgStay, calls
<1>8. ASSUME NEW g \in GPUs, RegCount(g) PROVE MsgInv'
  <2>1. /\ UNCHANGED <<fifo, calls>> /\ lpc' = [lpc EXCEPT ![g] = "read"]
        /\ pcd' = [pcd EXCEPT ![g] = NoMessage]
    BY <1>8 DEF RegCount
  <2>2. \A h \in GPUs : /\ lpc'[h] \in Registering => lpc[h] \in Registering /\ pcd'[h] = pcd[h]
                        /\ lpc'[h] = "reply" => lpc[h] = "reply"
    BY <2>1 DEF FairTypes, Registering
  <2> QED
    BY <2>1, <2>2, MsgKept DEF MsgStay, calls
<1>9. ASSUME NEW g \in GPUs, (\E s \in Slots : Pick(g, s)) \/ Dispatch(g) PROVE MsgInv'
  <2>1. UNCHANGED <<listeners, calls>>
    BY <1>9 DEF Pick, Dispatch
  <2> QED
    BY <2>1, MsgKept DEF MsgStay, listeners, calls
<1>10. CASE UNCHANGED vars
  BY <1>10, MsgKept DEF MsgStay, vars, listeners, calls
<1> QED
  BY <1>1, <1>2, <1>3, <1>4, <1>5, <1>6, <1>7, <1>8, <1>9, <1>10, MsgRead, FairSteps
-----------------------------------------------------------------------------
(* Who has been answered.                                                   *)

\* Only an answer adds to those that have been answered.
LEMMA PastSame ==
    ASSUME FairTypes, PastInv, NEW p \in Procs,
           \/ P(p) \/ Send(p) \/ V(p) \/ Close(p) \/ Killed(p) \/ \E g \in GPUs : SetDevice(p, g)
    PROVE  Past' = Past
<1>1. \A q \in Procs : q # p => pc'[q] = pc[q] /\ running_gpu'[q] = running_gpu[q]
  BY DEF P, Send, V, Close, Killed, SetDevice, Go, FairTypes
<1>2. p \in Past <=> running_gpu'[p] # NoGpu \/ pc'[p] \in {"addV", "dead"}
  <2>1. CASE V(p)
    <3>1. CASE Go(p, "addV", "serve")
      <4>1. running_gpu'[p] = target[p] /\ pc[p] = "addV" /\ target[p] \in GPUs
        BY <2>1, <3>1 DEF V, Go, FairTypes
      <4> QED
        BY <4>1, GpuSlots DEF Past
    <3>2. CASE Go(p, "remV", "gone")
      BY <2>1, <3>2 DEF V, Go, FairTypes, PastInv, Past
    <3> QED
      BY <2>1, <3>1, <3>2 DEF V
  <2>2. CASE Killed(p)
    BY <2>2 DEF Killed, FairTypes, PastInv
  <2>3. CASE P(p) \/ Send(p) \/ Close(p) \/ \E g \in GPUs : SetDevice(p, g)
    BY <2>3 DEF P, Send, Close, SetDevice, Go, FairTypes, Past
  <2> QED
    BY <2>1, <2>2, <2>3
<1> QED
  BY <1>1, <1>2 DEF Past

\* An answer adds the process that gets it.
LEMMA PastAnswered ==
    ASSUME FairTypes, NEW p \in Procs, Handshake(p) PROVE Past' = Past \cup {p}
  BY DEF Handshake, Go, FairTypes, Past

\* Every step keeps the account of who has been answered.
LEMMA PastInvNext == FairTypes /\ MsgInv /\ PastInv /\ [Next]_vars => PastInv'
<1> SUFFICES ASSUME FairTypes, MsgInv, PastInv, [Next]_vars PROVE PastInv'
  OBVIOUS
<1>1. ASSUME NEW p \in Procs,
             P(p) \/ Send(p) \/ V(p) \/ Close(p) \/ \E g \in GPUs : SetDevice(p, g)
      PROVE  PastInv'
  <2>1. Past' = Past
    BY <1>1, PastSame
  <2>2. UNCHANGED <<process_list, process_id, lpc, pcd, sched, asleep>>
    BY <1>1 DEF P, Send, V, Close, SetDevice, table, listeners, controls, signals
  <2>3. /\ ~ asleep[p]
        /\ \A q \in Procs : q # p => pc'[q] = pc[q] /\ running_gpu'[q] = running_gpu[q]
                                       /\ adds'[q] = adds[q]
    BY <1>1 DEF P, Send, V, Close, SetDevice, Go, FairTypes
  <2>4. pc'[p] \in {"serve", "remP", "remS", "remV"} => running_gpu'[p] # NoGpu
    <3>1. CASE V(p)
      <4>1. pc'[p] = "serve" => running_gpu'[p] = target[p] /\ target[p] \in GPUs
        BY <3>1 DEF V, Go, FairTypes
      <4>2. pc'[p] \in {"serve", "gone"}
        BY <3>1 DEF V, Go, FairTypes
      <4> QED
        BY <4>1, <4>2, GpuSlots
    <3>2. CASE P(p) \/ Send(p) \/ Close(p) \/ \E g \in GPUs : SetDevice(p, g)
      BY <3>2 DEF P, Send, Close, SetDevice, Go, FairTypes, PastInv
    <3> QED
      BY <1>1, <3>1, <3>2
  <2>5. p \in Past \/ pc'[p] \in {"addP", "addS", "addR"} => adds'[p] > 0
    <3>1. CASE \E g \in GPUs : SetDevice(p, g)
      <4>1. adds' = [adds EXCEPT ![p] = @ + 1]
        BY <3>1 DEF SetDevice
      <4> QED
        BY <4>1 DEF FairTypes
    <3>2. CASE P(p) \/ Send(p) \/ V(p) \/ Close(p)
      BY <3>2 DEF P, Send, V, Close, Go, FairTypes, PastInv
    <3> QED
      BY <1>1, <3>1, <3>2
  <2>6. IsFiniteSet(Started')
    <3>1. Started' \subseteq Started \cup {p}
      BY <2>3 DEF Started
    <3>2. IsFiniteSet(Started \cup {p})
      BY FS_AddElement DEF PastInv
    <3> QED
      BY <3>1, <3>2, FS_Subset
  <2>7. ASSUME NEW q \in Procs
        PROVE  /\ sched'[q] => q \in Past'
               /\ asleep'[q] => ~ Blocked(q)'
               /\ q \in Past' \/ pc'[q] \in {"addP", "addS", "addR"} => adds'[q] > 0
               /\ pc'[q] \in {"serve", "remP", "remS", "remV"} => running_gpu'[q] # NoGpu
    <3>1. CASE q = p
      BY <2>1, <2>2, <2>3, <2>4, <2>5, <3>1 DEF PastInv
    <3>2. CASE q # p
      BY <2>1, <2>2, <2>3, <3>2 DEF PastInv, Blocked
    <3> QED
      BY <3>1, <3>2
  <2>8. /\ \A s \in Slots : process_list'[s] \in Past' \cup {None}
        /\ \A g \in GPUs : process_id'[g] \in Past' \cup {None}
        /\ \A g \in GPUs : lpc'[g] \in EnterPlaces => pcd'[g].pid \in Past'
    BY <2>1, <2>2 DEF PastInv
  <2> QED
    BY <2>6, <2>7, <2>8 DEF PastInv
<1>2. ASSUME NEW p \in Procs, Handshake(p) PROVE PastInv'
  <2>1. Past' = Past \cup {p}
    BY <1>2, PastAnswered
  <2>2. /\ UNCHANGED <<process_list, process_id, pcd, sched, asleep, running_gpu, adds>>
        /\ pc[p] = "addR" /\ pc' = [pc EXCEPT ![p] = "addV"] /\ ~ asleep[p]
    BY <1>2 DEF Handshake, Go, table, controls, signals
  <2>3. \A g \in GPUs : lpc'[g] \in EnterPlaces => lpc[g] \in EnterPlaces \/ pcd[g].pid = p
    BY <1>2 DEF Handshake, FairTypes
  <2>4. pc'[p] = "addV" /\ \A q \in Procs : q # p => pc'[q] = pc[q]
    BY <2>2 DEF FairTypes
  <2>5. Started' = Started
    BY <2>2 DEF Started
  <2>6. ASSUME NEW q \in Procs
        PROVE  /\ sched'[q] => q \in Past'
               /\ asleep'[q] => ~ Blocked(q)'
               /\ q \in Past' \/ pc'[q] \in {"addP", "addS", "addR"} => adds'[q] > 0
               /\ pc'[q] \in {"serve", "remP", "remS", "remV"} => running_gpu'[q] # NoGpu
    BY <2>1, <2>2, <2>4 DEF PastInv, Blocked
  <2> QED
    BY <2>1, <2>2, <2>3, <2>5, <2>6 DEF PastInv
<1>3. ASSUME NEW p \in Procs, SigSchedule(p) \/ Wake(p) \/ Expire(p) PROVE PastInv'
  <2>1. UNCHANGED <<process_list, process_id, lpc, pcd, pc, running_gpu, adds>>
    BY <1>3 DEF SigSchedule, Wake, Expire, table, listeners, controls, calls
  <2>2. Past' = Past /\ Started' = Started
    BY <2>1 DEF Past, Started
  <2>3. \A q \in Procs : (sched'[q] => sched[q]) /\ (asleep'[q] => asleep[q] \/ ~ Blocked(q))
    BY <1>3 DEF SigSchedule, Wake, Expire, FairTypes
  <2> QED
    BY <2>1, <2>2, <2>3 DEF PastInv, Blocked
<1>4. ASSUME NEW p \in Procs, Killed(p) PROVE PastInv'
  <2>1. UNCHANGED <<process_list, process_id, lpc, pcd, running_gpu, adds>>
    BY <1>4 DEF Killed, table, listeners, controls
  <2>2. Past' = Past /\ Started' = Started
    BY <1>4, <2>1, PastSame DEF Started
  <2>3. /\ pc'[p] = "dead" /\ \A q \in Procs : q # p => pc'[q] = pc[q]
        /\ \A q \in Procs : (sched'[q] => sched[q]) /\ (asleep'[q] => asleep[q] /\ q # p)
    BY <1>4 DEF Killed, FairTypes
  <2>4. ASSUME NEW q \in Procs
        PROVE  /\ sched'[q] => q \in Past'
               /\ asleep'[q] => ~ Blocked(q)'
               /\ q \in Past' \/ pc'[q] \in {"addP", "addS", "addR"} => adds'[q] > 0
               /\ pc'[q] \in {"serve", "remP", "remS", "remV"} => running_gpu'[q] # NoGpu
    BY <2>1, <2>2, <2>3 DEF PastInv, Blocked
  <2>5. IsFiniteSet(Started')
    BY <2>2 DEF PastInv
  <2>6. /\ \A s \in Slots : process_list'[s] \in Past' \cup {None}
        /\ \A g \in GPUs : process_id'[g] \in Past' \cup {None}
        /\ \A g \in GPUs : lpc'[g] \in EnterPlaces => pcd'[g].pid \in Past'
    BY <2>1, <2>2 DEF PastInv
  <2> QED
    BY <2>4, <2>5, <2>6 DEF PastInv
<1>5. ASSUME NEW g \in GPUs, ListenStep(g) PROVE PastInv'
  <2>1. UNCHANGED <<process_id, sched, asleep, pc, running_gpu, adds>>
    BY <1>5 DEF ListenStep, WriteMapping, Start, Read, Remove, SendAlarm, RegPid, RegActive, RegGpu, RegCount,
                controls, signals, calls
  <2>2. Past' = Past /\ Started' = Started
    BY <2>1 DEF Past, Started
  <2>3. \A s \in Slots : process_list'[s] \in Past \cup {None}
    <3>1. CASE RegPid(g)
      BY <3>1 DEF RegPid, PastInv, FairTypes, EnterPlaces
    <3>2. CASE Read(g)
      <4>1. process_list' = process_list
            \/ \E k : process_list' = [process_list EXCEPT ![k] = None]
        BY <3>2 DEF Read
      <4> QED
        BY <4>1 DEF PastInv, FairTypes
    <3>3. CASE UNCHANGED process_list
      BY <3>3 DEF PastInv
    <3> QED
      BY <1>5, <3>1, <3>2, <3>3
      DEF ListenStep, WriteMapping, Start, Remove, SendAlarm, RegActive, RegGpu, RegCount, table
  <2>4. \A h \in GPUs : lpc'[h] \in EnterPlaces => lpc[h] \in EnterPlaces /\ pcd'[h] = pcd[h]
    <3>1. CASE Read(g)
      <4>1. /\ lpc' = lpc /\ pcd' = pcd
            \/ \E to \in {"reply", "inactive"} : lpc' = [lpc EXCEPT ![g] = to]
        BY <3>1 DEF Read
      <4>2. pcd' = pcd \/ \E m : pcd' = [pcd EXCEPT ![g] = m]
        BY <3>1 DEF Read
      <4> QED
        BY <4>1, <4>2 DEF FairTypes, EnterPlaces
    <3>2. CASE ~ Read(g)
      BY <1>5, <3>2 DEF ListenStep, WriteMapping, Start, Remove, SendAlarm, RegPid, RegActive, RegGpu, RegCount,
                        EnterPlaces, FairTypes
    <3> QED
      BY <3>1, <3>2
  <2> QED
    BY <2>1, <2>2, <2>3, <2>4 DEF PastInv, Blocked
<1>6. ASSUME NEW g \in GPUs, (\E s \in Slots : Pick(g, s)) \/ Dispatch(g) PROVE PastInv'
  <2>1. UNCHANGED <<process_list, lpc, pcd, asleep, pc, running_gpu, adds>>
    BY <1>6 DEF Pick, Dispatch, Signal, table, listeners, signals, calls
  <2>2. Past' = Past /\ Started' = Started
    BY <2>1 DEF Past, Started
  <2>3. \A h \in GPUs : process_id'[h] \in Past \cup {None}
    BY <1>6 DEF Pick, Dispatch, PastInv, FairTypes
  <2>4. \A q \in Procs : sched'[q] => sched[q] \/ q \in Past
    <3>1. None \notin Procs
      BY FairShareAssumption
    <3>2. \A q \in Procs : sched'[q] => sched[q] \/ q = process_id[g]
      BY <1>6 DEF Pick, Dispatch, Signal, signals
    <3> QED
      BY <3>1, <3>2 DEF PastInv
  <2> QED
    BY <2>1, <2>2, <2>3, <2>4 DEF PastInv, Blocked
<1>7. CASE UNCHANGED vars
  <2>1. Past' = Past /\ Started' = Started /\ \A q \in Procs : Blocked(q)' <=> Blocked(q)
    BY <1>7 DEF Past, Started, Blocked, vars, calls
  <2> QED
    BY <1>7, <2>1 DEF PastInv, vars, table, listeners, controls, signals, calls
<1> QED
  BY <1>1, <1>2, <1>3, <1>4, <1>5, <1>6, <1>7 DEF Next, ProcStep, SignalStep, ControlStep
-----------------------------------------------------------------------------
(* The slots.                                                               *)

\* No more processes have been answered than have asked.
LEMMA PastFinite ==
    ASSUME PastInv
    PROVE  /\ IsFiniteSet(Past) /\ IsFiniteSet(Started) /\ Past \subseteq Started
           /\ Cardinality(Past) \in Nat /\ Cardinality(Started) \in Nat
           /\ Cardinality(Past) =< Cardinality(Started)
<1>1. Past \subseteq Started
  BY DEF PastInv, Past, Started
<1>2. IsFiniteSet(Started)
  BY DEF PastInv
<1> QED
  BY <1>1, <1>2, FS_Subset, FS_CardinalityType

\* What makes the state calm cannot come back once it is lost.
LEMMA CalmBefore ==
    ASSUME FairTypes, PastInv, PastInv', [Next]_vars, Calm' PROVE Calm
<1>1. adds' = adds \/ \E p \in Procs : adds' = [adds EXCEPT ![p] = @ + 1]
  <2>1. ASSUME NEW p \in Procs, NEW g \in GPUs, SetDevice(p, g)
        PROVE  adds' = [adds EXCEPT ![p] = @ + 1]
    BY <2>1 DEF SetDevice
  <2>2. ASSUME NEW p \in Procs, ProcStep(p) \/ SignalStep(p) \/ Close(p) PROVE adds' = adds
    BY <2>2 DEF ProcStep, P, Send, Handshake, V, SignalStep, SigSchedule, Wake, Killed, Expire, Close,
                calls
  <2>3. ASSUME NEW g \in GPUs, ListenStep(g) \/ ControlStep(g) PROVE adds' = adds
    BY <2>3 DEF ListenStep, WriteMapping, Start, Read, Remove, SendAlarm, RegPid, RegActive, RegGpu, RegCount,
                ControlStep, Pick, Dispatch, calls
  <2>4. CASE UNCHANGED vars
    BY <2>4 DEF vars, calls
  <2> QED
    BY <2>1, <2>2, <2>3, <2>4 DEF Next
<1>2. Started \subseteq Started'
  <2>1. ASSUME NEW q \in Procs, adds[q] > 0 PROVE adds'[q] > 0
    <3>1. adds[q] \in Nat /\ adds[q] + 1 > 0
      BY <2>1 DEF FairTypes
    <3>2. adds'[q] = adds[q] \/ adds'[q] = adds[q] + 1
      BY <1>1 DEF FairTypes
    <3> QED
      BY <2>1, <3>1, <3>2
  <2> QED
    BY <2>1 DEF Started
<1>3. Cardinality(Started) \in Nat /\ Cardinality(Started') \in Nat
      /\ Cardinality(Started) =< Cardinality(Started')
  BY <1>2, FS_Subset, FS_CardinalityType DEF PastInv
<1>4. overlap => overlap'
  <2>1. ASSUME NEW p \in Procs, ProcStep(p) \/ SignalStep(p) \/ Close(p) \/ \E g \in GPUs : SetDevice(p, g)
        PROVE  overlap' = overlap
    BY <2>1 DEF ProcStep, P, Send, Handshake, V, SignalStep, SigSchedule, Wake, Killed, Expire, Close,
                SetDevice, table
  <2>2. ASSUME NEW g \in GPUs, Read(g), overlap PROVE overlap'
    BY <2>2 DEF Read
  <2>3. ASSUME NEW g \in GPUs, ListenStep(g) \/ ControlStep(g), ~ Read(g) PROVE overlap' = overlap
    BY <2>3 DEF ListenStep, WriteMapping, Start, Remove, SendAlarm, RegPid, RegActive, RegGpu, RegCount,
                ControlStep, Pick, Dispatch, table
  <2>4. CASE UNCHANGED vars
    BY <2>4 DEF vars, table
  <2> QED
    BY <2>1, <2>2, <2>3, <2>4 DEF Next
<1>5. N \in Nat
  BY GpuSlots
<1> QED
  BY <1>3, <1>4, <1>5 DEF Calm

\* The listeners go on without passing from one part of a registration to the next.
ListenStay ==
    \A g \in GPUs :
      /\ lpc'[g] = "reply" <=> lpc[g] = "reply"
      /\ lpc'[g] \in {"alarm", "list"} <=> lpc[g] \in {"alarm", "list"}
      /\ lpc'[g] \in {"active", "gpu", "count"} <=> lpc[g] \in {"active", "gpu", "count"}
      /\ lpc'[g] = "count" => lpc[g] = "count"

\* No process is registered anew, and none loses the GPU it has.
ProcsStay ==
    \A p \in Procs :
      /\ pc[p] \in {"dead", "gone", "remV"} => pc'[p] \in {"dead", "gone", "remV"}
      /\ p \in Past => \A g \in GPUs : Home(p, g) => Home(p, g)'
      /\ pc'[p] = "addV" => running_gpu'[p] = NoGpu

\* Such a step leaves the slots in order.
LEMMA SeatsKept ==
    ASSUME FairTypes, MsgInv, PastInv, SeatsOk, Past' = Past,
           UNCHANGED <<process_list, gpu_binding, count, pcd>>, ListenStay, ProcsStay
    PROVE  SeatsOk'
<1>1. /\ \A g \in GPUs : lpc'[g] \in EnterPlaces <=> lpc[g] \in EnterPlaces
      /\ \A g \in GPUs : lpc'[g] \in Registering <=> lpc[g] \in Registering
  BY DEF ListenStay, EnterPlaces, Registering
<1>3. (Entering' <=> Entering) /\ Filled' = Filled
  BY <1>1 DEF Filled, Entering
<1>4. CountOk' /\ OneEnters'
  BY <1>1, <1>3 DEF SeatsOk, CountOk, OneEnters
<1>5. ASSUME NEW g \in GPUs PROVE EnterOk(g)'
  <2>1. EnterOk(g) /\ ListenOk(g)
    BY DEF SeatsOk, MsgInv
  <2>2. lpc[g] \in EnterPlaces => pcd[g].pid \in Procs
    BY <2>1 DEF ListenOk, EnterPlaces, Registering, Message
  <2>3. ASSUME NEW p \in Procs, p = pcd[g].pid, lpc[g] \in EnterPlaces PROVE Home(p, g)'
    BY <2>1, <2>3 DEF EnterOk, PastInv, ProcsStay
  <2>4. ASSUME NEW p \in Procs, p = pcd[g].pid, Home(p, g)' PROVE Home(pcd[g].pid, g)'
    BY <2>4 DEF Home
  <2>5. lpc'[g] \in EnterPlaces => Home(pcd[g].pid, g)'
    BY <1>1, <2>2, <2>3, <2>4
  <2>6. lpc'[g] = "reply" => pcd'[g].pid \notin Past'
    BY <2>1 DEF EnterOk, ListenStay
  <2>7. /\ lpc'[g] \in {"alarm", "list"} => \A u \in Slots : process_list'[u] # pcd'[g].pid
        /\ lpc'[g] \in {"active", "gpu", "count"} => Has(pcd[g].pid, count)'
        /\ lpc'[g] = "count" => gpu_binding'[count'] = g
    BY <2>1 DEF EnterOk, ListenStay, Has
  <2> QED
    BY <2>5, <2>6, <2>7 DEF EnterOk
<1>6. ASSUME NEW p \in Procs, Settled(p)' PROVE Seated(p)'
  <2>1. Settled(p)
    BY <1>1, <1>6 DEF Settled, ProcsStay
  <2>2. PICK s \in Slots : s < Filled /\ Home(p, gpu_binding[s]) /\ Has(p, s)
    BY <2>1 DEF SeatsOk, Seated
  <2>3. gpu_binding[s] \in GPUs /\ p \in Past
    BY <2>1 DEF FairTypes, Settled
  <2>4. \A g \in GPUs : g = gpu_binding[s] => Home(p, g)'
    BY <2>2, <2>3 DEF ProcsStay
  <2>5. Home(p, gpu_binding[s])'
    BY <2>3, <2>4 DEF Home
  <2>6. Has(p, s)'
    BY <2>2 DEF Has
  <2> QED
    BY <1>3, <2>2, <2>5, <2>6 DEF Seated
<1> QED
  BY <1>4, <1>5, <1>6 DEF SeatsOk, ProcsStay
\* A process answers: it will be entered in the next slot.
LEMMA SeatsAnswered ==
    ASSUME FairTypes, MsgInv, PastInv, Calm, SeatsOk, NEW p \in Procs, Handshake(p)
    PROVE  SeatsOk'
<1>1. PICK h \in GPUs : lpc[h] = "reply" /\ pcd[h].pid = p /\ lpc' = [lpc EXCEPT ![h] = "alarm"]
  BY DEF Handshake
<1>2. UNCHANGED <<process_list, gpu_binding, count, pcd, target, running_gpu>>
      /\ pc[p] = "addR" /\ pc' = [pc EXCEPT ![p] = "addV"]
  BY DEF Handshake, Go, table
<1>3. Past' = Past \cup {p}
  BY PastAnswered
<1>4. p \notin Past /\ target[p] = h
  BY <1>1 DEF SeatsOk, EnterOk, MsgInv, ListenOk
<1>5. running_gpu[p] = NoGpu /\ p \in Started
  BY <1>2, <1>4 DEF Past, PastInv, Started
<1>6. /\ lpc'[h] = "alarm" /\ \A g \in GPUs : g # h => lpc'[g] = lpc[g]
      /\ pc'[p] = "addV" /\ \A q \in Procs : q # p => pc'[q] = pc[q]
  BY <1>1, <1>2 DEF FairTypes
<1>7. \A g \in GPUs : g # h => lpc'[g] \notin Registering /\ lpc[g] \notin Registering
  BY <1>1, <1>6 DEF SeatsOk, OneEnters, Registering
<1>8. \A g \in GPUs : lpc[g] \notin EnterPlaces
  BY <1>1, <1>7 DEF Registering, EnterPlaces
<1>9. ~ Entering /\ Entering'
  BY <1>6, <1>8 DEF Entering, EnterPlaces
<1>10. /\ Cardinality(Past \cup {p}) = Cardinality(Past) + 1
       /\ Cardinality(Past \cup {p}) =< Cardinality(Started)
       /\ Cardinality(Past) \in Nat /\ Cardinality(Started) \in Nat
  <2>1. Past \cup {p} \subseteq Started
    BY <1>5, PastFinite
  <2> QED
    BY <1>4, <2>1, PastFinite, FS_AddElement, FS_Subset
<1>11. Filled' = Filled /\ Filled < N /\ Filled \in Nat
  BY <1>3, <1>9, <1>10, GpuSlots DEF Filled, Calm
<1>12. CountOk'
  BY <1>2, <1>11 DEF SeatsOk, CountOk
<1>13. OneEnters'
  BY <1>7 DEF OneEnters
<1>14. ASSUME NEW g \in GPUs PROVE EnterOk(g)'
  <2>1. CASE g # h
    BY <1>7, <2>1 DEF EnterOk, Registering, EnterPlaces
  <2>2. CASE g = h
    <3>1. Home(p, g)'
      BY <1>2, <1>4, <1>5, <2>2 DEF Home
    <3>2. Home(pcd[g].pid, g)'
      BY <1>1, <1>2, <2>2, <3>1 DEF Home
    <3>3. \A u \in Slots : process_list'[u] # pcd'[g].pid
      BY <1>1, <1>2, <1>4, <2>2, FairShareAssumption DEF PastInv
    <3> QED
      BY <1>6, <2>2, <3>2, <3>3 DEF EnterOk
  <2> QED
    BY <2>1, <2>2
<1>15. ASSUME NEW q \in Procs PROVE /\ Settled(q)' => Seated(q)'
                                    /\ pc'[q] = "addV" => running_gpu'[q] = NoGpu
  <2>1. CASE q = p
    BY <1>1, <1>2, <1>5, <1>6, <2>1 DEF Settled, EnterPlaces
  <2>2. CASE q # p
    <3>1. Settled(q)' => Settled(q)
      BY <1>3, <1>6, <1>8, <2>2 DEF Settled
    <3>2. Seated(q) => Seated(q)'
      BY <1>2, <1>6, <1>11, <2>2 DEF Seated, Home, Has
    <3> QED
      BY <1>2, <1>6, <2>2, <3>1, <3>2 DEF SeatsOk
  <2> QED
    BY <2>1, <2>2
<1> QED
  BY <1>12, <1>13, <1>14, <1>15 DEF SeatsOk

\* While listener g enters a process, the next slot is free for it.
LEMMA NextSlot ==
    ASSUME FairTypes, MsgInv, PastInv, SeatsOk, NEW g \in GPUs, lpc[g] \in EnterPlaces
    PROVE  /\ count = Filled /\ Filled < N /\ Filled \in Nat /\ Filled = Cardinality(Past) - 1
           /\ pcd[g] \in Message /\ pcd[g].gpuid = g /\ pcd[g].pid \in Procs /\ pcd[g].pid \in Past
           /\ \A h \in GPUs : h # g => lpc[h] \notin Registering
           /\ \A q \in Procs : Settled(q) => q # pcd[g].pid
<1>1. Entering /\ lpc[g] \in Registering
  BY DEF Entering, EnterPlaces, Registering
<1>2. Filled = Cardinality(Past) - 1
  BY <1>1 DEF Filled
<1>3. Filled < N /\ Filled \in Nat /\ count = Filled % N
  BY <1>1 DEF SeatsOk, CountOk
<1>4. count = Filled
  BY <1>3, FairShareAssumption
<1>5. pcd[g] \in Message /\ pcd[g].gpuid = g
  BY <1>1 DEF MsgInv, ListenOk
<1>6. pcd[g].pid \in Procs /\ pcd[g].pid \in Past
  BY <1>5 DEF Message, PastInv
<1>7. \A h \in GPUs : h # g => lpc[h] \notin Registering
  BY <1>1 DEF SeatsOk, OneEnters
<1> QED
  BY <1>2, <1>3, <1>4, <1>5, <1>6, <1>7 DEF Settled
\* The process is entered: slot number Filled becomes its own.
LEMMA SeatsListed ==
    ASSUME FairTypes, MsgInv, PastInv, SeatsOk, NEW g \in GPUs, RegPid(g)
    PROVE  SeatsOk'
<1>1. /\ lpc[g] = "list" /\ lpc' = [lpc EXCEPT ![g] = "active"]
      /\ process_list' = [process_list EXCEPT ![count] = pcd[g].pid]
      /\ UNCHANGED <<gpu_binding, count, pcd, pc, target, running_gpu>>
  BY DEF RegPid, calls
<1> DEFINE p == pcd[g].pid
<1>2. /\ count = Filled /\ Filled < N /\ Filled \in Nat /\ p \in Procs
      /\ \A h \in GPUs : h # g => lpc[h] \notin Registering
      /\ \A q \in Procs : Settled(q) => q # p
  BY <1>1, NextSlot DEF EnterPlaces
<1>3. /\ lpc'[g] = "active" /\ \A h \in GPUs : h # g => lpc'[h] = lpc[h]
      /\ process_list'[count] = p /\ \A s \in Slots : s # count => process_list'[s] = process_list[s]
      /\ count \in Slots
  BY <1>1 DEF FairTypes
<1>4. \A h \in GPUs : lpc'[h] \in EnterPlaces <=> lpc[h] \in EnterPlaces
  BY <1>1, <1>3 DEF EnterPlaces
<1>5. Past' = Past /\ (Entering' <=> Entering) /\ \A q \in Procs, h \in GPUs : Home(q, h)' <=> Home(q, h)
  BY <1>1, <1>4 DEF Past, Entering, Home
<1>6. Filled' = Filled
  BY <1>5 DEF Filled
<1>7. CountOk' /\ OneEnters'
  BY <1>1, <1>2, <1>3, <1>5, <1>6 DEF SeatsOk, CountOk, OneEnters
<1>8. \A u \in Slots : process_list[u] # p
  BY <1>1 DEF SeatsOk, EnterOk
<1>9. ASSUME NEW h \in GPUs PROVE EnterOk(h)'
  <2>1. CASE h # g
    BY <1>2, <1>3, <2>1 DEF EnterOk, Registering, EnterPlaces
  <2>2. CASE h = g
    <3>1. Home(p, g)
      BY <1>1 DEF SeatsOk, EnterOk, EnterPlaces
    <3>2. Home(p, g)'
      BY <1>1, <3>1 DEF Home
    <3>3. Has(p, count)'
      BY <1>1, <1>3, <1>8 DEF Has
    <3> QED
      BY <1>3, <2>2, <3>2, <3>3 DEF EnterOk
  <2> QED
    BY <2>1, <2>2
<1>10. ASSUME NEW q \in Procs, Settled(q)' PROVE Seated(q)'
  <2>1. Settled(q)
    BY <1>1, <1>4, <1>5, <1>10 DEF Settled
  <2>2. PICK s \in Slots : s < Filled /\ Home(q, gpu_binding[s]) /\ Has(q, s)
    BY <2>1 DEF SeatsOk, Seated
  <2>3. s # count /\ q # p
    BY <1>2, <2>1, <2>2 DEF Slots
  <2>4. Has(q, s)'
    BY <1>3, <2>2, <2>3 DEF Has
  <2>5. Home(q, gpu_binding[s])'
    BY <1>1, <2>2 DEF Home
  <2> QED
    BY <1>6, <2>2, <2>4, <2>5 DEF Seated
<1>11. \A q \in Procs : pc'[q] = "addV" => running_gpu'[q] = NoGpu
  BY <1>1 DEF SeatsOk
<1> QED
  BY <1>7, <1>9, <1>10, <1>11 DEF SeatsOk

\* Its slot gets its GPU.
LEMMA SeatsBound ==
    ASSUME FairTypes, MsgInv, PastInv, SeatsOk, NEW g \in GPUs, RegGpu(g)
    PROVE  SeatsOk'
<1>1. /\ lpc[g] = "gpu" /\ lpc' = [lpc EXCEPT ![g] = "count"]
      /\ gpu_binding' = [gpu_binding EXCEPT ![count] = pcd[g].gpuid]
      /\ UNCHANGED <<process_list, count, pcd, pc, target, running_gpu>>
  BY DEF RegGpu, calls
<1>2. /\ count = Filled /\ Filled < N /\ Filled \in Nat /\ pcd[g].pid \in Procs /\ pcd[g].gpuid = g
      /\ \A h \in GPUs : h # g => lpc[h] \notin Registering
  BY <1>1, NextSlot DEF EnterPlaces
<1>3. /\ lpc'[g] = "count" /\ \A h \in GPUs : h # g => lpc'[h] = lpc[h]
      /\ gpu_binding'[count] = g /\ \A s \in Slots : s # count => gpu_binding'[s] = gpu_binding[s]
      /\ count \in Slots
  BY <1>1, <1>2 DEF FairTypes
<1>4. \A h \in GPUs : lpc'[h] \in EnterPlaces <=> lpc[h] \in EnterPlaces
  BY <1>1, <1>3 DEF EnterPlaces
<1>5. Past' = Past /\ (Entering' <=> Entering)
  BY <1>1, <1>4 DEF Past, Entering
<1>6. Filled' = Filled
  BY <1>5 DEF Filled
<1>7. CountOk' /\ OneEnters'
  BY <1>1, <1>2, <1>3, <1>5, <1>6 DEF SeatsOk, CountOk, OneEnters
<1>8. ASSUME NEW h \in GPUs PROVE EnterOk(h)'
  <2>1. CASE h # g
    BY <1>2, <1>3, <2>1 DEF EnterOk, Registering, EnterPlaces
  <2>2. CASE h = g
    <3>1. Home(pcd[g].pid, g) /\ Has(pcd[g].pid, count)
      BY <1>1 DEF SeatsOk, EnterOk, EnterPlaces
    <3>2. Home(pcd[g].pid, g)' /\ Has(pcd[g].pid, count)'
      BY <1>1, <3>1 DEF Home, Has
    <3> QED
      BY <1>1, <1>3, <2>2, <3>2 DEF EnterOk
  <2> QED
    BY <2>1, <2>2
<1>9. ASSUME NEW q \in Procs, Settled(q)' PROVE Seated(q)'
  <2>1. Settled(q)
    BY <1>1, <1>4, <1>5, <1>9 DEF Settled
  <2>2. PICK s \in Slots : s < Filled /\ Home(q, gpu_binding[s]) /\ Has(q, s)
    BY <2>1 DEF SeatsOk, Seated
  <2>3. gpu_binding'[s] = gpu_binding[s]
    BY <1>2, <1>3, <2>2 DEF Slots
  <2>4. Has(q, s)' /\ Home(q, gpu_binding[s])'
    BY <1>1, <2>2, <2>3 DEF Has, Home
  <2> QED
    BY <1>6, <2>2, <2>4 DEF Seated
<1>10. \A q \in Procs : pc'[q] = "addV" => running_gpu'[q] = NoGpu
  BY <1>1 DEF SeatsOk
<1> QED
  BY <1>7, <1>8, <1>9, <1>10 DEF SeatsOk

\* The slot is counted: the registration is over.
LEMMA SeatsCounted ==
    ASSUME FairTypes, MsgInv, PastInv, SeatsOk, NEW g \in GPUs, RegCount(g)
    PROVE  SeatsOk'
<1>1. /\ lpc[g] = "count" /\ lpc' = [lpc EXCEPT ![g] = "read"]
      /\ count' = (count + 1) % N
      /\ UNCHANGED <<process_list, gpu_binding, pc, target, running_gpu>>
  BY DEF RegCount, calls
<1>2. /\ count = Filled /\ Filled < N /\ Filled \in Nat /\ Filled = Cardinality(Past) - 1
      /\ \A h \in GPUs : h # g => lpc[h] \notin Registering
  BY <1>1, NextSlot DEF EnterPlaces
<1>3. lpc'[g] = "read" /\ \A h \in GPUs : h # g => lpc'[h] = lpc[h]
  BY <1>1 DEF FairTypes
<1>4. \A h \in GPUs : lpc'[h] \notin Registering /\ lpc'[h] \notin EnterPlaces
  BY <1>2, <1>3 DEF Registering, EnterPlaces
<1>5. Past' = Past /\ ~ Entering'
  BY <1>1, <1>4 DEF Past, Entering
<1>6. Filled' = Filled + 1
  <2>1. Filled' = Cardinality(Past)
    BY <1>5, PastFinite DEF Filled
  <2> QED
    BY <1>2, <2>1, PastFinite
<1>7. CountOk'
  BY <1>1, <1>2, <1>5, <1>6, FairShareAssumption DEF CountOk
<1>8. OneEnters' /\ \A h \in GPUs : EnterOk(h)'
  BY <1>4 DEF OneEnters, EnterOk, EnterPlaces, Registering
<1>9. ASSUME NEW q \in Procs, Settled(q)' PROVE Seated(q)'
  <2>1. \E s \in Slots : s < Filled + 1 /\ Home(q, gpu_binding[s]) /\ Has(q, s)
    <3>1. CASE q = pcd[g].pid
      <4>1. Home(q, g) /\ Has(q, count) /\ gpu_binding[count] = g
        BY <1>1, <3>1 DEF SeatsOk, EnterOk, EnterPlaces
      <4>2. count \in Slots /\ count < Filled + 1
        BY <1>2 DEF FairTypes
      <4> QED
        BY <4>1, <4>2
    <3>2. CASE q # pcd[g].pid
      <4>1. Settled(q)
        BY <1>1, <1>2, <1>5, <1>9, <3>2 DEF Settled, EnterPlaces, Registering
      <4>2. PICK s \in Slots : s < Filled /\ Home(q, gpu_binding[s]) /\ Has(q, s)
        BY <4>1 DEF SeatsOk, Seated
      <4>3. s < Filled + 1
        BY <1>2, <4>2 DEF Slots
      <4> QED
        BY <4>2, <4>3
    <3> QED
      BY <3>1, <3>2
  <2>2. PICK s \in Slots : s < Filled + 1 /\ Home(q, gpu_binding[s]) /\ Has(q, s)
    BY <2>1
  <2>3. Has(q, s)' /\ Home(q, gpu_binding[s])'
    BY <1>1, <2>2 DEF Has, Home
  <2> QED
    BY <1>6, <2>2, <2>3 DEF Seated
<1>10. \A q \in Procs : pc'[q] = "addV" => running_gpu'[q] = NoGpu
  BY <1>1 DEF SeatsOk
<1> QED
  BY <1>7, <1>8, <1>9, <1>10 DEF SeatsOk
\* The listener reads a request.
LEMMA SeatsRead ==
    ASSUME FairTypes, MsgInv, PastInv, SeatsOk, NEW g \in GPUs, Read(g), ~ overlap'
    PROVE  SeatsOk'
<1> DEFINE m == Head(fifo[g])
           mine == SlotsOf(m.pid, g)
<1>1. /\ lpc[g] = "read" /\ fifo[g] \in Seq(Message) /\ m \in Message /\ m.pid \in Procs /\ MsgOk(m, g)
      /\ UNCHANGED <<gpu_binding, count, pc, target, running_gpu>>
  <2>1. lpc[g] = "read" /\ fifo[g] # <<>> /\ UNCHANGED <<gpu_binding, count, calls>>
    BY DEF Read
  <2>2. fifo[g] \in Seq(Message)
    BY DEF FairTypes
  <2>3. m \in Message /\ m = fifo[g][1] /\ 1 \in DOMAIN fifo[g]
    BY <2>1, <2>2, HeadTailProperties
  <2>4. MsgOk(m, g)
    BY <2>3 DEF MsgInv
  <2>5. m.pid \in Procs
    BY <2>3 DEF Message
  <2> QED
    BY <2>1, <2>2, <2>3, <2>4, <2>5 DEF calls
<1>2. Past' = Past /\ \A q \in Procs, h \in GPUs : Home(q, h)' <=> Home(q, h)
  BY <1>1 DEF Past, Home
<1>3. ProcsStay
  BY <1>1, <1>2 DEF ProcsStay, SeatsOk
<1>4. \/ /\ m.action = "ADD_Q" /\ ~ already_added(m.pid)
         /\ lpc' = [lpc EXCEPT ![g] = "reply"] /\ pcd' = [pcd EXCEPT ![g] = m]
         /\ overlap' = (overlap \/ \E h \in GPUs : lpc[h] \in Registering)
         /\ process_list' = process_list
      \/ /\ m.action = "REM_Q" /\ mine # {}
         /\ process_list' = [process_list EXCEPT ![FirstOf(mine)] = None]
         /\ lpc' = [lpc EXCEPT ![g] = "inactive"] /\ pcd' = pcd
      \/ UNCHANGED <<lpc, pcd, process_list>>
  BY DEF Read
<1> HIDE DEF m, mine
<1>5. ASSUME m.action = "ADD_Q", ~ already_added(m.pid),
             lpc' = [lpc EXCEPT ![g] = "reply"], pcd' = [pcd EXCEPT ![g] = m],
             overlap' = (overlap \/ \E h \in GPUs : lpc[h] \in Registering),
             process_list' = process_list
      PROVE  SeatsOk'
  <2>1. \A h \in GPUs : lpc[h] \notin Registering /\ lpc[h] \notin EnterPlaces
    BY <1>5 DEF Registering, EnterPlaces
  <2>2. /\ lpc'[g] = "reply" /\ pcd'[g] = m
        /\ \A h \in GPUs : h # g => lpc'[h] = lpc[h]
    BY <1>5 DEF FairTypes
  <2>3. ~ Entering /\ ~ Entering'
    BY <2>1, <2>2 DEF Entering, EnterPlaces
  <2>4. Filled' = Filled
    BY <1>2, <2>3 DEF Filled
  <2>5. CountOk' /\ OneEnters'
    BY <1>1, <2>1, <2>2, <2>3, <2>4 DEF SeatsOk, CountOk, OneEnters
  <2>6. m.pid \notin Past
    <3>1. SUFFICES ASSUME m.pid \in Past PROVE FALSE
      OBVIOUS
    <3>2. Settled(m.pid)
      BY <1>1, <1>5, <2>1, <3>1 DEF Settled, MsgOk
    <3>3. \E s \in Slots : process_list[s] = m.pid
      BY <1>1, <3>2 DEF SeatsOk, Seated, Has
    <3> QED
      BY <1>5, <3>3 DEF already_added
  <2>7. ASSUME NEW h \in GPUs PROVE EnterOk(h)'
    BY <1>2, <2>1, <2>2, <2>6 DEF EnterOk, Registering, EnterPlaces
  <2>8. ASSUME NEW q \in Procs, Settled(q)' PROVE Seated(q)'
    <3>1. Settled(q)
      BY <1>1, <1>2, <2>1, <2>8 DEF Settled
    <3>2. PICK s \in Slots : s < Filled /\ Home(q, gpu_binding[s]) /\ Has(q, s)
      BY <3>1 DEF SeatsOk, Seated
    <3>3. Has(q, s)' /\ Home(q, gpu_binding[s])'
      BY <1>1, <1>5, <3>2 DEF Has, Home
    <3> QED
      BY <2>4, <3>2, <3>3 DEF Seated
  <2> QED
    BY <1>3, <2>5, <2>7, <2>8 DEF SeatsOk, ProcsStay
<1>6. ASSUME m.action = "REM_Q", mine # {},
             process_list' = [process_list EXCEPT ![FirstOf(mine)] = None],
             lpc' = [lpc EXCEPT ![g] = "inactive"], pcd' = pcd
      PROVE  SeatsOk'
  <2>1. FirstOf(mine) \in mine /\ mine \subseteq Slots
    BY <1>6, FirstIn DEF mine, SlotsOf
  <2>2. PICK k \in Slots : k = FirstOf(mine) /\ process_list[k] = m.pid
    BY <2>1 DEF mine, SlotsOf
  <2>3. process_list'[k] = None /\ \A u \in Slots : u # k => process_list'[u] = process_list[u]
    BY <1>6, <2>2 DEF FairTypes
  <2>4. lpc'[g] = "inactive" /\ \A h \in GPUs : h # g => lpc'[h] = lpc[h]
    BY <1>6 DEF FairTypes
  <2>5. \A h \in GPUs : /\ lpc'[h] \in EnterPlaces <=> lpc[h] \in EnterPlaces
                        /\ lpc'[h] \in Registering <=> lpc[h] \in Registering
                        /\ lpc'[h] \in Registering => h # g
    BY <1>1, <2>4 DEF EnterPlaces, Registering
  <2>6. Entering' <=> Entering
    BY <2>5 DEF Entering
  <2>7. Filled' = Filled
    BY <1>2, <2>6 DEF Filled
  <2>8. CountOk' /\ OneEnters'
    BY <1>1, <2>5, <2>6, <2>7 DEF SeatsOk, CountOk, OneEnters
  <2>9. pc[m.pid] \in {"remV", "gone"} /\ running_gpu[m.pid] = g
    BY <1>1, <1>6 DEF MsgOk
  <2>10. ASSUME NEW q \in Procs, q # m.pid
         PROVE  \A s \in Slots : process_list'[s] = q <=> process_list[s] = q
    BY <2>2, <2>3, <2>10, FairShareAssumption
  <2>11. ASSUME NEW h \in GPUs PROVE EnterOk(h)'
    <3>1. EnterOk(h) /\ ListenOk(h)
      BY DEF SeatsOk, MsgInv
    <3>2. CASE lpc[h] \in EnterPlaces
      <4>1. h # g /\ lpc'[h] = lpc[h] /\ pcd[h].pid \in Procs
        BY <1>1, <2>4, <3>1, <3>2 DEF EnterPlaces, ListenOk, Registering, Message
      <4>2. pcd[h].pid # m.pid
        BY <2>9, <3>1, <3>2, <4>1, GpuSlots DEF EnterOk, Home
      <4>3. \A s \in Slots : process_list'[s] = pcd[h].pid <=> process_list[s] = pcd[h].pid
        BY <2>10, <4>1, <4>2
      <4>4. Home(pcd[h].pid, h)'
        BY <1>1, <1>6, <3>1, <3>2 DEF EnterOk, Home
      <4>5. Has(pcd[h].pid, count) => Has(pcd[h].pid, count)'
        BY <1>1, <1>6, <4>3 DEF Has
      <4>6. lpc'[h] # "reply"
        BY <3>2, <4>1 DEF EnterPlaces
      <4> QED
        BY <1>1, <1>6, <3>1, <4>1, <4>3, <4>4, <4>5, <4>6 DEF EnterOk
    <3>3. CASE lpc[h] \notin EnterPlaces
      <4>1. lpc'[h] \notin EnterPlaces
        BY <2>5, <3>3
      <4>2. lpc'[h] = "reply" => lpc[h] = "reply"
        BY <2>4
      <4> QED
        BY <1>2, <1>6, <3>1, <4>1, <4>2 DEF EnterOk, EnterPlaces
    <3> QED
      BY <3>2, <3>3
  <2>12. ASSUME NEW q \in Procs, Settled(q)' PROVE Seated(q)'
    <3>1. Settled(q) /\ q # m.pid
      BY <1>1, <1>2, <1>6, <2>5, <2>9, <2>12 DEF Settled
    <3>2. PICK s \in Slots : s < Filled /\ Home(q, gpu_binding[s]) /\ Has(q, s)
      BY <3>1 DEF SeatsOk, Seated
    <3>3. Has(q, s)'
      BY <2>10, <3>1, <3>2 DEF Has
    <3>4. Home(q, gpu_binding[s])'
      BY <1>1, <3>2 DEF Home
    <3> QED
      BY <2>7, <3>2, <3>3, <3>4 DEF Seated
  <2> QED
    BY <1>3, <2>8, <2>11, <2>12 DEF SeatsOk, ProcsStay
<1>7. ASSUME UNCHANGED <<lpc, pcd, process_list>> PROVE SeatsOk'
  BY <1>1, <1>2, <1>3, <1>7, SeatsKept DEF ListenStay
<1> QED
  BY <1>4, <1>5, <1>6, <1>7
\* Every step leaves the slots in order, as long as the state stays calm.
LEMMA SeatInvNext ==
    FairTypes /\ MsgInv /\ PastInv /\ PastInv' /\ SeatInv /\ [Next]_vars => SeatInv'
<1> SUFFICES ASSUME FairTypes, MsgInv, PastInv, PastInv', SeatInv, [Next]_vars, Calm'
             PROVE  SeatsOk'
  BY DEF SeatInv
<1>1. Calm /\ SeatsOk
  BY CalmBefore DEF SeatInv
<1>2. ASSUME NEW p \in Procs,
             P(p) \/ Send(p) \/ V(p) \/ Close(p) \/ \E g \in GPUs : SetDevice(p, g)
      PROVE  SeatsOk'
  <2>1. Past' = Past
    BY <1>2, PastSame
  <2>2. UNCHANGED <<process_list, gpu_binding, count, lpc, pcd>>
    BY <1>2 DEF P, Send, V, Close, SetDevice, table, listeners
  <2>3. \A q \in Procs : q # p => /\ pc'[q] = pc[q] /\ running_gpu'[q] = running_gpu[q]
                                    /\ target'[q] = target[q]
    BY <1>2 DEF P, Send, V, Close, SetDevice, Go, FairTypes
  <2>4. pc'[p] # "addV" /\ (pc[p] \in {"dead", "gone", "remV"} => pc'[p] \in {"dead", "gone", "remV"})
    BY <1>2 DEF P, Send, V, Close, SetDevice, Go, FairTypes
  <2>5. ASSUME p \in Past, NEW g \in GPUs, Home(p, g) PROVE Home(p, g)'
    <3>1. CASE V(p)
      <4>1. CASE pc[p] = "addV"
        <5>1. running_gpu'[p] = target[p] /\ target[p] = g
          BY <1>1, <2>5, <3>1, <4>1 DEF V, Go, FairTypes, SeatsOk, Home
        <5> QED
          BY <5>1, GpuSlots DEF Home
      <4>2. CASE pc[p] # "addV"
        BY <2>4, <2>5, <3>1, <4>2 DEF V, Go, Home
      <4> QED
        BY <4>1, <4>2
    <3>2. CASE P(p) \/ Send(p) \/ Close(p) \/ \E h \in GPUs : SetDevice(p, h)
      <4>1. running_gpu' = running_gpu /\ pc[p] # "addV"
        BY <3>2 DEF P, Send, Close, SetDevice, Go
      <4> QED
        BY <2>4, <2>5, <4>1 DEF Home
    <3> QED
      BY <1>2, <3>1, <3>2
  <2>6. ProcsStay
    <3>1. ASSUME NEW q \in Procs, q # p, NEW g \in GPUs PROVE Home(q, g) => Home(q, g)'
      BY <2>3, <3>1 DEF Home
    <3> QED
      BY <1>1, <2>3, <2>4, <2>5, <3>1 DEF ProcsStay, SeatsOk
  <2> QED
    BY <1>1, <2>1, <2>2, <2>6, SeatsKept DEF ListenStay
<1>3. ASSUME NEW p \in Procs, Killed(p) PROVE SeatsOk'
  <2>1. Past' = Past
    BY <1>3, PastSame
  <2>2. /\ UNCHANGED <<process_list, gpu_binding, count, lpc, pcd, target, running_gpu>>
        /\ pc' = [pc EXCEPT ![p] = "dead"]
    BY <1>3 DEF Killed, table, listeners
  <2>3. pc'[p] = "dead" /\ \A q \in Procs : q # p => pc'[q] = pc[q]
    BY <2>2 DEF FairTypes
  <2>4. ProcsStay
    BY <1>1, <2>2, <2>3 DEF ProcsStay, SeatsOk, Home
  <2> QED
    BY <1>1, <2>1, <2>2, <2>4, SeatsKept DEF ListenStay
<1>4. ASSUME UNCHANGED <<table, calls>>, UNCHANGED pcd, ListenStay PROVE SeatsOk'
  <2>1. Past' = Past
    BY <1>4 DEF Past, calls
  <2>2. ProcsStay
    BY <1>1, <1>4 DEF ProcsStay, SeatsOk, Home, calls
  <2> QED
    BY <1>1, <1>4, <2>1, <2>2, SeatsKept DEF table
<1>5. ASSUME NEW p \in Procs, SigSchedule(p) \/ Wake(p) \/ Expire(p) PROVE SeatsOk'
  <2>1. UNCHANGED <<table, listeners, calls>>
    BY <1>5 DEF SigSchedule, Wake, Expire
  <2> QED
    BY <1>4, <2>1 DEF ListenStay, listeners
<1>6. ASSUME NEW g \in GPUs, (\E s \in Slots : Pick(g, s)) \/ Dispatch(g) PROVE SeatsOk'
  <2>1. UNCHANGED <<table, listeners, calls>>
    BY <1>6 DEF Pick, Dispatch
  <2> QED
    BY <1>4, <2>1 DEF ListenStay, listeners
<1>7. ASSUME NEW g \in GPUs, WriteMapping(g) \/ Start(g) \/ Remove(g) \/ SendAlarm(g) \/ RegActive(g) PROVE SeatsOk'
  <2>1. UNCHANGED <<process_list, gpu_binding, count, overlap, pcd, calls>>
    BY <1>7 DEF WriteMapping, Start, Remove, SendAlarm, RegActive, table
  <2>2. ListenStay
    BY <1>7 DEF WriteMapping, Start, Remove, SendAlarm, RegActive, FairTypes, ListenStay
  <2>3. Past' = Past
    BY <2>1 DEF Past, calls
  <2>4. ProcsStay
    BY <1>1, <2>1 DEF ProcsStay, SeatsOk, Home, calls
  <2> QED
    BY <1>1, <2>1, <2>2, <2>3, <2>4, SeatsKept
<1>8. CASE UNCHANGED vars
  BY <1>4, <1>8 DEF vars, listeners, ListenStay
<1>9. ASSUME NEW g \in GPUs, Read(g) PROVE SeatsOk'
  BY <1>1, <1>9, SeatsRead DEF Calm
<1> QED
  BY <1>1, <1>2, <1>3, <1>5, <1>6, <1>7, <1>8, <1>9, SeatsAnswered, SeatsListed, SeatsBound, SeatsCounted,
     FairSteps

\* The invariant holds initially.
LEMMA TableInit == Init => TableInv
<1> SUFFICES ASSUME Init PROVE TableInv
  OBVIOUS
<1>1. FairTypes
  BY GpuSlots DEF Init, FairTypes, ListenerPlaces, Places
<1>2. MsgInv
  BY DEF Init, MsgInv, Once, ListenOk, Registering
<1>3. Past = {} /\ Started = {}
  BY DEF Init, Past, Started
<1>4. PastInv
  BY <1>3, FS_EmptySet DEF Init, PastInv, EnterPlaces
<1>5. SeatInv
  <2>1. ~ Entering /\ \A g \in GPUs : lpc[g] \notin Registering /\ lpc[g] \notin EnterPlaces
    BY DEF Init, Entering, EnterPlaces, Registering
  <2>2. Filled = 0
    BY <1>3, <2>1, FS_EmptySet DEF Filled
  <2>3. CountOk
    BY <2>1, <2>2, GpuSlots DEF Init, CountOk
  <2>4. \A p \in Procs : ~ Settled(p) /\ pc[p] # "addV"
    BY <1>3 DEF Init, Settled
  <2>5. \A g \in GPUs : EnterOk(g)
    BY <2>1 DEF EnterOk, EnterPlaces, Registering
  <2> QED
    BY <2>1, <2>3, <2>4, <2>5 DEF SeatInv, SeatsOk, OneEnters
<1> QED
  BY <1>1, <1>2, <1>4, <1>5 DEF TableInv

\* The table of the scheduler (fs_register_process, and the handlers of
\* ADD_Q and REM_Q) stays in order: messages match the places of their
\* senders, only processes that were answered are in the table, and, while
\* registrations do not overlap and there are slots for all, the slots have
\* been filled one after the other and each process has its own.
THEOREM TableInOrder == Spec => []TableInv
<1>1. TableInv /\ [Next]_vars => TableInv'
  BY FairTypesNext, MsgInvNext, PastInvNext, SeatInvNext DEF TableInv
<1> QED
  BY <1>1, TableInit, PTL DEF Spec

\* A process that has registered with fs_add_queue is in the table once, with
\* its GPU, whatever the number of processes, GPUs and slots, while
\* registrations do not overlap and there are slots for all.
THEOREM RegisteredOnce == Spec => []Registered
<1>1. TableInv => Registered
  <2> SUFFICES ASSUME TableInv, ~ overlap, Cardinality({p \in Procs : adds[p] > 0}) =< N,
                      \A g \in GPUs : lpc[g] \notin Registering,
                      NEW p \in Procs, pc[p] = "serve"
               PROVE  \E s \in Slots : /\ gpu_binding[s] = running_gpu[p]
                                       /\ \A u \in Slots : process_list[u] = p <=> u = s
    BY DEF Registered
  <2>1. SeatsOk
    BY DEF TableInv, SeatInv, Calm, Started
  <2>2. running_gpu[p] # NoGpu
    BY DEF TableInv, PastInv
  <2>3. Settled(p)
    BY <2>2 DEF Settled, Past, EnterPlaces, Registering
  <2>4. PICK s \in Slots : Home(p, gpu_binding[s]) /\ Has(p, s)
    BY <2>1, <2>3 DEF SeatsOk, Seated
  <2> QED
    BY <2>2, <2>4 DEF Home, Has
<1> QED
  BY <1>1, TableInOrder, PTL

-----------------------------------------------------------------------------
(* Types.                                                                   *)

\* What TypeOK says beyond the above.
RestInv ==
    /\ active \in [Slots -> BOOLEAN]
    /\ lidx \in [GPUs -> Slots] /\ thid \in [GPUs -> Slots]
    /\ alarm \in [Procs -> BOOLEAN] /\ timer \in [Procs -> BOOLEAN]
    /\ overlap \in BOOLEAN

\* A step that writes none of these.
LEMMA RestSame ==
    ASSUME RestInv, UNCHANGED <<active, lidx, thid, alarm, timer, overlap>> PROVE RestInv'
  BY DEF RestInv

\* The steps of a process.
LEMMA RestProc ==
    ASSUME RestInv, NEW p \in Procs,
           ProcStep(p) \/ SignalStep(p) \/ Close(p) \/ \E g \in GPUs : SetDevice(p, g)
    PROVE  RestInv'
<1>1. CASE P(p) \/ Send(p) \/ Handshake(p) \/ V(p) \/ Close(p) \/ \E g \in GPUs : SetDevice(p, g)
  BY <1>1, RestSame DEF P, Send, Handshake, V, Close, SetDevice, table, listeners, controls, signals
<1>2. CASE SigSchedule(p) \/ Wake(p) \/ Killed(p) \/ Expire(p)
  <2>1. UNCHANGED <<active, lidx, thid, overlap>>
    BY <1>2 DEF SigSchedule, Wake, Killed, Expire, table, listeners, controls
  <2>2. \E b \in BOOLEAN : alarm' = alarm \/ alarm' = [alarm EXCEPT ![p] = b]
    BY <1>2 DEF SigSchedule, Wake, Killed, Expire
  <2>3. \E b \in BOOLEAN : timer' = timer \/ timer' = [timer EXCEPT ![p] = b]
    BY <1>2 DEF SigSchedule, Wake, Killed, Expire
  <2>4. alarm' \in [Procs -> BOOLEAN] /\ timer' \in [Procs -> BOOLEAN]
    BY <2>2, <2>3 DEF RestInv
  <2> QED
    BY <2>1, <2>4 DEF RestInv
<1> QED
  BY <1>1, <1>2 DEF ProcStep, SignalStep

\* The steps of the threads of a GPU.
LEMMA RestThread ==
    ASSUME RestInv, FairTypes, MsgInv, NEW g \in GPUs, ListenStep(g) \/ ControlStep(g)
    PROVE  RestInv'
<1>0. CASE WriteMapping(g)
  BY <1>0 DEF WriteMapping, RestInv, table, controls, signals
<1>1. CASE Start(g)
  <2>1. UNCHANGED <<lidx, thid, alarm, timer, overlap>> /\ active' = [s \in Slots |-> FALSE]
    BY <1>1 DEF Start, controls, signals
  <2> QED
    BY <2>1 DEF RestInv
<1>2. CASE Read(g)
  <2>1. UNCHANGED <<active, thid, alarm, timer>>
    BY <1>2 DEF Read, controls, signals
  <2>2. overlap' \in BOOLEAN
    BY <1>2 DEF Read, RestInv
  <2>3. lidx' = lidx \/ \E s \in Slots : lidx' = [lidx EXCEPT ![g] = s]
    <3>1. SlotsOf(Head(fifo[g]).pid, g) \in SUBSET Slots
      BY DEF SlotsOf
    <3>2. SlotsOf(Head(fifo[g]).pid, g) # {} => FirstOf(SlotsOf(Head(fifo[g]).pid, g)) \in Slots
      BY <3>1, FirstIn
    <3> QED
      BY <1>2, <3>2 DEF Read
  <2>4. lidx' \in [GPUs -> Slots]
    BY <2>3 DEF RestInv
  <2> QED
    BY <2>1, <2>2, <2>4 DEF RestInv
<1>3. CASE Remove(g)
  <2>1. UNCHANGED <<thid, alarm, timer, overlap>> /\ lidx' = [lidx EXCEPT ![g] = 0]
        /\ active' = [active EXCEPT ![lidx[g]] = FALSE]
    BY <1>3 DEF Remove, controls, signals
  <2> QED
    BY <2>1, GpuSlots DEF RestInv
<1>4. CASE SendAlarm(g)
  <2>1. \E b \in BOOLEAN : alarm' = [alarm EXCEPT ![pcd[g].pid] = b]
    BY <1>4 DEF SendAlarm, Alive
  <2>2. alarm' \in [Procs -> BOOLEAN]
    BY <2>1 DEF RestInv
  <2> QED
    BY <1>4, <2>2 DEF SendAlarm, RestInv, table, controls
<1>5. CASE RegActive(g)
  <2>1. UNCHANGED <<lidx, thid, alarm, timer, overlap>> /\ active' = [active EXCEPT ![count] = TRUE]
    BY <1>5 DEF RegActive, controls, signals
  <2> QED
    BY <2>1 DEF RestInv
<1>6. CASE RegPid(g) \/ RegGpu(g) \/ RegCount(g)
  BY <1>6, RestSame DEF RegPid, RegGpu, RegCount, controls, signals
<1>7. ASSUME NEW s \in Slots, Pick(g, s) PROVE RestInv'
  <2>1. thid' \in [GPUs -> Slots]
    BY <1>7 DEF Pick, RestInv
  <2> QED
    BY <1>7, <2>1 DEF Pick, RestInv, table, listeners, signals
<1>8. CASE Dispatch(g)
  <2>1. thid' \in [GPUs -> Slots]
    BY <1>8, GpuSlots DEF Dispatch, RestInv
  <2> QED
    BY <1>8, <2>1 DEF Dispatch, Signal, RestInv, table, listeners, signals
<1> QED
  BY <1>0, <1>1, <1>2, <1>3, <1>4, <1>5, <1>6, <1>7, <1>8 DEF ListenStep, ControlStep

\* Every variable of the scheduler and of its processes keeps its type: in
\* particular no thread looks past the table, and messages are whole.
THEOREM FairTypeCorrect == Spec => []TypeOK
<1>1. Init => MutexInv /\ SliceInv /\ TableInv /\ RestInv
  <2>1. Init => RestInv
    <3> SUFFICES ASSUME Init PROVE RestInv
      OBVIOUS
    <3>1. /\ active \in [Slots -> BOOLEAN] /\ alarm = [p \in Procs |-> FALSE]
          /\ timer = [p \in Procs |-> FALSE] /\ overlap = FALSE
          /\ lidx = [g \in GPUs |-> 0] /\ thid = [g \in GPUs |-> 0]
      BY DEF Init
    <3> QED
      BY <3>1, GpuSlots DEF RestInv
  <2> QED
    BY <2>1, MutexInit, SliceInit, TableInit
<1>2. (MutexInv /\ SliceInv /\ TableInv /\ RestInv) /\ [Next]_vars
        => (MutexInv /\ SliceInv /\ TableInv /\ RestInv)'
  <2>1. TableInv /\ [Next]_vars => TableInv'
    BY FairTypesNext, MsgInvNext, PastInvNext, SeatInvNext DEF TableInv
  <2>2. TableInv /\ RestInv /\ [Next]_vars => RestInv'
    <3>1. CASE UNCHANGED vars
      BY <3>1, RestSame DEF vars, table, listeners, controls, signals
    <3> QED
      BY <3>1, RestProc, RestThread DEF Next, TableInv
  <2> QED
    BY <2>1, <2>2, MutexNext, SliceNext
<1>3. MutexInv /\ SliceInv /\ TableInv /\ RestInv => TypeOK
  <2> SUFFICES ASSUME MutexInv, SliceInv, TableInv, RestInv PROVE TypeOK
    OBVIOUS
  <2>1. /\ process_list \in [Slots -> Procs \cup {None}] /\ gpu_binding \in [Slots -> GPUs]
        /\ count \in Slots /\ lpc \in [GPUs -> ListenerPlaces]
        /\ pcd \in [GPUs -> Message \cup {NoMessage}] /\ process_id \in [GPUs -> Procs \cup {None}]
        /\ pc \in [Procs -> Places] /\ target \in [Procs -> GPUs]
        /\ running_gpu \in [Procs -> GPUs \cup {NoGpu}] /\ {sched, asleep} \subseteq [Procs -> BOOLEAN]
        /\ adds \in [Procs -> Nat]
    BY DEF TableInv, FairTypes
  <2>2. \A g \in GPUs : \A i \in DOMAIN fifo[g] : fifo[g][i] \in Message
    <3> SUFFICES ASSUME NEW g \in GPUs, NEW i \in DOMAIN fifo[g] PROVE fifo[g][i] \in Message
      OBVIOUS
    <3>1. fifo[g] \in Seq(Message)
      BY DEF TableInv, FairTypes
    <3> QED
      BY <3>1
  <2>3. sem \in Nat
    BY DEF MutexInv
  <2>4. /\ sched_index_mut \in GPUs \cup {NoGpu} /\ kpc \in [GPUs -> ControlPlaces]
        /\ slices \in Nat /\ slept \in [Procs -> BOOLEAN]
    BY DEF SliceInv
  <2>5. {alarm, sched, timer, asleep, slept} \subseteq [Procs -> BOOLEAN]
    BY <2>1, <2>4 DEF RestInv
  <2> QED
    BY <2>1, <2>2, <2>3, <2>4, <2>5 DEF RestInv, TypeOK
<1> QED
  BY <1>1, <1>2, <1>3, PTL DEF Spec
=============================================================================

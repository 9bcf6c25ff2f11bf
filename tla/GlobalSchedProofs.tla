-------------------------- MODULE GlobalSchedProofs --------------------------
(***************************************************************************)
(* Proofs about GlobalSched, for any number of connections, requests and   *)
(* devices: the round robin of the shipped build, what clients whose       *)
(* devices fit the tables can do to the scheduler, and that the counters   *)
(* and the picks of the policies that count connections are right.         *)
(***************************************************************************)
EXTENDS GlobalSched, FiniteSetTheorems, TLAPS

Places == {"none", "wait", "store", "pick", "reply", "done"}

\* Round robin: devices below DEV_RR were handed out once more than the rest.
Round(D) ==
    \E base \in Nat : \A d \in 0 .. D - 1 :
      handed[d] = IF d < DEV_RR THEN base + 1 ELSE base

RRInv(D) ==
    /\ DEV_RR \in Devices
    /\ DEV_RR = 0 \/ DEV_RR < D
    /\ handed \in [Devices -> Nat]
    /\ pc \in [Threads -> Places]
    /\ assigned \in [Threads -> Devices \cup {NoDevice}]
    /\ \A t \in Threads : pc[t] = "pick" => BACKEND_DEVICES = D
    /\ Round(D)
    /\ \A t \in Threads : assigned[t] # NoDevice => assigned[t] < D

\* The invariant of the round robin holds at the start.
LEMMA RRInit ==
    ASSUME NEW D \in 0 .. MaxDevices
    PROVE  Init => RRInv(D)
<1> SUFFICES ASSUME Init PROVE RRInv(D)
  OBVIOUS
<1>1. DEV_RR = 0 /\ 0 \in Devices
  BY GlobalSchedAssumption DEF Init, Devices
<1>2. /\ handed \in [Devices -> Nat]
      /\ \A d \in Devices : handed[d] = 0
      /\ pc \in [Threads -> Places]
      /\ assigned \in [Threads -> Devices \cup {NoDevice}]
      /\ \A t \in Threads : pc[t] # "pick" /\ assigned[t] = NoDevice
  BY DEF Init, Places
<1>3. 0 .. D - 1 \subseteq Devices
  BY GlobalSchedAssumption DEF Devices
<1>4. Round(D)
  <2> SUFFICES \A d \in 0 .. D - 1 : handed[d] = IF d < DEV_RR THEN 0 + 1 ELSE 0
    BY DEF Round
  <2> QED
    BY <1>1, <1>2, <1>3
<1> QED
  BY <1>1, <1>2, <1>4 DEF RRInv

\* One pick: the round goes on, or a new one begins.
LEMMA PickRRKeeps ==
    ASSUME NEW D \in 0 .. MaxDevices, RRInv(D), NEW t \in Threads, PickRR(t)
    PROVE  RRInv(D)'
<1> USE DEF RRInv, Places
<1>0. D \in Nat /\ D <= MaxDevices /\ MaxDevices \in Nat /\ DEV_RR \in Nat /\ NoDevice = -1
  BY GlobalSchedAssumption DEF Devices, NoDevice
<1>1. BACKEND_DEVICES = D /\ D > 0
  BY DEF PickRR
<1>2. /\ DEV_RR < D
      /\ DEV_RR' = (DEV_RR + 1) % D
      /\ assigned' = [assigned EXCEPT ![t] = DEV_RR]
      /\ handed' = [handed EXCEPT ![DEV_RR] = @ + 1]
      /\ pc' = [pc EXCEPT ![t] = "reply"]
      /\ UNCHANGED <<policy, BACKEND_DEVICES>>
  BY <1>0, <1>1 DEF PickRR, Assign
<1>3. DEV_RR' = IF DEV_RR + 1 = D THEN 0 ELSE DEV_RR + 1
  BY <1>0, <1>1, <1>2
<1>4. DEV_RR' \in Devices /\ (DEV_RR' = 0 \/ DEV_RR' < D)
  BY <1>0, <1>1, <1>2, <1>3 DEF Devices
<1>5. handed' \in [Devices -> Nat]
  BY <1>2
<1>6. /\ pc' \in [Threads -> Places]
      /\ assigned' \in [Threads -> Devices \cup {NoDevice}]
  BY <1>2
<1>7. ASSUME NEW u \in Threads
      PROVE  /\ pc'[u] = "pick" => BACKEND_DEVICES' = D
             /\ assigned'[u] # NoDevice => assigned'[u] < D
  BY <1>1, <1>2
<1>8. Round(D)'
  <2>1. PICK base \in Nat : \A d \in 0 .. D - 1 :
          handed[d] = IF d < DEV_RR THEN base + 1 ELSE base
    BY DEF Round
  <2>2. ASSUME NEW d \in 0 .. D - 1
        PROVE  d \in Devices /\ handed'[d] = IF d = DEV_RR THEN handed[d] + 1 ELSE handed[d]
    BY <1>0, <1>2, <2>2 DEF Devices
  <2>3. CASE DEV_RR + 1 = D
    <3>1. \A d \in 0 .. D - 1 : handed'[d] = IF d < DEV_RR' THEN (base + 1) + 1 ELSE base + 1
      BY <1>0, <1>3, <2>1, <2>2, <2>3
    <3> QED
      BY <2>1, <3>1 DEF Round
  <2>4. CASE DEV_RR + 1 # D
    <3>1. \A d \in 0 .. D - 1 : handed'[d] = IF d < DEV_RR' THEN base + 1 ELSE base
      BY <1>0, <1>3, <2>1, <2>2, <2>4
    <3> QED
      BY <2>1, <3>1 DEF Round
  <2> QED
    BY <2>3, <2>4
<1> QED
  BY <1>2, <1>4, <1>5, <1>6, <1>7, <1>8

\* Every step of a round robin keeps its invariant if the clients that have
\* asked by then know D devices.
LEMMA RRNext ==
    ASSUME NEW D \in 0 .. MaxDevices, RRInv(D), [Next]_vars, policy = "RR",
           \A t \in Threads : pc[t] = "store" => DevicesOf[t] = D
    PROVE  RRInv(D)'
<1>1. ASSUME NEW t \in Threads, Store(t) PROVE RRInv(D)'
  <2>1. BACKEND_DEVICES' = D
    BY <1>1 DEF Store
  <2>2. pc' \in [Threads -> Places]
    BY <1>1 DEF Store, RRInv, Places
  <2> QED
    BY <1>1, <2>1, <2>2 DEF Store, RRInv, Round
<1>2. ASSUME NEW t \in Threads, PickRR(t) PROVE RRInv(D)'
  BY <1>2, PickRRKeeps
<1>3. ASSUME NEW t \in Threads, PickCheapest(t) \/ PickOverruns(t) PROVE FALSE
  BY <1>3 DEF PickCheapest, PickOverruns
<1>4. ASSUME NEW t \in Threads,
             \/ Connect(t) \/ Receive(t) \/ Reply(t) \/ Close(t) \/ CloseOverruns(t)
             \/ CloseUnassigned(t) \/ PickRRDivides(t)
      PROVE  RRInv(D)'
  <2>1. /\ UNCHANGED <<BACKEND_DEVICES, DEV_RR, assigned, handed>>
        /\ pc' = pc \/ \E s \in {"wait", "store", "done"} : pc' = [pc EXCEPT ![t] = s]
    BY <1>4 DEF Connect, Receive, Reply, Close, CloseOverruns, CloseUnassigned, PickRRDivides
  <2>2. pc' \in [Threads -> Places] /\ \A u \in Threads : pc'[u] = "pick" => pc[u] = "pick"
    BY <2>1 DEF RRInv, Places
  <2> QED
    BY <2>1, <2>2 DEF RRInv, Round
<1>5. CASE Terminated \/ UNCHANGED vars
  BY <1>5 DEF Terminated, vars, RRInv, Round
<1> QED
  BY <1>1, <1>2, <1>3, <1>4, <1>5 DEF Next

\* A client with a request in work has asked; one that has a device has too.
AskInv ==
    /\ pc \in [Threads -> Places] /\ gets \in [Threads -> Nat]
    /\ \A t \in Threads : pc[t] \in {"store", "pick"} \/ assigned[t] # NoDevice => t \in Asked

\* Every step keeps that, and whoever has asked stays one that has.
LEMMA AskNext == AskInv /\ [Next]_vars => AskInv' /\ Asked \subseteq Asked' /\ policy' = policy
<1> SUFFICES ASSUME AskInv, [Next]_vars PROVE AskInv' /\ Asked \subseteq Asked' /\ policy' = policy
  OBVIOUS
<1>1. ASSUME NEW t \in Threads, Receive(t) PROVE AskInv' /\ Asked \subseteq Asked' /\ policy' = policy
  <2>1. /\ gets' \in [Threads -> Nat] /\ pc' \in [Threads -> Places]
        /\ gets'[t] > 0 /\ \A u \in Threads : u # t => gets'[u] = gets[u] /\ pc'[u] = pc[u]
        /\ assigned' = assigned /\ policy' = policy
    BY <1>1 DEF Receive, AskInv, Places
  <2> QED
    BY <2>1 DEF AskInv, Asked
<1>2. ASSUME NEW t \in Threads,
             \/ Connect(t) \/ Reply(t) \/ Close(t) \/ CloseOverruns(t) \/ CloseUnassigned(t)
             \/ PickRRDivides(t) \/ PickOverruns(t) \/ Store(t)
      PROVE  AskInv' /\ Asked \subseteq Asked' /\ policy' = policy
  <2>1. /\ UNCHANGED <<policy, gets, assigned>>
        /\ \/ pc' = pc
           \/ \E s \in {"wait", "done"} : pc' = [pc EXCEPT ![t] = s]
           \/ pc[t] = "store" /\ pc' = [pc EXCEPT ![t] = "pick"]
    BY <1>2 DEF Connect, Reply, Close, CloseOverruns, CloseUnassigned, PickRRDivides, PickOverruns,
                Store
  <2>2. /\ pc' \in [Threads -> Places]
        /\ \A u \in Threads : pc'[u] \in {"store", "pick"} => pc[u] \in {"store", "pick"}
    BY <2>1 DEF AskInv, Places
  <2> QED
    BY <2>1, <2>2 DEF AskInv, Asked
<1>3. ASSUME NEW t \in Threads, PickRR(t) \/ PickCheapest(t)
      PROVE  AskInv' /\ Asked \subseteq Asked' /\ policy' = policy
  <2>1. /\ UNCHANGED <<policy, gets>> /\ pc[t] = "pick"
        /\ pc' = [pc EXCEPT ![t] = "reply"]
        /\ \E d : assigned' = [assigned EXCEPT ![t] = d]
    BY <1>3 DEF PickRR, PickCheapest, Assign
  <2>2. /\ pc' \in [Threads -> Places]
        /\ \A u \in Threads : u # t => pc'[u] = pc[u] /\ assigned'[u] = assigned[u]
    BY <2>1 DEF AskInv, Places
  <2> QED
    BY <2>1, <2>2 DEF AskInv, Asked
<1>4. CASE Terminated \/ UNCHANGED vars
  BY <1>4 DEF Terminated, vars, AskInv, Asked
<1> QED
  BY <1>1, <1>2, <1>3, <1>4 DEF Next

\* A round robin over D devices, for whatever D the clients agree on that have
\* asked so far.
AgreedInv ==
    /\ AskInv
    /\ \A D \in 0 .. MaxDevices :
         policy = "RR" /\ (\A t \in Asked : DevicesOf[t] = D) => RRInv(D)

\* The invariant of the round robin always holds.
LEMMA RRAlways == Spec => []AgreedInv
<1>1. Init => AgreedInv
  <2> SUFFICES ASSUME Init PROVE AgreedInv
    OBVIOUS
  <2>1. AskInv
    BY DEF Init, AskInv, Places, Asked
  <2> QED
    BY <2>1, RRInit DEF AgreedInv
<1>2. AgreedInv /\ [Next]_vars => AgreedInv'
  <2> SUFFICES ASSUME AgreedInv, [Next]_vars PROVE AgreedInv'
    OBVIOUS
  <2>1. AskInv' /\ Asked \subseteq Asked' /\ policy' = policy
    BY AskNext DEF AgreedInv
  <2>2. ASSUME NEW D \in 0 .. MaxDevices, policy = "RR", \A t \in Asked' : DevicesOf[t] = D
        PROVE  RRInv(D)'
    <3>1. \A t \in Asked : DevicesOf[t] = D
      BY <2>1, <2>2
    <3>2. RRInv(D) /\ \A t \in Threads : pc[t] = "store" => DevicesOf[t] = D
      BY <2>2, <3>1 DEF AgreedInv, AskInv
    <3> QED
      BY <2>2, <3>2, RRNext
  <2> QED
    BY <2>1, <2>2 DEF AgreedInv
<1> QED
  BY <1>1, <1>2, PTL DEF Spec

\* Under the round robin no device is handed out more than once more often than
\* another, for any interleaving of the handle_req threads, as long as the
\* clients that have asked agree on the devices (get_next_device_RR).
THEOREM RoundRobinBalanced == Spec => []Balanced
<1>1. AgreedInv => Balanced
  <2> SUFFICES ASSUME AgreedInv, policy = "RR", Agree, NEW t \in Asked,
                      NEW d \in 0 .. DevicesOf[t] - 1, NEW e \in 0 .. DevicesOf[t] - 1
               PROVE  handed[d] <= handed[e] + 1
    BY DEF Balanced
  <2> DEFINE D == DevicesOf[t]
  <2>1. D \in 0 .. MaxDevices /\ \A u \in Asked : DevicesOf[u] = D
    BY GlobalSchedAssumption DEF Agree, Asked
  <2>2. Round(D)
    BY <2>1 DEF AgreedInv, RRInv
  <2>3. PICK base \in Nat : \A x \in 0 .. D - 1 :
          handed[x] = IF x < DEV_RR THEN base + 1 ELSE base
    BY <2>2 DEF Round
  <2> QED
    BY <2>3
<1> QED
  BY <1>1, RRAlways, PTL

\* Under the round robin a client is only given a device of its own table, as
\* long as the clients that have asked agree on the devices.
THEOREM RoundRobinKnown == Spec => [](policy = "RR" => KnownDevice)
<1>1. AgreedInv => (policy = "RR" => KnownDevice)
  <2> SUFFICES ASSUME AgreedInv, policy = "RR", Agree, NEW t \in Threads, assigned[t] # NoDevice
               PROVE  assigned[t] < DevicesOf[t]
    BY DEF KnownDevice
  <2>1. DevicesOf[t] \in 0 .. MaxDevices /\ \A u \in Asked : DevicesOf[u] = DevicesOf[t]
    BY GlobalSchedAssumption DEF Agree, AgreedInv, AskInv
  <2> QED
    BY <2>1 DEF AgreedInv, RRInv
<1> QED
  BY <1>1, RRAlways, PTL

-----------------------------------------------------------------------------

\* What is so while every client that has asked fits the tables.
Sound ==
    /\ ~ wild
    /\ alive \/ \E t \in Threads : pc[t] = "done" /\ assigned[t] = NoDevice
    /\ BACKEND_DEVICES \in 0 .. TableSize /\ DEV_RR \in Table
    /\ \A t \in Threads :
         /\ assigned[t] \in Table \cup {NoDevice}
         /\ pc[t] = "pick" => BACKEND_DEVICES > 0

SoundInv == AskInv /\ ((\A t \in Asked : Fits(t)) => Sound)

\* The tables.
LEMMA TableFacts ==
    /\ TableSize \in Nat \ {0} /\ TableSize <= MaxCounted /\ MaxCounted \in Nat
    /\ Table \subseteq Counted /\ Counted \subseteq Devices /\ NoDevice \notin Devices
<1>1. TableSize \in 1 .. MaxCounted /\ MaxCounted \in 1 .. MaxDevices /\ MaxDevices \in Nat
  BY GlobalSchedAssumption DEF TableSize
<1> QED
  BY <1>1 DEF Table, Counted, Devices, NoDevice

\* A pick for a client that fits looks at entries of the tables only.
LEMMA ScanFits ==
    ASSUME NEW t \in Threads, Fits(t), BACKEND_DEVICES \in 1 .. TableSize
    PROVE  Scanned(t) \subseteq Table
<1>1. TableSize \in Nat /\ DevicesOf[t] \in Nat /\ DevicesOf[t] <= TableSize /\ LocalOf[t] \in Nat
  BY TableFacts, GlobalSchedAssumption DEF Fits
<1>2. Start(t) \in Table
  BY <1>1, TableFacts DEF Start, Fits, Table
<1> QED
  BY <1>1, <1>2 DEF Scanned, Table

\* Every step keeps a scheduler sound whose clients fit.
LEMMA SoundNext == SoundInv /\ [Next]_vars => SoundInv'
<1> SUFFICES ASSUME SoundInv, [Next]_vars, \A t \in Asked' : Fits(t)' PROVE Sound'
  BY AskNext DEF SoundInv
<1>0. /\ AskInv /\ Asked \subseteq Asked' /\ policy' = policy
      /\ \A t \in Asked' : t \in Threads /\ Fits(t) /\ Sound
      /\ TableSize' = TableSize /\ Table' = Table
  BY AskNext DEF SoundInv, Fits, TableSize, Table, Asked
<1>00. Sound /\ \A t \in Asked : Fits(t)
  BY <1>0 DEF SoundInv
<1>1. ASSUME NEW t \in Threads, Connect(t) \/ Receive(t) \/ Reply(t) \/ Close(t) PROVE Sound'
  <2>1. /\ UNCHANGED <<alive, wild, BACKEND_DEVICES, DEV_RR, assigned>> /\ alive
        /\ \E s \in {"wait", "store", "done"} : pc' = [pc EXCEPT ![t] = s]
    BY <1>1 DEF Connect, Receive, Reply, Close
  <2>2. \A u \in Threads : pc'[u] = "pick" => pc[u] = "pick"
    BY <2>1 DEF AskInv, SoundInv
  <2> QED
    BY <1>0, <1>00, <2>1, <2>2 DEF Sound
<1>2. ASSUME NEW t \in Threads, Store(t) PROVE Sound'
  <2>1. /\ UNCHANGED <<alive, wild, DEV_RR, assigned>> /\ alive /\ pc[t] = "store"
        /\ BACKEND_DEVICES' = DevicesOf[t]
    BY <1>2 DEF Store
  <2>2. Fits(t)
    BY <1>0, <1>00, <2>1 DEF AskInv
  <2>3. BACKEND_DEVICES' \in 0 .. TableSize /\ BACKEND_DEVICES' > 0
    BY <2>1, <2>2, TableFacts DEF Fits
  <2> QED
    BY <1>0, <1>00, <2>1, <2>3 DEF Sound
<1>3. ASSUME NEW t \in Threads, PickRR(t) PROVE Sound'
  <2>1. /\ UNCHANGED <<alive, wild, BACKEND_DEVICES>> /\ alive /\ pc[t] = "pick"
        /\ BACKEND_DEVICES > 0 /\ DEV_RR' = (DEV_RR + 1) % BACKEND_DEVICES
        /\ assigned' = [assigned EXCEPT ![t] = DEV_RR] /\ pc' = [pc EXCEPT ![t] = "reply"]
    BY <1>3 DEF PickRR, Assign
  <2>2. DEV_RR' \in Table
    <3>1. PICK b \in Nat : b = BACKEND_DEVICES /\ b > 0 /\ b <= TableSize
      BY <1>00, <2>1, TableFacts DEF Sound
    <3>2. PICK n \in Nat : n = DEV_RR + 1
      BY <1>00, TableFacts DEF Sound, Table
    <3>3. n % b \in 0 .. b - 1
      BY <3>1
    <3> QED
      BY <2>1, <3>1, <3>2, <3>3, TableFacts DEF Table
  <2>3. /\ \A u \in Threads : assigned'[u] = DEV_RR \/ assigned'[u] = assigned[u]
        /\ \A u \in Threads : pc'[u] = "pick" => pc[u] = "pick"
    BY <2>1 DEF AskInv, SoundInv
  <2> QED
    BY <1>0, <1>00, <2>1, <2>2, <2>3 DEF Sound
<1>4. ASSUME NEW t \in Threads, PickCheapest(t) \/ PickOverruns(t) PROVE Sound'
  <2>1. pc[t] = "pick" /\ alive /\ UNCHANGED <<policy, BACKEND_DEVICES, DEV_RR>>
    BY <1>4 DEF PickCheapest, PickOverruns
  <2>2. BACKEND_DEVICES \in 1 .. TableSize /\ Fits(t)
    BY <1>00, <2>1, TableFacts DEF Sound, SoundInv, AskInv
  <2>3. Scanned(t) \subseteq Table /\ Cheapest(t) \subseteq Table
    BY <2>2, ScanFits DEF Cheapest
  <2>4. PickCheapest(t)
    BY <1>4, <2>3, TableFacts DEF PickOverruns
  <2>5. PICK d \in Table : Assign(t, d)
    BY <2>3, <2>4 DEF PickCheapest
  <2>6. ~ wild' /\ alive' = alive
    BY <2>3, <2>4, <1>00 DEF PickCheapest, Sound
  <2>7. /\ \A u \in Threads : assigned'[u] = d \/ assigned'[u] = assigned[u]
        /\ \A u \in Threads : pc'[u] = "pick" => pc[u] = "pick"
    BY <2>5 DEF Assign, AskInv, SoundInv
  <2> QED
    BY <1>0, <1>00, <2>1, <2>6, <2>7 DEF Sound
<1>5. ASSUME NEW t \in Threads, PickRRDivides(t) \/ CloseOverruns(t) PROVE FALSE
  BY <1>00, <1>5, TableFacts DEF PickRRDivides, CloseOverruns, Sound
<1>6. ASSUME NEW t \in Threads, CloseUnassigned(t) PROVE Sound'
  <2>1. /\ UNCHANGED <<wild, BACKEND_DEVICES, DEV_RR, assigned>> /\ assigned[t] = NoDevice
        /\ pc' = [pc EXCEPT ![t] = "done"]
    BY <1>6 DEF CloseUnassigned
  <2>2. pc'[t] = "done" /\ \A u \in Threads : pc'[u] = "pick" => pc[u] = "pick"
    BY <2>1 DEF AskInv, SoundInv
  <2> QED
    BY <1>0, <1>00, <2>1, <2>2 DEF Sound
<1>7. CASE Terminated \/ UNCHANGED vars
  BY <1>0, <1>00, <1>7 DEF Terminated, vars, Sound
<1> QED
  BY <1>1, <1>2, <1>3, <1>4, <1>5, <1>6, <1>7 DEF Next

\* Clients whose devices fit the tables, however they differ and in whatever
\* order their requests are stored and picked for, never make the scheduler
\* leave a table or divide by zero (nvbackCudaGetDevice_srv, the
\* get_next_device... policies and dec_thread_count_per_device).
THEOREM FittingHarmless == Spec => []FittingClientsHarmless
<1>1. Init => SoundInv
  <2> SUFFICES ASSUME Init PROVE SoundInv
    OBVIOUS
  <2>1. AskInv
    BY DEF Init, AskInv, Places, Asked
  <2>2. DEV_RR \in Table /\ BACKEND_DEVICES \in 0 .. TableSize
    BY TableFacts DEF Init, Table
  <2> QED
    BY <2>1, <2>2 DEF Init, SoundInv, Sound
<1>2. SoundInv => FittingClientsHarmless
  BY DEF SoundInv, Sound, FittingClientsHarmless
<1> QED
  BY <1>1, <1>2, SoundNext, PTL DEF Spec

-----------------------------------------------------------------------------
(* The policies that look for the cheapest device.                          *)

\* What the counters are read and written with.
TableTypes ==
    /\ policy \in AllPolicies
    /\ BACKEND_DEVICES \in 0 .. MaxDevices
    /\ DEV_RR \in Devices
    /\ thread_count \in [Counted -> Int]

\* No connection wraps a counter round.
FewThreads == IsFiniteSet(Threads) /\ Cardinality(Threads) < M

CountInv ==
    /\ TableTypes
    /\ pc \in [Threads -> Places]
    /\ assigned \in [Threads -> Devices \cup {NoDevice}]
    /\ gets \in [Threads -> Nat]
    /\ \A t \in Threads : pc[t] = "none" => gets[t] = 0
    /\ \A t \in Threads : gets[t] = 0 => assigned[t] = NoDevice
    /\ \A t \in Threads : pc[t] \in {"store", "pick"} =>
         gets[t] > 0 /\ (gets[t] = 1 => assigned[t] = NoDevice)
    /\ CountsThreads

\* The threads bound to a device are fewer than the ints.
LEMMA BoundFits ==
    ASSUME FewThreads, NEW d
    PROVE  IsFiniteSet(Bound(d)) /\ Cardinality(Bound(d)) \in Nat /\ Cardinality(Bound(d)) < M
<1>1. Bound(d) \in SUBSET Threads
  BY DEF Bound
<1>2. IsFiniteSet(Bound(d)) /\ Cardinality(Bound(d)) <= Cardinality(Threads)
  BY <1>1, FS_Subset DEF FewThreads
<1>3. Cardinality(Bound(d)) \in Nat /\ Cardinality(Threads) \in Nat
  BY <1>2, FS_CardinalityType DEF FewThreads
<1> QED
  BY <1>2, <1>3, GlobalSchedAssumption DEF FewThreads

\* Addition of ints is addition where the result is an int.
LEMMA AddFits ==
    ASSUME NEW x \in Int, NEW y \in Int, - M <= x + y, x + y < M PROVE Add(x, y) = x + y
<1>1. M \in Nat \ {0} /\ x + y + M \in 0 .. 2 * M - 1
  BY GlobalSchedAssumption
<1>2. (x + y + M) % (2 * M) = x + y + M
  BY <1>1
<1> QED
  BY <1>1, <1>2 DEF Add

\* Addition yields an integer.
LEMMA AddInt == \A x, y \in Int : Add(x, y) \in Int
<1>1. \A z \in Int : z % (2 * M) \in Int
  BY GlobalSchedAssumption
<1> QED
  BY <1>1, GlobalSchedAssumption DEF Add

\* A pick binds one thread more to the device it returns.
LEMMA PickCounts ==
    ASSUME CountInv, FewThreads, NEW t \in Threads, PickCheapest(t)
    PROVE  CountInv'
<1>0. PICK c \in Counted : \E n \in Charge(t, c) :
        /\ thread_count' = [thread_count EXCEPT ![c] = Add(@, n)]
        /\ assigned' = [assigned EXCEPT ![t] = c]
  BY DEF PickCheapest, Assign
<1>1. PICK n \in Charge(t, c) :
        /\ thread_count' = [thread_count EXCEPT ![c] = Add(@, n)]
        /\ assigned' = [assigned EXCEPT ![t] = c]
  BY <1>0
<1>2. /\ c \in Devices
      /\ pc' = [pc EXCEPT ![t] = "reply"] /\ pc[t] = "pick"
      /\ UNCHANGED <<policy, BACKEND_DEVICES, DEV_RR, gets>>
  BY TableFacts DEF PickCheapest, Assign
<1>3. n \in Int
  BY GlobalSchedAssumption DEF Charge, Ints
<1>4. TableTypes'
  <2>1. thread_count[c] \in Int /\ Add(thread_count[c], n) \in Int
    BY <1>1, <1>3, AddInt DEF CountInv, TableTypes
  <2> QED
    BY <1>1, <1>2, <2>1 DEF CountInv, TableTypes
<1>5. /\ pc' \in [Threads -> Places]
      /\ assigned' \in [Threads -> Devices \cup {NoDevice}]
  BY <1>1, <1>2 DEF CountInv, Places
<1>6. CountsThreads'
  <2> SUFFICES ASSUME policy \in CountingPolicies, AskedOnce, NEW d \in Counted
               PROVE  thread_count'[d] = Cardinality(Bound(d)')
    BY <1>2 DEF CountsThreads, AskedOnce
  <2>1. thread_count[d] = Cardinality(Bound(d))
    BY DEF CountInv, CountsThreads
  <2>2. t \notin Bound(d)
    BY <1>2, TableFacts DEF CountInv, AskedOnce, Bound
  <2>3. CASE d = c
    <3>1. Bound(d)' = Bound(d) \cup {t}
      BY <1>1, <1>2, <2>3 DEF Bound, CountInv
    <3>2. Cardinality(Bound(d)') = Cardinality(Bound(d)) + 1
      BY <2>2, <3>1, BoundFits, FS_AddElement
    <3>3. Bound(d)' \in SUBSET Threads
      BY DEF Bound
    <3>4. Cardinality(Bound(d)') <= Cardinality(Threads) /\ Cardinality(Threads) \in Nat
      BY <3>3, FS_Subset, FS_CardinalityType DEF FewThreads
    <3>5. n = 1
      BY <1>1 DEF Charge, CountingPolicies
    <3>6. Add(thread_count[d], 1) = thread_count[d] + 1
      BY <2>1, <3>2, <3>4, BoundFits, AddFits, GlobalSchedAssumption DEF FewThreads
    <3> QED
      BY <1>1, <1>2, <2>1, <2>3, <3>2, <3>5, <3>6 DEF CountInv, TableTypes
  <2>4. CASE d # c
    <3>1. Bound(d)' = Bound(d)
      BY <1>1, <1>2, <2>2, <2>4 DEF Bound, CountInv
    <3> QED
      BY <1>1, <1>2, <2>1, <2>4, <3>1 DEF CountInv, TableTypes
  <2> QED
    BY <2>3, <2>4
<1>7. ASSUME NEW u \in Threads
      PROVE  /\ pc'[u] = "none" => gets'[u] = 0
             /\ gets'[u] = 0 => assigned'[u] = NoDevice
             /\ pc'[u] \in {"store", "pick"} =>
                  gets'[u] > 0 /\ (gets'[u] = 1 => assigned'[u] = NoDevice)
  <2>1. CASE u = t
    BY <1>1, <1>2, <2>1, TableFacts DEF CountInv
  <2>2. CASE u # t
    BY <1>1, <1>2, <2>2 DEF CountInv
  <2> QED
    BY <2>1, <2>2
<1> QED
  BY <1>2, <1>4, <1>5, <1>6, <1>7 DEF CountInv

\* A connection that ends takes its thread from the device.
LEMMA CloseCounts ==
    ASSUME CountInv, FewThreads, NEW t \in Threads, Close(t)
    PROVE  CountInv'
<1> DEFINE c == assigned[t]
<1>1. c \in Counted
  BY DEF Close
<1>2. /\ thread_count' = [thread_count EXCEPT ![c] = Add(@, -1)]
      /\ pc' = [pc EXCEPT ![t] = "done"] /\ pc[t] # "done"
      /\ UNCHANGED <<policy, BACKEND_DEVICES, DEV_RR, assigned, gets>>
  BY DEF Close
<1>3. TableTypes'
  <2>1. thread_count[c] \in Int /\ Add(thread_count[c], -1) \in Int
    BY <1>1, AddInt DEF CountInv, TableTypes
  <2> QED
    BY <1>2, <2>1 DEF CountInv, TableTypes
<1>4. CountsThreads'
  <2> SUFFICES ASSUME policy \in CountingPolicies, AskedOnce, NEW d \in Counted
               PROVE  thread_count'[d] = Cardinality(Bound(d)')
    BY <1>2 DEF CountsThreads, AskedOnce
  <2>1. thread_count[d] = Cardinality(Bound(d))
    BY DEF CountInv, CountsThreads
  <2>2. CASE d = c
    <3>1. t \in Bound(d) /\ Bound(d)' = Bound(d) \ {t}
      BY <1>2, <2>2 DEF Bound, CountInv
    <3>2. Cardinality(Bound(d)') = Cardinality(Bound(d)) - 1
      BY <3>1, BoundFits, FS_RemoveElement
    <3>3. Cardinality(Bound(d)') \in Nat
      <4>1. IsFiniteSet(Bound(d)')
        BY <3>1, BoundFits, FS_RemoveElement
      <4> QED
        BY <4>1, FS_CardinalityType
    <3>4. Add(thread_count[d], -1) = thread_count[d] - 1
      BY <2>1, <3>2, <3>3, BoundFits, AddFits, GlobalSchedAssumption
    <3> QED
      BY <1>1, <1>2, <2>1, <2>2, <3>2, <3>4 DEF CountInv, TableTypes
  <2>3. CASE d # c
    <3>1. Bound(d)' = Bound(d)
      BY <1>2, <2>3 DEF Bound, CountInv
    <3> QED
      BY <1>1, <1>2, <2>1, <2>3, <3>1 DEF CountInv, TableTypes
  <2> QED
    BY <2>2, <2>3
<1>5. /\ pc' \in [Threads -> Places]
      /\ \A u \in Threads : pc'[u] # "done" => pc'[u] = pc[u]
      /\ pc'[t] = "done"
  BY <1>2 DEF CountInv, Places
<1> QED
  BY <1>2, <1>3, <1>4, <1>5 DEF CountInv

\* A step that leaves the counters and the bound threads alone.
LEMMA SameCounts ==
    ASSUME CountInv, TableTypes', NEW t \in Threads,
           NEW s \in {"wait", "store", "pick", "reply"}, pc' = [pc EXCEPT ![t] = s],
           pc[t] \notin {"done"}, gets' \in [Threads -> Nat],
           \A u \in Threads : gets[u] <= gets'[u] /\ (u # t => gets'[u] = gets[u]),
           s \in {"store", "pick"} => gets'[t] > 0 /\ (gets'[t] = 1 => assigned[t] = NoDevice),
           UNCHANGED <<policy, thread_count, assigned>>
    PROVE  CountInv'
<1>1. pc' \in [Threads -> Places] /\ \A u \in Threads : pc'[u] = "done" <=> pc[u] = "done"
  BY DEF CountInv, Places
<1>2. \A d \in Counted : Bound(d)' = Bound(d)
  BY <1>1 DEF Bound
<1>3. AskedOnce' => AskedOnce
  <2>1. \A u \in Threads : gets[u] \in Nat /\ gets'[u] \in Nat
    BY DEF CountInv
  <2> QED
    BY <2>1 DEF AskedOnce
<1>4. CountsThreads'
  BY <1>2, <1>3 DEF CountsThreads, CountInv
<1>5. ASSUME NEW u \in Threads
      PROVE  /\ pc'[u] = "none" => gets'[u] = 0
             /\ gets'[u] = 0 => assigned'[u] = NoDevice
             /\ pc'[u] \in {"store", "pick"} =>
                  gets'[u] > 0 /\ (gets'[u] = 1 => assigned'[u] = NoDevice)
  <2>1. gets[u] \in Nat /\ gets'[u] \in Nat
    BY DEF CountInv
  <2>2. CASE u = t
    BY <2>1, <2>2 DEF CountInv
  <2>3. CASE u # t
    BY <2>1, <2>3 DEF CountInv
  <2> QED
    BY <2>2, <2>3
<1> QED
  BY <1>1, <1>4, <1>5 DEF CountInv

\* Every step keeps the counters.
LEMMA CountNext == FewThreads /\ CountInv /\ [Next]_vars => CountInv'
<1> SUFFICES ASSUME FewThreads, CountInv, [Next]_vars PROVE CountInv'
  OBVIOUS
<1>1. ASSUME NEW t \in Threads, Connect(t) \/ Reply(t) PROVE CountInv'
  <2>1. /\ pc' = [pc EXCEPT ![t] = "wait"] /\ pc[t] # "done"
        /\ UNCHANGED <<policy, BACKEND_DEVICES, DEV_RR, thread_count, assigned, gets>>
    BY <1>1 DEF Connect, Reply
  <2>2. TableTypes'
    BY <2>1 DEF CountInv, TableTypes
  <2>3. gets' \in [Threads -> Nat] /\ \A u \in Threads : gets[u] <= gets'[u] /\ gets'[u] = gets[u]
    BY <2>1 DEF CountInv
  <2> QED
    BY <2>1, <2>2, <2>3, SameCounts
<1>2. ASSUME NEW t \in Threads, Receive(t) PROVE CountInv'
  <2>1. /\ pc' = [pc EXCEPT ![t] = "store"] /\ pc[t] # "done"
        /\ gets' = [gets EXCEPT ![t] = @ + 1]
        /\ UNCHANGED <<policy, BACKEND_DEVICES, DEV_RR, thread_count, assigned>>
    BY <1>2 DEF Receive
  <2>2. gets' \in [Threads -> Nat] /\ \A u \in Threads : gets[u] <= gets'[u] /\ (u # t => gets'[u] = gets[u])
    BY <2>1 DEF CountInv
  <2>3. gets'[t] > 0 /\ (gets'[t] = 1 => assigned[t] = NoDevice)
    BY <2>1 DEF CountInv
  <2>4. TableTypes'
    BY <2>1 DEF CountInv, TableTypes
  <2> QED
    BY <2>1, <2>2, <2>3, <2>4, SameCounts
<1>3. ASSUME NEW t \in Threads, Store(t) PROVE CountInv'
  <2>1. /\ pc' = [pc EXCEPT ![t] = "pick"] /\ pc[t] = "store"
        /\ BACKEND_DEVICES' = DevicesOf[t]
        /\ UNCHANGED <<policy, DEV_RR, thread_count, assigned, gets>>
    BY <1>3 DEF Store
  <2>2. gets[t] > 0 /\ (gets[t] = 1 => assigned[t] = NoDevice)
    BY <2>1 DEF CountInv
  <2>3. TableTypes'
    BY <2>1, GlobalSchedAssumption DEF CountInv, TableTypes
  <2>4. gets' \in [Threads -> Nat] /\ \A u \in Threads : gets[u] <= gets'[u] /\ gets'[u] = gets[u]
    BY <2>1 DEF CountInv
  <2> QED
    BY <2>1, <2>2, <2>3, <2>4, SameCounts
<1>4. ASSUME NEW t \in Threads, PickRR(t) PROVE CountInv'
  <2>1. /\ policy = "RR" /\ UNCHANGED <<policy, BACKEND_DEVICES, thread_count, gets>>
        /\ pc' = [pc EXCEPT ![t] = "reply"] /\ pc[t] = "pick"
        /\ assigned' = [assigned EXCEPT ![t] = DEV_RR]
        /\ BACKEND_DEVICES > 0 /\ DEV_RR' = (DEV_RR + 1) % BACKEND_DEVICES
    BY <1>4 DEF PickRR, Assign
  <2>2. CountsThreads'
    BY <2>1 DEF CountsThreads, CountingPolicies
  <2>3. assigned' \in [Threads -> Devices \cup {NoDevice}] /\ pc' \in [Threads -> Places]
    BY <2>1 DEF CountInv, TableTypes, Places
  <2>4. DEV_RR' \in Devices
    <3>1. BACKEND_DEVICES \in 1 .. MaxDevices /\ DEV_RR + 1 \in Nat /\ MaxDevices \in Nat
      BY <2>1, GlobalSchedAssumption DEF CountInv, TableTypes, Devices
    <3>2. (DEV_RR + 1) % BACKEND_DEVICES \in 0 .. BACKEND_DEVICES - 1
      BY <3>1
    <3> QED
      BY <2>1, <3>1, <3>2 DEF Devices
  <2>5. TableTypes'
    BY <2>1, <2>4 DEF CountInv, TableTypes
  <2>6. ASSUME NEW u \in Threads
        PROVE  /\ pc'[u] = "none" => gets'[u] = 0
               /\ gets'[u] = 0 => assigned'[u] = NoDevice
               /\ pc'[u] \in {"store", "pick"} =>
                    gets'[u] > 0 /\ (gets'[u] = 1 => assigned'[u] = NoDevice)
    <3>1. CASE u = t
      BY <2>1, <3>1 DEF CountInv
    <3>2. CASE u # t
      BY <2>1, <3>2 DEF CountInv
    <3> QED
      BY <3>1, <3>2
  <2> QED
    BY <2>1, <2>2, <2>3, <2>5, <2>6 DEF CountInv
<1>5. ASSUME NEW t \in Threads, PickCheapest(t) PROVE CountInv'
  BY <1>5, PickCounts
<1>6. ASSUME NEW t \in Threads, Close(t) PROVE CountInv'
  BY <1>6, CloseCounts
<1>7. ASSUME NEW t \in Threads, CloseUnassigned(t) \/ CloseOverruns(t) PROVE CountInv'
  <2>1. /\ assigned[t] \notin Counted /\ pc' = [pc EXCEPT ![t] = "done"]
        /\ UNCHANGED <<policy, BACKEND_DEVICES, DEV_RR, thread_count, assigned, gets>>
    BY <1>7, TableFacts DEF CloseUnassigned, CloseOverruns
  <2>2. \A d \in Counted : t \notin Bound(d)
    BY <2>1 DEF Bound
  <2>3. /\ pc' \in [Threads -> Places] /\ pc'[t] = "done"
        /\ \A u \in Threads : u # t => pc'[u] = pc[u]
    BY <2>1 DEF CountInv, Places
  <2>4. \A d \in Counted : Bound(d)' = Bound(d)
    BY <2>1, <2>2, <2>3 DEF Bound
  <2>5. CountsThreads' /\ TableTypes'
    BY <2>1, <2>4 DEF CountsThreads, AskedOnce, CountInv, TableTypes
  <2> QED
    BY <2>1, <2>3, <2>5 DEF CountInv
<1>8. CASE (\E t \in Threads : PickRRDivides(t) \/ PickOverruns(t)) \/ Terminated \/ UNCHANGED vars
  BY <1>8 DEF PickRRDivides, PickOverruns, Terminated, vars, CountInv, TableTypes, CountsThreads, AskedOnce, Bound
<1> QED
  BY <1>1, <1>2, <1>3, <1>4, <1>5, <1>6, <1>7, <1>8 DEF Next

\* The counters start right.
LEMMA CountInit == Init => CountInv
<1> SUFFICES ASSUME Init PROVE CountInv
  OBVIOUS
<1>1. TableTypes /\ pc \in [Threads -> Places] /\ gets \in [Threads -> Nat]
  <2>1. policy \in AllPolicies /\ BACKEND_DEVICES \in 0 .. MaxDevices /\ DEV_RR \in Devices
    BY GlobalSchedAssumption DEF Init, Devices
  <2>2. thread_count \in [Counted -> Int]
    BY DEF Init
  <2> QED
    BY <2>1, <2>2 DEF Init, TableTypes, Places
<1>2. \A d \in Counted : Bound(d) = {}
  BY TableFacts DEF Init, Bound
<1>3. CountsThreads
  BY <1>2, FS_EmptySet DEF Init, CountsThreads
<1> QED
  BY <1>1, <1>3 DEF Init, CountInv

\* With fewer connections than an int counts, and one request each, the
\* counter of a device is the number of the threads bound to it, under every
\* policy that counts connections and for any interleaving
\* (get_next_device..., dec_thread_count_per_device).
THEOREM CountersRight ==
    ASSUME FewThreads
    PROVE  Spec => []CountsThreads
<1>1. CountInv /\ [Next]_vars => CountInv'
  BY CountNext
<1>2. CountInv => CountsThreads
  BY DEF CountInv
<1> QED
  BY <1>1, <1>2, CountInit, PTL DEF Spec

\* The clients that have asked agree: the number in force is that of any.
KnownInv ==
    /\ AskInv
    /\ Agree => \A t \in Threads : pc[t] = "pick" => BACKEND_DEVICES = DevicesOf[t]

\* Every step keeps that: only a request that is stored sets the number, and
\* only for clients that have asked.
LEMMA KnownNext == KnownInv /\ [Next]_vars => KnownInv'
<1> SUFFICES ASSUME KnownInv, [Next]_vars, Agree', NEW t \in Threads, pc'[t] = "pick"
             PROVE  BACKEND_DEVICES' = DevicesOf[t]
  BY AskNext DEF KnownInv
<1>1. AskInv' /\ Asked \subseteq Asked' /\ AskInv
  BY AskNext DEF KnownInv
<1>2. Agree /\ \A u \in Threads : pc'[u] \in {"store", "pick"} => DevicesOf[u] = DevicesOf[t]
  BY <1>1 DEF Agree, AskInv
<1>3. \A u \in Threads : pc[u] = "store" => DevicesOf[u] = DevicesOf[t]
  BY <1>1 DEF Agree, AskInv
<1>4. ASSUME NEW u \in Threads, Store(u) PROVE BACKEND_DEVICES' = DevicesOf[t]
  BY <1>3, <1>4 DEF Store
<1>5. ASSUME NEW u \in Threads,
             \/ Connect(u) \/ Receive(u) \/ PickRR(u) \/ PickRRDivides(u) \/ PickCheapest(u)
             \/ PickOverruns(u) \/ Reply(u) \/ Close(u) \/ CloseOverruns(u) \/ CloseUnassigned(u)
      PROVE  BACKEND_DEVICES' = DevicesOf[t]
  <2>1. /\ UNCHANGED BACKEND_DEVICES
        /\ pc' = pc \/ \E s \in Places \ {"pick"} : pc' = [pc EXCEPT ![u] = s]
    BY <1>5 DEF Connect, Receive, PickRR, PickRRDivides, PickCheapest, PickOverruns, Assign, Reply,
                Close, CloseOverruns, CloseUnassigned, Places
  <2>2. pc[t] = "pick"
    BY <1>1, <2>1 DEF AskInv, Places
  <2> QED
    BY <1>2, <2>1, <2>2 DEF KnownInv
<1>6. CASE Terminated \/ UNCHANGED vars
  BY <1>2, <1>6 DEF Terminated, vars, KnownInv
<1> QED
  BY <1>4, <1>5, <1>6 DEF Next

\* Under a policy that counts connections, an answer is ready only by its pick.
LEMMA OnlyPickPicks ==
    ASSUME CountInv, Next, policy # "RR", NEW t \in Threads, pc[t] = "pick", pc'[t] = "reply"
    PROVE  PickCheapest(t)
<1>1. PICK u \in Threads : PickCheapest(u)
  <2>1. ASSUME NEW u \in Threads,
               \/ Connect(u) \/ Receive(u) \/ Store(u) \/ Reply(u) \/ Close(u) \/ CloseOverruns(u)
               \/ CloseUnassigned(u) \/ PickOverruns(u)
        PROVE  FALSE
    BY <2>1 DEF Connect, Receive, Store, Reply, Close, CloseOverruns, CloseUnassigned, PickOverruns,
                CountInv
  <2>2. ASSUME NEW u \in Threads, PickRR(u) \/ PickRRDivides(u) PROVE FALSE
    BY <2>2 DEF PickRR, PickRRDivides
  <2>3. ~ Terminated
    BY DEF Terminated, vars
  <2> QED
    BY <2>1, <2>2, <2>3 DEF Next
<1>2. u = t
  BY <1>1 DEF PickCheapest, Assign, CountInv
<1> QED
  BY <1>1, <1>2

\* What a pick for a client that fits the tables compares is what the devices
\* really bear, and it compares all the client knows.
LEMMA PickLeast ==
    ASSUME CountInv, NEW t \in Threads, PickCheapest(t), Fits(t), BACKEND_DEVICES = DevicesOf[t],
           policy \in CountingPolicies, AskedOnce, NEW e \in 0 .. DevicesOf[t] - 1
    PROVE  Load(assigned'[t]) <= Load(e)
<1>1. BACKEND_DEVICES \in 1 .. TableSize
  BY DEF Fits
<1>2. PICK d \in Cheapest(t) : assigned'[t] = d
  BY DEF PickCheapest, Assign, CountInv
<1>3. d \in Scanned(t) /\ d \in Table
  BY <1>1, <1>2, ScanFits DEF Cheapest
<1>4. e \in Scanned(t) /\ e \in Table
  <2>1. Start(t) < BACKEND_DEVICES
    BY <1>1, TableFacts DEF Fits, Start
  <2>2. e \in Scanned(t)
    BY <2>1 DEF Scanned
  <2> QED
    BY <1>1, <2>2, ScanFits
<1>5. Cost(d) < Cost(e) \/ Cost(d) = Cost(e)
  BY <1>2, <1>3, <1>4 DEF Cheapest
<1>6. \A x \in Table : Cost(x) = Load(x) /\ Cost(x) \in Int
  <2>1. \A x \in Table : x \in Counted
    BY TableFacts
  <2>2. \A x \in Table : policy \in WeightedPolicies => Weight[x] \in Int
    BY GlobalSchedAssumption DEF Table, TableSize
  <2> QED
    BY <2>1, <2>2 DEF CountInv, CountsThreads, TableTypes, Cost, Load
<1> QED
  BY <1>2, <1>3, <1>4, <1>5, <1>6

\* With fewer connections than an int counts, one request each, and clients
\* that agree and fit the tables, a policy that counts connections returns the
\* device that really bears least (get_next_device and its variants).
THEOREM LeastLoadedPicked ==
    ASSUME FewThreads
    PROVE  Spec => PicksLeastLoaded
<1>1. KnownInv /\ [Next]_vars => KnownInv'
  BY KnownNext
<1>2. Init => KnownInv
  BY DEF Init, KnownInv, AskInv, Places, Asked
<1>3. CountInv /\ [Next]_vars => CountInv'
  BY CountNext
<1>4. CountInv /\ KnownInv /\ [Next]_vars =>
        [\A t \in Threads :
           /\ policy \in CountingPolicies /\ AskedOnce /\ Agree /\ Fits(t)
           /\ pc[t] = "pick" /\ pc'[t] = "reply"
           => \A e \in 0 .. DevicesOf[t] - 1 : Load(assigned'[t]) <= Load(e)]_vars
  <2> SUFFICES ASSUME CountInv, KnownInv, Next, NEW t \in Threads,
                      policy \in CountingPolicies, AskedOnce, Agree, Fits(t),
                      pc[t] = "pick", pc'[t] = "reply", NEW e \in 0 .. DevicesOf[t] - 1
               PROVE  Load(assigned'[t]) <= Load(e)
    OBVIOUS
  <2>1. PickCheapest(t)
    BY OnlyPickPicks DEF CountingPolicies
  <2>2. BACKEND_DEVICES = DevicesOf[t]
    BY DEF KnownInv
  <2> QED
    BY <2>1, <2>2, PickLeast
<1> QED
  BY <1>1, <1>2, <1>3, <1>4, CountInit, PTL DEF Spec, PicksLeastLoaded

-----------------------------------------------------------------------------
(* Types.                                                                   *)

\* Addition of ints yields an int.
LEMMA AddWraps == ASSUME NEW x \in Int, NEW y \in Int PROVE Add(x, y) \in Ints
<1>1. M \in Nat \ {0}
  BY GlobalSchedAssumption
<1>2. PICK n \in Nat : n = 2 * M /\ n > 0
  BY <1>1
<1>3. PICK z \in Int : z = x + y + M
  BY <1>1
<1>4. z % n \in 0 .. n - 1
  BY <1>2
<1>5. Add(x, y) = (z % n) - M
  BY <1>2, <1>3 DEF Add
<1> QED
  BY <1>1, <1>2, <1>4, <1>5 DEF Ints

\* Picks and the end of a connection keep the types of what they write.
LEMMA PickTypes ==
    ASSUME TypeOK, NEW t \in Threads, PickRR(t) \/ PickCheapest(t) \/ Close(t)
    PROVE  /\ DEV_RR' \in Devices /\ thread_count' \in [Counted -> Ints]
           /\ pc' \in [Threads -> Places] /\ assigned' \in [Threads -> Devices \cup {NoDevice}]
           /\ handed' \in [Devices -> Nat]
           /\ wild' \in BOOLEAN /\ UNCHANGED <<policy, alive, BACKEND_DEVICES, gets>>
<1>1. /\ wild \in BOOLEAN /\ DEV_RR \in Devices /\ thread_count \in [Counted -> Ints]
      /\ pc \in [Threads -> Places] /\ assigned \in [Threads -> Devices \cup {NoDevice}]
      /\ handed \in [Devices -> Nat] /\ BACKEND_DEVICES \in 0 .. MaxDevices
      /\ M \in Nat \ {0} /\ MaxDevices \in Nat \ {0}
  BY GlobalSchedAssumption DEF TypeOK, Places
<1>2. \A d \in Counted : thread_count[d] \in Int
  BY <1>1 DEF Ints
<1>3. ASSUME NEW d \in Devices, Assign(t, d)
      PROVE  /\ pc' \in [Threads -> Places] /\ assigned' \in [Threads -> Devices \cup {NoDevice}]
             /\ handed' \in [Devices -> Nat]
  <2>1. handed[d] + 1 \in Nat
    BY <1>1
  <2> QED
    BY <1>1, <1>3, <2>1 DEF Assign, Places
<1>4. ASSUME NEW d \in Counted, NEW c \in Int PROVE [thread_count EXCEPT ![d] = Add(@, c)] \in [Counted -> Ints]
  <2>1. Add(thread_count[d], c) \in Ints
    BY <1>2, AddWraps
  <2> QED
    BY <1>1, <2>1
<1>5. CASE PickRR(t)
  <2>1. (DEV_RR + 1) % BACKEND_DEVICES \in Devices
    <3>1. PICK b \in Nat : b = BACKEND_DEVICES /\ b > 0 /\ b <= MaxDevices
      BY <1>1, <1>5 DEF PickRR
    <3>2. PICK n \in Nat : n = DEV_RR + 1
      BY <1>1 DEF Devices
    <3>3. n % b \in 0 .. b - 1
      BY <3>1
    <3> QED
      BY <1>1, <3>1, <3>2, <3>3 DEF Devices
  <2>2. /\ DEV_RR' = (DEV_RR + 1) % BACKEND_DEVICES /\ Assign(t, DEV_RR)
        /\ UNCHANGED <<policy, alive, wild, BACKEND_DEVICES, thread_count, gets>>
    BY <1>5 DEF PickRR
  <2> QED
    BY <1>1, <1>3, <2>1, <2>2
<1>6. CASE PickCheapest(t)
  <2>0. PICK c \in Counted : \E n \in Charge(t, c) :
          thread_count' = [thread_count EXCEPT ![c] = Add(@, n)] /\ Assign(t, c)
    BY <1>6 DEF PickCheapest
  <2>1. PICK n \in Charge(t, c) :
          thread_count' = [thread_count EXCEPT ![c] = Add(@, n)] /\ Assign(t, c)
    BY <2>0
  <2>2. n \in Int /\ c \in Devices
    BY <1>1, TableFacts DEF Charge, Ints
  <2>3. wild' \in BOOLEAN /\ UNCHANGED <<policy, alive, BACKEND_DEVICES, DEV_RR, gets>>
    BY <1>1, <1>6 DEF PickCheapest
  <2> QED
    BY <1>1, <1>3, <1>4, <2>1, <2>2, <2>3
<1>7. CASE Close(t)
  <2>1. PICK d \in Counted : d = assigned[t]
    BY <1>1, <1>7 DEF Close
  <2>2. /\ thread_count' = [thread_count EXCEPT ![d] = Add(@, -1)] /\ pc' = [pc EXCEPT ![t] = "done"]
        /\ UNCHANGED <<policy, alive, wild, BACKEND_DEVICES, DEV_RR, assigned, gets, handed>>
    BY <1>7, <2>1 DEF Close
  <2>3. thread_count' \in [Counted -> Ints]
    BY <1>4, <2>2
  <2> QED
    BY <1>1, <2>2, <2>3 DEF Places
<1> QED
  BY <1>5, <1>6, <1>7

\* Every variable keeps its type under every policy and for clients that
\* disagree on the devices, as long as none counts more than MaxDevices of
\* them: a counter is an int whatever it wraps round to, and the round robin
\* never leaves the client's range.  That no access leaves the scheduler's own
\* tables is FittingHarmless, and holds only under its condition.
THEOREM GlobalTypeCorrect == Spec => []TypeOK
<1>1. Init => TypeOK
  <2> SUFFICES ASSUME Init PROVE TypeOK
    OBVIOUS
  <2>1. policy \in AllPolicies /\ 0 \in Devices /\ 0 \in Ints /\ 0 \in 0 .. MaxDevices
    BY GlobalSchedAssumption DEF Init, Devices, Ints
  <2> QED
    BY <2>1 DEF Init, TypeOK
<1>2. TypeOK /\ [Next]_vars => TypeOK'
  <2> SUFFICES ASSUME TypeOK, [Next]_vars PROVE TypeOK'
    OBVIOUS
  <2>1. ASSUME NEW t \in Threads, PickRR(t) \/ PickCheapest(t) \/ Close(t) PROVE TypeOK'
    BY <2>1, PickTypes DEF TypeOK, Places
  <2>2. ASSUME NEW t \in Threads,
               \/ Connect(t) \/ Receive(t) \/ Store(t) \/ PickRRDivides(t) \/ PickOverruns(t)
               \/ Reply(t) \/ CloseOverruns(t) \/ CloseUnassigned(t)
        PROVE  TypeOK'
    <3>1. UNCHANGED <<policy, DEV_RR, thread_count, assigned, handed>>
          /\ alive' \in BOOLEAN /\ wild' \in BOOLEAN
      BY <2>2 DEF Connect, Receive, Store, PickRRDivides, PickOverruns, Reply, CloseOverruns,
                  CloseUnassigned, TypeOK
    <3>2. BACKEND_DEVICES' \in 0 .. MaxDevices
      BY <2>2, GlobalSchedAssumption DEF Connect, Receive, Store, PickRRDivides, PickOverruns, Reply, CloseOverruns,
                  CloseUnassigned, TypeOK
    <3>3. \E to \in Places : pc' = pc \/ pc' = [pc EXCEPT ![t] = to]
      BY <2>2 DEF Connect, Receive, Store, PickRRDivides, PickOverruns, Reply, CloseOverruns,
                  CloseUnassigned, Places
    <3>4. pc' \in [Threads -> {"none", "wait", "store", "pick", "reply", "done"}]
      BY <3>3 DEF TypeOK, Places
    <3>5. gets' \in [Threads -> Nat]
      <4>1. gets[t] + 1 \in Nat /\ (gets' = gets \/ gets' = [gets EXCEPT ![t] = @ + 1])
        BY <2>2 DEF Connect, Receive, Store, PickRRDivides, PickOverruns, Reply, CloseOverruns,
                  CloseUnassigned, TypeOK
      <4> QED
        BY <4>1 DEF TypeOK
    <3> QED
      BY <3>1, <3>2, <3>4, <3>5 DEF TypeOK
  <2>3. CASE UNCHANGED vars
    BY <2>3 DEF TypeOK, vars
  <2> QED
    BY <2>1, <2>2, <2>3 DEF Next, Terminated
<1> QED
  BY <1>1, <1>2, PTL DEF Spec
=============================================================================

----------------------------- MODULE DataProofs -----------------------------
(***************************************************************************)
(* Proofs about the two places in which data must come back as it was put   *)
(* there: VirtMem, the pager that moves the allocations of a process        *)
(* between the device and swap, and Packing, the structures that are        *)
(* packed, sent and unpacked.                                               *)
(*                                                                         *)
(* The pager, for any number of serving processes and allocations: the one  *)
(* real entry of its table is given out once each time the table is         *)
(* cleared, and who filled it reads back what it wrote.                     *)
(*                                                                         *)
(* The packing, for any structure, with lists and strings of any length:    *)
(* computing the size, packing and unpacking walk the same bytes, and what  *)
(* is read is what was sent.                                                *)
(***************************************************************************)
EXTENDS VirtMem, Packing, WellFoundedInduction, TLAPS

-----------------------------------------------------------------------------
(* The pager.                                                              *)

Places == {"out", "up", "stuck"} \cup InMalloc
Entries == [valid : BOOLEAN, dev : 0..2, swap : 0..2,
            owner : Procs \cup {NoOwner}, status : Status]

TypeInv ==
    /\ pager \in {"off", "setval", "table", "index", "init", "dead"}
    /\ gsem \in -1..1 /\ lsem \in BOOLEAN
    /\ segs \subseteq Segments
    /\ vindex \in Nat
    /\ entry \in Entries
    /\ vp \in [Procs -> Places]
    /\ my \in [Procs -> Nat]
    /\ local \in [Procs -> BOOLEAN]
    /\ last \in {0} \cup Values
    /\ lost \in BOOLEAN /\ zeros \in Nat

\* Nobody runs before both segments exist, and until then the semaphore is
\* that of a pager which has not been killed.
StartInv ==
    /\ segs # Segments => ~lost /\ \A p \in Procs : vp[p] = "out"
    /\ pager \in {"off", "setval", "table"} => segs = {}
    /\ pager = "index" => segs = {"table"}

\* One process at a time between P and V, and none once one was killed there.
SectionInv ==
    /\ \A p, q \in Procs : vp[p] \in InSection /\ vp[q] \in InSection => p = q
    /\ \A p \in Procs : vp[p] \in InSection => gsem =< 0
    /\ lost => gsem =< 0 /\ \A p \in Procs : vp[p] \notin InSection

\* The counter that was read as 0 is positive again before it can be read once
\* more: whoever read it increments it, or was killed and keeps everybody out.
OnceInv ==
    /\ zeros =< 1
    /\ zeros = 1 => vindex > 0 \/ lost \/ \E p \in Procs : vp[p] = "inc"

\* What the process that filled entry 0 wrote last is on the device if the status
\* says so, and in the swap area otherwise.
Kept ==
    /\ entry.status \notin {"D_NOALLOC", "D_INIT"}
    /\ IF Synced THEN entry.dev = last ELSE entry.swap = last
DataInv == \A p \in Procs : Own(p) /\ last # 0 => Kept

IInv == TypeInv /\ StartInv /\ SectionInv /\ OnceInv /\ DataInv

-----------------------------------------------------------------------------
(* Types.                                                                  *)

\* What stays an entry: one with another status and other data, one a kernel map
\* has overrun, and the one a process fills.
LEMMA EntryTypes ==
    /\ \A e \in Entries, s \in Status, d \in 0..2, w \in 0..2 :
         [e EXCEPT !.status = s, !.swap = w, !.dev = d] \in Entries
    /\ \A e \in Entries, s \in Status, w \in 0..2 : [e EXCEPT !.status = s, !.swap = w] \in Entries
    /\ \A e \in Entries : [e EXCEPT !.dev = 0, !.swap = 0] \in Entries
    /\ \A e \in Entries, b \in BOOLEAN, s \in Status :
         [e EXCEPT !.valid = b, !.status = s] \in Entries
    /\ \A p \in Procs, s \in Status :
         [valid |-> TRUE, dev |-> 0, swap |-> 0, owner |-> p, status |-> s] \in Entries
    /\ NoEntry \in Entries
<1>1. \A e \in Entries, s \in Status, d \in 0..2, w \in 0..2 :
         [e EXCEPT !.status = s, !.swap = w, !.dev = d] \in Entries
  BY DEF Entries
<1>2. \A e \in Entries, s \in Status, w \in 0..2 : [e EXCEPT !.status = s, !.swap = w] \in Entries
  BY DEF Entries
<1>3. \A e \in Entries : [e EXCEPT !.dev = 0, !.swap = 0] \in Entries
  <2>1. ASSUME NEW e \in Entries, NEW d, d = 0 PROVE [e EXCEPT !.dev = d, !.swap = d] \in Entries
    <3>1. d \in 0..2
      BY <2>1
    <3> QED
      BY <3>1 DEF Entries
  <2> QED
    BY <2>1
<1>4. \A e \in Entries, b \in BOOLEAN, s \in Status :
         [e EXCEPT !.valid = b, !.status = s] \in Entries
  BY DEF Entries
<1>5. "D_NOALLOC" \in Status
  BY DEF Status
<1>6. \A p \in Procs, s \in Status :
         [valid |-> TRUE, dev |-> 0, swap |-> 0, owner |-> p, status |-> s] \in Entries
  BY DEF Entries
<1>7. NoEntry \in Entries
  BY <1>5 DEF Entries, NoEntry
<1> QED
  BY <1>1, <1>2, <1>3, <1>4, <1>6, <1>7

\* The type invariant of the model is the one used here.
LEMMA TypeForm == VirtMemTypeOK <=> TypeInv
  BY DEF VirtMemTypeOK, TypeInv, Entries, Places

\* The fields of an entry.
LEMMA EntryFields ==
    ASSUME TypeInv
    PROVE  /\ entry \in Entries /\ entry.status \in Status
           /\ entry.dev \in 0..2 /\ entry.swap \in 0..2
           /\ entry.valid \in BOOLEAN /\ entry.owner \in Procs \cup {NoOwner}
  BY DEF TypeInv, Entries

\* A copy to the device keeps the entry an entry.
LEMMA CopyH2DType ==
    ASSUME TypeInv, NEW p \in Procs, NEW v \in Values, CopyH2D(p, v)
    PROVE  TypeInv'
<1>1. CopyH2DStatus \in Status
  BY DEF CopyH2DStatus, Status
<1>2. entry' \in Entries
  <2>1. PICK d \in 0..2, w \in 0..2 :
          entry' = [entry EXCEPT !.status = CopyH2DStatus, !.swap = w, !.dev = d]
    <3>1. v \in 0..2
      BY DEF Values
    <3>2. /\ (IF Own(p) THEN v ELSE entry.swap) \in 0..2
          /\ (IF Own(p) /\ OnDevice THEN v ELSE entry.dev) \in 0..2
      BY <3>1, EntryFields
    <3> QED
      BY <3>2 DEF CopyH2D
  <2> QED
    BY <1>1, <2>1, EntryFields, EntryTypes
<1>3. last' \in {0} \cup Values
  BY DEF CopyH2D, TypeInv
<1> QED
  BY <1>2, <1>3 DEF CopyH2D, TypeInv, procState

\* A copy to the host keeps the types.
LEMMA CopyD2HType ==
    ASSUME TypeInv, NEW p \in Procs, CopyD2H(p)
    PROVE  TypeInv'
<1>1. entry' \in Entries
  <2>1. SwapAfter(p) \in 0..2
    BY EntryFields DEF SwapAfter
  <2>2. (IF Synced THEN "D_READY" ELSE entry.status) \in Status
    BY EntryFields DEF Status
  <2> QED
    BY <2>1, <2>2, EntryFields, EntryTypes DEF CopyD2H
<1> QED
  BY <1>1 DEF CopyD2H, TypeInv, procState, callVars

\* So does the end of a process.
LEMMA GoneType ==
    ASSUME TypeInv, NEW p \in Procs, Gone(p), lsem' \in BOOLEAN
    PROVE  TypeInv'
<1>1. entry' \in Entries
  BY EntryFields, EntryTypes DEF Gone
<1>2. vp' \in [Procs -> Places] /\ my' \in [Procs -> Nat]
  BY DEF Gone, TypeInv, Places
<1>3. local' \in [Procs -> BOOLEAN]
  BY DEF Gone, TypeInv
<1>4. last' \in {0} \cup Values
  BY DEF Gone, TypeInv
<1>5. lost' \in BOOLEAN
  BY DEF Gone, TypeInv
<1> QED
  BY <1>1, <1>2, <1>3, <1>4, <1>5 DEF Gone, TypeInv, Counter

\* And a kernel map that overruns.
LEMMA OverrunType ==
    ASSUME TypeInv, Overrun
    PROVE  entry' \in Entries /\ vindex' \in Nat /\ zeros' \in Nat /\ last' = 0
<1>1. entry' \in Entries
  <2>1. PICK valid \in {FALSE, entry.valid}, status \in {"D_NOALLOC", entry.status} :
          entry' \in {[entry EXCEPT !.valid = valid, !.status = status],
                     [NoEntry EXCEPT !.valid = valid, !.status = status]}
    BY DEF Overrun
  <2>2. valid \in BOOLEAN
    BY EntryFields
  <2>3. status \in Status
    BY EntryFields DEF Status
  <2>4. [entry EXCEPT !.valid = valid, !.status = status] \in Entries
    BY <2>2, <2>3, EntryFields, EntryTypes
  <2>5. [NoEntry EXCEPT !.valid = valid, !.status = status] \in Entries
    BY <2>2, <2>3, EntryTypes
  <2> QED
    BY <2>1, <2>4, <2>5
<1> QED
  BY <1>1 DEF Overrun, Cleared, Counter, TypeInv

\* Every step keeps every variable in its type.
LEMMA TypeNext == TypeInv /\ SectionInv /\ [VirtMemNext]_vmVars => TypeInv'
<1> SUFFICES ASSUME TypeInv, SectionInv, [VirtMemNext]_vmVars PROVE TypeInv'
  OBVIOUS
<1>1. CASE PagerNext
  <2>1. CASE PagerSem \/ PagerSetVal
    BY <2>1 DEF PagerSem, PagerSetVal, TypeInv, procState, callVars
  <2>2. CASE PagerTable \/ PagerIndex
    BY <2>2 DEF PagerTable, PagerIndex, PagerShm, Segments, TypeInv, procState, callVars
  <2>3. CASE mem_map_init
    <3>1. vindex' \in Nat /\ zeros' \in Nat
      BY <2>3 DEF mem_map_init, Cleared, Counter, TypeInv
    <3> QED
      BY <2>3, <3>1, EntryTypes DEF mem_map_init, TypeInv, procState
  <2>4. CASE PagerKilled
    BY <2>4 DEF PagerKilled, TypeInv, procState, callVars
  <2> QED
    BY <1>1, <2>1, <2>2, <2>3, <2>4 DEF PagerNext
<1>2. ASSUME NEW p \in Procs, Attach(p) PROVE TypeInv'
  <2>1. entry' \in Entries /\ vindex' \in Nat /\ zeros' \in Nat /\ last' \in {0} \cup Values
    <3>1. CASE UNCHANGED <<entry, Counter, last>>
      BY <3>1 DEF TypeInv, Counter
    <3>2. CASE Overrun
      BY <3>2, OverrunType
    <3> QED
      BY <1>2, <3>1, <3>2 DEF Attach
  <2>2. vp' \in [Procs -> Places]
    BY <1>2 DEF Attach, TypeInv, Places
  <2> QED
    BY <1>2, <2>1, <2>2 DEF Attach, TypeInv
<1>3. ASSUME NEW p \in Procs,
             \/ Malloc(p) \/ MallocP(p) \/ MallocRead(p) \/ MallocInc(p) \/ MallocV(p)
             \/ Free(p) \/ SetupArgument(p) \/ LaunchFails(p) \/ LaunchHangs(p)
      PROVE  TypeInv'
  <2>1. CASE Malloc(p) \/ LaunchHangs(p)
    BY <2>1 DEF Malloc, LaunchHangs, TypeInv, Places, InMalloc, callVars
  <2>4. CASE MallocRead(p) \/ MallocInc(p)
    <3>1. vp' \in [Procs -> Places] /\ my' \in [Procs -> Nat]
      BY <2>4 DEF MallocRead, MallocInc, TypeInv, Places, InMalloc
    <3>2. vindex' \in Nat /\ zeros' \in Nat
      BY <2>4 DEF MallocRead, MallocInc, TypeInv, callVars
    <3> QED
      BY <2>4, <3>1, <3>2 DEF MallocRead, MallocInc, TypeInv, callVars
  <2>2. CASE MallocP(p) \/ MallocV(p)
    <3>1. gsem' \in -1..1
      BY <2>2 DEF MallocP, MallocV, TypeInv, SectionInv, InSection
    <3>2. vp' \in [Procs -> Places]
      BY <2>2 DEF MallocP, MallocV, TypeInv, Places, InMalloc
    <3> QED
      BY <2>2, <3>1, <3>2 DEF MallocP, MallocV, TypeInv, Places, callVars
  <2>3. CASE Free(p) \/ SetupArgument(p) \/ LaunchFails(p)
    BY <2>3 DEF Free, SetupArgument, LaunchFails, TypeInv, vmVars, procState, callVars
  <2> QED
    BY <1>3, <2>1, <2>2, <2>3, <2>4
<1>4. ASSUME NEW p \in Procs, mem_map_creat(p) PROVE TypeInv'
  <2>1. entry' \in Entries /\ vindex' \in Nat
    <3>1. "D_INIT" \in Status /\ "D_NOALLOC" \in Status
      BY DEF Status
    <3>2. CASE my[p] = 0
      BY <1>4, <3>1, <3>2, EntryTypes DEF mem_map_creat, TypeInv
    <3>3. CASE my[p] # 0
      BY <1>4, <3>3, EntryFields DEF mem_map_creat
    <3> QED
      BY <3>2, <3>3
  <2>2. local' \in [Procs -> BOOLEAN]
    BY <1>4 DEF mem_map_creat, TypeInv
  <2>3. my' \in [Procs -> Nat] /\ last' \in {0} \cup Values
    BY <1>4 DEF mem_map_creat, TypeInv
  <2>4. vp' \in [Procs -> Places]
    BY <1>4 DEF mem_map_creat, TypeInv, Places
  <2> QED
    BY <1>4, <2>1, <2>2, <2>3, <2>4 DEF mem_map_creat, TypeInv
<1>5. ASSUME NEW p \in Procs, CreatDies(p) \/ CopyDies(p) \/ LaunchDies(p) \/ Ends(p)
      PROVE  TypeInv'
  <2>1. Gone(p) /\ lsem' \in BOOLEAN
    BY <1>5 DEF CreatDies, CopyDies, LaunchDies, Ends, Detach, TypeInv
  <2> QED
    BY <2>1, GoneType
<1>6. CASE UNCHANGED vmVars
  BY <1>6 DEF vmVars, TypeInv
<1> QED
  BY <1>1, <1>2, <1>3, <1>4, <1>5, <1>6, CopyH2DType, CopyD2HType
     DEF VirtMemNext, Allocates, Calls

-----------------------------------------------------------------------------
(* Steps of a process, by what they do to the state the invariants read.   *)

\* Steps outside the section that touch neither the table nor an index.
Quiet(p) ==
    /\ vp[p] = "up"
    /\ \E s \in {"up", "P", "stuck"} : vp' = [vp EXCEPT ![p] = s]
    /\ UNCHANGED <<pager, gsem, segs, vindex, entry, my, local, callVars>>

\* The calls that do so, and those a process does not survive.
LEMMA QuietSteps ==
    ASSUME TypeInv, NEW p \in Procs,
           Malloc(p) \/ Free(p) \/ SetupArgument(p) \/ LaunchFails(p) \/ LaunchHangs(p)
    PROVE  Quiet(p)
<1>1. vp[p] = "up"
  BY DEF Malloc, Free, SetupArgument, LaunchFails, LaunchHangs
<1>2. CASE Malloc(p) \/ LaunchHangs(p)
  BY <1>1, <1>2 DEF Malloc, LaunchHangs, Quiet, callVars
<1>3. CASE Free(p) \/ SetupArgument(p) \/ LaunchFails(p)
  <2>1. vp' = vp
    BY <1>3 DEF Free, SetupArgument, LaunchFails, vmVars, procState
  <2>2. vp' = [vp EXCEPT ![p] = "up"]
    BY <1>1, <2>1 DEF TypeInv
  <2> QED
    BY <1>1, <1>3, <2>2 DEF Free, SetupArgument, LaunchFails, vmVars, procState, callVars, Quiet
<1> QED
  BY <1>2, <1>3

\* The steps in which a process ends.
LEMMA GoneSteps ==
    ASSUME NEW p \in Procs, CreatDies(p) \/ CopyDies(p) \/ LaunchDies(p) \/ Ends(p)
    PROVE  vp[p] # "out" /\ Gone(p)
  BY DEF CreatDies, CopyDies, LaunchDies, Ends, Detach

\* The steps of the program, sorted.
LEMMA Steps ==
    ASSUME TypeInv, VirtMemNext
    PROVE  \/ PagerNext
           \/ \E p \in Procs :
                \/ Attach(p)
                \/ Quiet(p) \/ (vp[p] # "out" /\ Gone(p))
                \/ MallocP(p) \/ MallocRead(p) \/ MallocInc(p) \/ MallocV(p)
                \/ mem_map_creat(p) \/ (\E v \in Values : CopyH2D(p, v)) \/ CopyD2H(p)
<1>1. CASE PagerNext
  BY <1>1
<1>2. ASSUME NEW p \in Procs, Attach(p) \/ Allocates(p) \/ Calls(p) \/ Ends(p)
      PROVE  \/ Attach(p)
             \/ Quiet(p) \/ (vp[p] # "out" /\ Gone(p))
             \/ MallocP(p) \/ MallocRead(p) \/ MallocInc(p) \/ MallocV(p)
             \/ mem_map_creat(p) \/ (\E v \in Values : CopyH2D(p, v)) \/ CopyD2H(p)
  BY <1>2, QuietSteps, GoneSteps DEF Allocates, Calls
<1> QED
  BY <1>1, <1>2 DEF VirtMemNext

\* Before the table exists.
LEMMA StartNext == IInv /\ VirtMemNext => StartInv'
<1> SUFFICES ASSUME IInv, VirtMemNext PROVE StartInv'
  OBVIOUS
<1> USE DEF IInv
<1>1. CASE PagerNext
  <2>1. CASE PagerSem \/ PagerSetVal
    BY <2>1 DEF PagerSem, PagerSetVal, StartInv, procState, callVars
  <2>2. CASE PagerTable
    BY <2>2 DEF PagerTable, PagerShm, StartInv, procState, callVars, Segments
  <2>3. CASE PagerIndex
    BY <2>3 DEF PagerIndex, PagerShm, StartInv, procState, callVars, Segments
  <2>4. CASE mem_map_init \/ PagerKilled
    BY <2>4 DEF mem_map_init, PagerKilled, StartInv, procState, callVars
  <2> QED
    BY <1>1, <2>1, <2>2, <2>3, <2>4 DEF PagerNext
<1>2. ASSUME NEW p \in Procs, vp[p] # "out" \/ CanAttach, UNCHANGED <<pager, segs, lost>>
      PROVE  StartInv'
  BY <1>2 DEF StartInv, CanAttach, Segments
<1>3. ASSUME NEW p \in Procs, Attach(p) PROVE StartInv'
  BY <1>2, <1>3 DEF Attach
<1>4. ASSUME NEW p \in Procs, Quiet(p) \/ (vp[p] # "out" /\ Gone(p)) PROVE StartInv'
  <2>1. CASE Quiet(p)
    BY <1>2, <2>1 DEF Quiet, callVars
  <2>2. CASE vp[p] # "out" /\ Gone(p)
    BY <2>2 DEF Gone, StartInv, TypeInv
  <2> QED
    BY <1>4, <2>1, <2>2
<1>5. ASSUME NEW p \in Procs,
             MallocP(p) \/ MallocRead(p) \/ MallocInc(p) \/ MallocV(p) \/ mem_map_creat(p)
      PROVE  StartInv'
  BY <1>2, <1>5 DEF MallocP, MallocRead, MallocInc, MallocV, mem_map_creat, callVars
<1>6. ASSUME NEW p \in Procs, (\E v \in Values : CopyH2D(p, v)) \/ CopyD2H(p) PROVE StartInv'
  BY <1>2, <1>6 DEF CopyH2D, CopyD2H, procState, callVars
<1> QED
  BY <1>1, <1>3, <1>4, <1>5, <1>6, Steps

\* The semaphore lets one process in: it is 1 at most when nobody is inside.
LEMMA SectionNext == IInv /\ VirtMemNext => SectionInv'
<1> SUFFICES ASSUME IInv, VirtMemNext PROVE SectionInv'
  OBVIOUS
<1> USE DEF IInv
<1>1. CASE PagerNext
  <2>1. CASE PagerSem \/ PagerSetVal
    <3>1. ~lost' /\ \A p \in Procs : vp[p] = "out" /\ vp' = vp
      BY <2>1 DEF PagerSem, PagerSetVal, StartInv, procState, callVars, Segments
    <3> QED
      BY <3>1 DEF SectionInv, InSection
  <2>2. CASE PagerTable \/ PagerIndex \/ mem_map_init \/ PagerKilled
    BY <2>2 DEF PagerTable, PagerIndex, PagerShm, mem_map_init, PagerKilled, SectionInv,
                   procState, callVars
  <2> QED
    BY <1>1, <2>1, <2>2 DEF PagerNext
<1>2. ASSUME NEW p \in Procs, NEW s \in Places \ InSection, vp' = [vp EXCEPT ![p] = s],
             gsem' = gsem, lost' => lost \/ vp[p] \in InSection
      PROVE  SectionInv'
  <2>1. \A q \in Procs : vp'[q] \in InSection => q # p /\ vp[q] \in InSection
    BY <1>2 DEF TypeInv
  <2> QED
    BY <1>2, <2>1 DEF SectionInv
<1>3. ASSUME NEW p \in Procs, Attach(p) \/ Quiet(p) \/ Gone(p) \/ mem_map_creat(p) PROVE SectionInv'
  <2>1. {"out", "up", "P", "stuck"} \subseteq Places \ InSection
    BY DEF Places, InSection, InMalloc
  <2>2. gsem' = gsem /\ (lost' => lost \/ vp[p] \in InSection)
    <3>1. CASE Gone(p)
      BY <3>1 DEF Gone
    <3>2. CASE Attach(p) \/ Quiet(p) \/ mem_map_creat(p)
      <4>1. gsem' = gsem /\ lost' = lost
        BY <3>2 DEF Attach, Quiet, mem_map_creat, callVars
      <4> QED
        BY <4>1
    <3> QED
      BY <1>3, <3>1, <3>2
  <2> QED
    BY <1>2, <1>3, <2>1, <2>2 DEF Attach, Quiet, Gone, mem_map_creat
<1>4. ASSUME NEW p \in Procs, MallocP(p) PROVE SectionInv'
  <2>1. gsem > 0 /\ gsem \in Int /\ lost' = lost
    BY <1>4 DEF MallocP, TypeInv, callVars
  <2>2. ~lost' /\ \A q \in Procs : vp[q] \notin InSection
    BY <2>1 DEF SectionInv
  <2>3. \A q \in Procs : vp'[q] \in InSection => q = p
    BY <1>4, <2>2 DEF MallocP, TypeInv
  <2>4. gsem' =< 0
    BY <1>4 DEF MallocP, TypeInv
  <2> QED
    BY <2>2, <2>3, <2>4 DEF SectionInv
<1>5. ASSUME NEW p \in Procs, MallocRead(p) \/ MallocInc(p) PROVE SectionInv'
  <2>1. /\ vp[p] \in InSection /\ gsem' = gsem /\ lost' = lost
        /\ \A q \in Procs : q # p => vp'[q] = vp[q]
    BY <1>5 DEF MallocRead, MallocInc, InSection, TypeInv, callVars
  <2> QED
    BY <2>1 DEF SectionInv
<1>6. ASSUME NEW p \in Procs, MallocV(p) PROVE SectionInv'
  <2>1. vp[p] \in InSection /\ vp'[p] \notin InSection /\ \A q \in Procs : q # p => vp'[q] = vp[q]
    BY <1>6 DEF MallocV, InSection, TypeInv
  <2>2. ~lost' /\ \A q \in Procs : vp'[q] \notin InSection
    BY <1>6, <2>1 DEF SectionInv, MallocV, callVars
  <2> QED
    BY <2>2 DEF SectionInv
<1>7. ASSUME NEW p \in Procs, (\E v \in Values : CopyH2D(p, v)) \/ CopyD2H(p) PROVE SectionInv'
  <2>1. vp' = vp /\ gsem' = gsem /\ lost' = lost
    BY <1>7 DEF CopyH2D, CopyD2H, procState, callVars
  <2> QED
    BY <2>1 DEF SectionInv
<1> QED
  BY <1>1, <1>3, <1>4, <1>5, <1>6, <1>7, Steps

\* A step keeps OnceInv if it clears the counter, or leaves it positive, or does
\* not change it and nobody who is about to increment it stops.
LEMMA OnceKept ==
    ASSUME IInv, lost => lost',
           \/ zeros' = 0
           \/ zeros' = zeros /\ vindex' > 0
           \/ /\ zeros' = zeros /\ vindex' = vindex
              /\ \A q \in Procs : vp[q] = "inc" => vp'[q] = "inc" \/ lost'
    PROVE  OnceInv'
  BY DEF IInv, OnceInv, TypeInv

\* The steps of cudaMalloc up to the table entry.
LEMMA MallocEffect ==
    ASSUME TypeInv, NEW p \in Procs,
           MallocP(p) \/ MallocRead(p) \/ MallocInc(p) \/ MallocV(p)
    PROVE  UNCHANGED <<entry, local, last, lost>> /\ \A q \in Procs : q # p => vp'[q] = vp[q]
  BY DEF MallocP, MallocRead, MallocInc, MallocV, callVars, TypeInv

\* The counter is never read as 0 twice.
LEMMA OnceNext == IInv /\ VirtMemNext => OnceInv'
<1> SUFFICES ASSUME IInv, VirtMemNext PROVE OnceInv'
  OBVIOUS
<1>1. TypeInv /\ SectionInv /\ vindex \in Nat /\ zeros \in Nat
  BY DEF IInv, TypeInv
<1>2. CASE PagerNext
  <2>1. vp' = vp /\ lost' = lost
    BY <1>2 DEF PagerNext, PagerSem, PagerSetVal, PagerTable, PagerIndex, PagerShm, mem_map_init,
                PagerKilled, procState, callVars
  <2>2. zeros' = 0 \/ (vindex' = vindex /\ zeros' = zeros)
    <3>1. CASE mem_map_init
      BY <3>1 DEF mem_map_init, Cleared, Counter
    <3>2. CASE PagerSem \/ PagerSetVal \/ PagerTable \/ PagerIndex \/ PagerKilled
      BY <3>2 DEF PagerSem, PagerSetVal, PagerTable, PagerIndex, PagerShm, PagerKilled, callVars
    <3> QED
      BY <1>2, <3>1, <3>2 DEF PagerNext
  <2> QED
    BY <2>1, <2>2, OnceKept
<1>3. ASSUME NEW p \in Procs, Attach(p) PROVE OnceInv'
  <2>1. lost' = lost /\ \A q \in Procs : vp[q] = "inc" => vp'[q] = "inc"
    BY <1>1, <1>3 DEF Attach, TypeInv
  <2>2. zeros' = 0 \/ (vindex' = vindex /\ zeros' = zeros)
    BY <1>3 DEF Attach, Overrun, Cleared, Counter
  <2> QED
    BY <2>1, <2>2, OnceKept
<1>4. ASSUME NEW p \in Procs, Quiet(p) PROVE OnceInv'
  <2>1. \A q \in Procs : vp[q] = "inc" => vp'[q] = "inc"
    BY <1>1, <1>4 DEF Quiet, TypeInv
  <2> QED
    BY <1>4, <2>1, OnceKept DEF Quiet, callVars
<1>5. ASSUME NEW p \in Procs, Gone(p) PROVE OnceInv'
  <2>1. (lost => lost') /\ \A q \in Procs : vp[q] = "inc" => vp'[q] = "inc" \/ lost'
    BY <1>1, <1>5 DEF Gone, TypeInv, InSection
  <2>2. vindex' = vindex /\ zeros' = zeros
    BY <1>5 DEF Gone, Counter
  <2> QED
    BY <2>1, <2>2, OnceKept
<1>6. ASSUME NEW p \in Procs, MallocP(p) \/ MallocV(p) PROVE OnceInv'
  <2>1. lost' = lost /\ \A q \in Procs : vp[q] = "inc" => vp'[q] = "inc"
    BY <1>1, <1>6, MallocEffect DEF MallocP, MallocV
  <2> QED
    BY <1>6, <2>1, OnceKept DEF MallocP, MallocV, callVars
<1>7. ASSUME NEW p \in Procs, MallocInc(p) PROVE OnceInv'
  <2>1. zeros' = zeros /\ vindex' > 0 /\ lost' = lost
    BY <1>1, <1>7 DEF MallocInc, callVars
  <2> QED
    BY <2>1, OnceKept
<1>8. ASSUME NEW p \in Procs, MallocRead(p) PROVE OnceInv'
  <2>1. vp'[p] = "inc" /\ vindex' = vindex /\ lost' = lost
    BY <1>1, <1>8 DEF MallocRead, TypeInv
  <2>2. ~lost /\ \A q \in Procs : ~(vp[q] = "inc")
    BY <1>1, <1>8 DEF MallocRead, SectionInv, InSection
  <2>3. zeros =< 1 /\ (zeros = 1 => vindex > 0)
    BY <2>2 DEF IInv, OnceInv
  <2>4. zeros' =< 1
    BY <1>1, <1>8, <2>3 DEF MallocRead
  <2> QED
    BY <2>1, <2>4 DEF OnceInv
<1>9. ASSUME NEW p \in Procs, mem_map_creat(p) PROVE OnceInv'
  <2>1. zeros' = zeros /\ lost' = lost /\ \A q \in Procs : vp[q] = "inc" => vp'[q] = "inc"
    BY <1>1, <1>9 DEF mem_map_creat, TypeInv
  <2>2. vindex' = vindex \/ vindex' > 0
    BY <1>9 DEF mem_map_creat
  <2> QED
    BY <2>1, <2>2, OnceKept
<1>10. ASSUME NEW p \in Procs, (\E v \in Values : CopyH2D(p, v)) \/ CopyD2H(p) PROVE OnceInv'
  <2>1. vindex' = vindex /\ zeros' = zeros /\ lost' = lost /\ vp' = vp
    BY <1>10 DEF CopyH2D, CopyD2H, procState, callVars
  <2> QED
    BY <2>1, OnceKept
<1> QED
  BY <1>1, <1>2, <1>3, <1>4, <1>5, <1>6, <1>7, <1>8, <1>9, <1>10, Steps

\* A step keeps DataInv if it clears what was written last, or leaves that, the
\* entry and the processes that have index 0 as they are.
LEMMA DataKept ==
    ASSUME IInv, last' = 0 \/ UNCHANGED <<entry, local, last>>
    PROVE  DataInv'
  BY DEF IInv, DataInv, Own, Kept, Synced

\* The entry after a copy to the device, and after one to the host.
LEMMA CopyEffect ==
    ASSUME TypeInv, NEW p \in Procs
    PROVE  /\ \A v \in Values : CopyH2D(p, v) =>
                /\ local' = local /\ last' = (IF Own(p) THEN v ELSE last)
                /\ entry'.owner = entry.owner /\ entry'.status = CopyH2DStatus
                /\ entry'.swap = (IF Own(p) THEN v ELSE entry.swap)
                /\ entry'.dev = (IF Own(p) /\ OnDevice THEN v ELSE entry.dev)
           /\ CopyD2H(p) =>
                /\ local' = local /\ last' = last
                /\ entry'.owner = entry.owner /\ entry'.dev = entry.dev
                /\ entry'.status = (IF Synced THEN "D_READY" ELSE entry.status)
                /\ entry'.swap = SwapAfter(p)
<1>1. ASSUME NEW v \in Values, CopyH2D(p, v)
      PROVE  /\ local' = local /\ last' = (IF Own(p) THEN v ELSE last)
             /\ entry'.owner = entry.owner /\ entry'.status = CopyH2DStatus
             /\ entry'.swap = (IF Own(p) THEN v ELSE entry.swap)
             /\ entry'.dev = (IF Own(p) /\ OnDevice THEN v ELSE entry.dev)
  <2>1. local' = local /\ last' = (IF Own(p) THEN v ELSE last)
    BY <1>1 DEF CopyH2D, procState
  <2>2. /\ entry'.owner = entry.owner /\ entry'.status = CopyH2DStatus
        /\ entry'.swap = (IF Own(p) THEN v ELSE entry.swap)
        /\ entry'.dev = (IF Own(p) /\ OnDevice THEN v ELSE entry.dev)
    BY <1>1, TypeForm DEF CopyH2D, VirtMemTypeOK
  <2> QED
    BY <2>1, <2>2
<1>2. ASSUME CopyD2H(p)
      PROVE  /\ local' = local /\ last' = last
             /\ entry'.owner = entry.owner /\ entry'.dev = entry.dev
             /\ entry'.status = (IF Synced THEN "D_READY" ELSE entry.status)
             /\ entry'.swap = SwapAfter(p)
  <2>1. local' = local /\ last' = last
    BY <1>2 DEF CopyD2H, procState, callVars
  <2>2. /\ entry'.owner = entry.owner /\ entry'.dev = entry.dev
        /\ entry'.status = (IF Synced THEN "D_READY" ELSE entry.status)
        /\ entry'.swap = SwapAfter(p)
    BY <1>2, TypeForm DEF CopyD2H, VirtMemTypeOK
  <2> QED
    BY <2>1, <2>2
<1> QED
  BY <1>1, <1>2

\* What the process that filled entry 0 wrote last stays where the status says.
LEMMA DataNext == IInv /\ VirtMemNext => DataInv'
<1> SUFFICES ASSUME IInv, VirtMemNext PROVE DataInv'
  OBVIOUS
<1>1. TypeInv /\ DataInv
  BY DEF IInv
<1>2. CASE PagerNext
  <2>1. last' = 0 \/ UNCHANGED <<entry, local, last>>
    <3>1. CASE mem_map_init
      BY <3>1 DEF mem_map_init
    <3>2. CASE PagerSem \/ PagerSetVal \/ PagerTable \/ PagerIndex \/ PagerKilled
      BY <3>2 DEF PagerSem, PagerSetVal, PagerTable, PagerIndex, PagerShm, PagerKilled,
                  procState, callVars
    <3> QED
      BY <1>2, <3>1, <3>2 DEF PagerNext
  <2> QED
    BY <2>1, DataKept
<1>3. ASSUME NEW p \in Procs, Attach(p) PROVE DataInv'
  <2>1. last' = 0 \/ UNCHANGED <<entry, local, last>>
    BY <1>3 DEF Attach, Overrun
  <2> QED
    BY <2>1, DataKept
<1>4. ASSUME NEW p \in Procs, Quiet(p) PROVE DataInv'
  BY <1>4, DataKept DEF Quiet, callVars
<1>5. ASSUME NEW p \in Procs, Gone(p) PROVE DataInv'
  <2>1. CASE Own(p)
    BY <1>5, <2>1, DataKept DEF Gone
  <2>2. CASE ~Own(p)
    <3>1. UNCHANGED <<entry, last>>
      BY <1>5, <2>2 DEF Gone
    <3>2. ASSUME NEW q \in Procs, Own(q)' PROVE Own(q)
      BY <1>1, <1>5, <3>1, <3>2 DEF Own, Gone, TypeInv
    <3> QED
      BY <1>1, <3>1, <3>2 DEF DataInv, Kept, Synced
  <2> QED
    BY <2>1, <2>2
<1>6. ASSUME NEW p \in Procs, MallocP(p) \/ MallocRead(p) \/ MallocInc(p) \/ MallocV(p)
      PROVE  DataInv'
  BY <1>1, <1>6, MallocEffect, DataKept
<1>7. ASSUME NEW p \in Procs, mem_map_creat(p) PROVE DataInv'
  <2>1. CASE my[p] = 0
    BY <1>7, <2>1, DataKept DEF mem_map_creat
  <2>2. CASE my[p] # 0
    <3>1. UNCHANGED <<entry, last>>
      BY <1>7, <2>2 DEF mem_map_creat
    <3>2. \A q \in Procs : local'[q] <=> local[q]
      BY <1>1, <1>7, <2>2 DEF mem_map_creat, TypeInv
    <3> QED
      BY <1>1, <3>1, <3>2 DEF DataInv, Own, Kept, Synced
  <2> QED
    BY <2>1, <2>2
<1>8. ASSUME NEW p \in Procs, NEW v \in Values, CopyH2D(p, v) PROVE DataInv'
  <2> SUFFICES ASSUME NEW q \in Procs, Own(q)', last' # 0 PROVE Kept'
    BY DEF DataInv
  <2>1. Own(q)
    BY <1>1, <1>8, CopyEffect DEF Own
  <2>2. CASE Own(p)
    BY <1>1, <1>8, <2>2, CopyEffect DEF Kept, Synced, CopyH2DStatus, OnDevice, Resident
  <2>3. CASE ~Own(p)
    <3>1. Kept /\ last' = last
      BY <1>1, <1>8, <2>1, <2>3, CopyEffect DEF DataInv
    <3> QED
      BY <1>1, <1>8, <2>3, <3>1, CopyEffect, EntryFields
         DEF Kept, Synced, CopyH2DStatus, Resident, Status
  <2> QED
    BY <2>2, <2>3
<1>9. ASSUME NEW p \in Procs, CopyD2H(p) PROVE DataInv'
  <2> SUFFICES ASSUME NEW q \in Procs, Own(q)', last' # 0 PROVE Kept'
    BY DEF DataInv
  <2>1. Own(q)
    BY <1>1, <1>9, CopyEffect DEF Own
  <2>2. Kept /\ last' = last
    BY <1>1, <1>9, <2>1, CopyEffect DEF DataInv
  <2> QED
    BY <1>1, <1>9, <2>2, CopyEffect DEF Kept, Synced, SwapAfter
<1> QED
  BY <1>1, <1>2, <1>3, <1>4, <1>5, <1>6, <1>7, <1>8, <1>9, Steps

-----------------------------------------------------------------------------
\* The invariant holds initially ...
LEMMA IInvInit == VirtMemInit => IInv
<1> SUFFICES ASSUME VirtMemInit PROVE IInv
  OBVIOUS
<1>1. TypeInv
  <2>1. entry \in Entries
    BY EntryTypes DEF VirtMemInit
  <2>2. vp \in [Procs -> Places] /\ my \in [Procs -> Nat] /\ local \in [Procs -> BOOLEAN]
    BY DEF VirtMemInit, Places
  <2>3. gsem \in -1..1
    BY DEF VirtMemInit
  <2> QED
    BY <2>1, <2>2, <2>3 DEF VirtMemInit, TypeInv
<1>2. StartInv /\ SectionInv /\ OnceInv /\ DataInv
  BY DEF VirtMemInit, StartInv, SectionInv, InSection, OnceInv, DataInv
<1> QED
  BY <1>1, <1>2 DEF IInv

\* ... and every step keeps it.
LEMMA IInvNext == IInv /\ [VirtMemNext]_vmVars => IInv'
<1>1. IInv /\ VirtMemNext => IInv'
  BY TypeNext, StartNext, SectionNext, OnceNext, DataNext DEF IInv
<1>2. IInv /\ UNCHANGED vmVars => IInv'
  BY DEF IInv, TypeInv, StartInv, SectionInv, OnceInv, DataInv, Own, Kept, Synced, vmVars
<1> QED
  BY <1>1, <1>2

\* The invariant, for any number of processes and allocations.
THEOREM VirtMemInvariant == VirtMemSpec => []IInv
  BY IInvInit, IInvNext, PTL DEF VirtMemSpec

\* Every variable of the pager and of the serving processes keeps its type; in
\* particular the semaphore of the table never exceeds 1.
THEOREM VirtMemTypeCorrect == VirtMemSpec => []VirtMemTypeOK
<1>1. IInv => VirtMemTypeOK
  BY TypeForm DEF IInv
<1> QED
  BY <1>1, VirtMemInvariant, PTL

\* Between two times that the counter is cleared, whatever clears it, index 0 is
\* given to one call of cudaMalloc at most (nvbackCudaMalloc_srv), however many
\* processes allocate at once and however late they note their indices.
THEOREM FirstEntryGivenOnce == VirtMemSpec => []FirstEntryOnce
<1>1. IInv => FirstEntryOnce
  BY DEF IInv, OnceInv, FirstEntryOnce
<1> QED
  BY <1>1, VirtMemInvariant, PTL

\* The process that filled entry 0 reads back what it wrote last
\* (nvbackCudaMemcpy_srv), unless a kernel map has overrun since, whatever the
\* other processes copy and however many indices it holds besides.
THEOREM OwnerReadsBack == VirtMemSpec => []ReadsBack
<1>1. IInv => ReadsBack
  BY DEF IInv, DataInv, ReadsBack, Kept, Brings, SwapAfter, Synced
<1> QED
  BY <1>1, VirtMemInvariant, PTL

-----------------------------------------------------------------------------
(* The packing.  A sum over a list, and a list of cells that is made of the *)
(* cells of its entries, are folds; what they are is proved by induction on *)
(* the length of the list.                                                  *)

\* Induction on the natural numbers, for a set instead of a predicate: a number
\* outside of S would be the successor of a smaller one.
LEMMA SetInduction ==
    ASSUME NEW S, 0 \in S, \A n \in Nat : n \in S => n + 1 \in S
    PROVE  \A n \in Nat : n \in S
<1> DEFINE R == OpToRel(<, Nat)
<1> DEFINE T == Nat \ S
<1>1. IsWellFoundedOn(R, Nat)
  BY NatLessThanWellFounded, Zenon
<1>2. \A x \in Nat \ {0} : <<x - 1, x>> \in R
  BY DEF OpToRel
<1>3. ASSUME T # {} PROVE FALSE
  <2> HIDE DEF R
  <2>1. T \subseteq Nat
    OBVIOUS
  <2>2. PICK x \in T : \A y \in T : <<y, x>> \notin R
    <3> HIDE DEF T
    <3> QED
      BY <1>1, <1>3, <2>1, WFMin
  <2>3. x \in Nat \ {0}
    BY <2>2
  <2>4. x - 1 \notin T
    BY <1>2, <2>2, <2>3
  <2>5. x - 1 \in Nat /\ (x - 1) + 1 = x
    BY <2>3
  <2> QED
    BY <2>2, <2>4, <2>5
<1> QED
  BY <1>3

-----------------------------------------------------------------------------
(* Sums.  Total folds a sequence from its last member down.                 *)

\* The fold over the sets of positions up to n.
IsFold(g, s, n) ==
    g = [T \in SUBSET (1 .. n) |-> IF T = {} THEN 0 ELSE g[T \ {Max(T)}] + s[Max(T)]]

\* n + 1 is the greatest of numbers up to n + 1 to which it belongs.
LEMMA TopMax ==
    ASSUME NEW n \in Nat, NEW T \in SUBSET (1 .. n + 1), n + 1 \in T
    PROVE  Max(T) = n + 1
<1>1. \A x \in T : (\A y \in T : x >= y) <=> x = n + 1
  OBVIOUS
<1> QED
  BY <1>1 DEF Max

\* There is a fold over the sets of positions up to any n.
LEMMA FoldExists ==
    ASSUME NEW s, NEW n \in Nat
    PROVE  \E g : IsFold(g, s, n)
<1> DEFINE S == {k \in Nat : \E g : IsFold(g, s, k)}
<1>1. 0 \in S
  <2>1. IsFold([T \in SUBSET (1 .. 0) |-> 0], s, 0)
    BY DEF IsFold
  <2> QED
    BY <2>1
<1>2. ASSUME NEW k \in Nat, k \in S
      PROVE  k + 1 \in S
  <2>1. PICK g : IsFold(g, s, k)
    BY <1>2
  <2> DEFINE h == [T \in SUBSET (1 .. k + 1) |->
                     IF k + 1 \in T THEN g[T \ {k + 1}] + s[k + 1] ELSE g[T]]
  <2>2. ASSUME NEW T \in SUBSET (1 .. k + 1), k + 1 \in T
        PROVE  h[T] = h[T \ {Max(T)}] + s[Max(T)]
    <3>1. Max(T) = k + 1
      BY <2>2, TopMax
    <3>2. T \ {k + 1} \in SUBSET (1 .. k + 1) /\ k + 1 \notin T \ {k + 1}
      OBVIOUS
    <3>3. h[T \ {k + 1}] = g[T \ {k + 1}]
      BY <3>2
    <3>4. h[T] = g[T \ {k + 1}] + s[k + 1]
      BY <2>2
    <3> QED
      BY <3>1, <3>3, <3>4
  <2>3. ASSUME NEW T \in SUBSET (1 .. k + 1), k + 1 \notin T, T # {}
        PROVE  h[T] = h[T \ {Max(T)}] + s[Max(T)]
    <3>1. T \in SUBSET (1 .. k)
      BY <2>3
    <3>2. /\ h[T] = g[T]
          /\ T \ {Max(T)} \in SUBSET (1 .. k + 1) /\ k + 1 \notin T \ {Max(T)}
      BY <2>3
    <3>3. h[T \ {Max(T)}] = g[T \ {Max(T)}]
      BY <3>2
    <3>4. g[T] = g[T \ {Max(T)}] + s[Max(T)]
      BY <2>1, <2>3, <3>1 DEF IsFold
    <3> QED
      BY <3>2, <3>3, <3>4
  <2>4. h[{}] = 0
    BY <2>1 DEF IsFold
  <2>5. h = [T \in SUBSET (1 .. k + 1) |-> IF T = {} THEN 0 ELSE h[T \ {Max(T)}] + s[Max(T)]]
    BY <2>2, <2>3, <2>4
  <2>6. IsFold(h, s, k + 1)
    BY <2>5 DEF IsFold
  <2> QED
    BY <2>6
<1>3. \A k \in Nat : k \in S
  <2> HIDE DEF S
  <2> QED
    BY <1>1, <1>2, SetInduction
<1> QED
  BY <1>3

\* A fold over the first k + 1 positions adds member k + 1 to that over k.
LEMMA FoldStep ==
    ASSUME NEW s, NEW n \in Nat, NEW g, IsFold(g, s, n)
    PROVE  /\ g[1 .. 0] = 0
           /\ \A k \in Nat : k < n => g[1 .. k + 1] = g[1 .. k] + s[k + 1]
<1>1. g[1 .. 0] = 0
  <2>1. 1 .. 0 = {}
    OBVIOUS
  <2> QED
    BY <2>1 DEF IsFold
<1>2. ASSUME NEW k \in Nat, k < n
      PROVE  g[1 .. k + 1] = g[1 .. k] + s[k + 1]
  <2>1. Max(1 .. k + 1) = k + 1
    BY TopMax
  <2>2. (1 .. k + 1) \ {k + 1} = 1 .. k /\ 1 .. k + 1 # {}
    OBVIOUS
  <2>3. 1 .. k + 1 \in SUBSET (1 .. n)
    BY <1>2
  <2>4. \A T \in SUBSET (1 .. n) : T # {} => g[T] = g[T \ {Max(T)}] + s[Max(T)]
    BY DEF IsFold
  <2> QED
    BY <2>1, <2>2, <2>3, <2>4
<1> QED
  BY <1>1, <1>2

\* Two sequences that agree on the first k members have the same fold there.
LEMMA FoldSame ==
    ASSUME NEW s, NEW t, NEW m \in Nat, NEW n \in Nat, NEW g, NEW h,
           IsFold(g, s, m), IsFold(h, t, n),
           NEW k \in Nat, k =< m, k =< n, \A i \in 1 .. k : s[i] = t[i]
    PROVE  g[1 .. k] = h[1 .. k]
<1> DEFINE S == {j \in Nat : j =< k => g[1 .. j] = h[1 .. j]}
<1>1. 0 \in S
  BY FoldStep
<1>2. ASSUME NEW j \in Nat, j \in S
      PROVE  j + 1 \in S
  <2> SUFFICES ASSUME j + 1 =< k PROVE g[1 .. j + 1] = h[1 .. j + 1]
    OBVIOUS
  <2>1. g[1 .. j + 1] = g[1 .. j] + s[j + 1]
    BY FoldStep
  <2>2. h[1 .. j + 1] = h[1 .. j] + t[j + 1]
    BY FoldStep
  <2> QED
    BY <1>2, <2>1, <2>2
<1>3. \A j \in Nat : j \in S
  <2> HIDE DEF S
  <2> QED
    BY <1>1, <1>2, SetInduction
<1> QED
  BY <1>3

\* Total is such a fold.
LEMMA TotalIsFold ==
    ASSUME NEW s, NEW n \in Nat, DOMAIN s = 1 .. n
    PROVE  \E g : IsFold(g, s, n) /\ Total(s) = g[1 .. n]
<1>1. Total(s) = (CHOOSE g : IsFold(g, s, n))[1 .. n]
  BY DEF Total, FoldLeft, MapThenFoldSet, IsFold
<1> QED
  BY <1>1, FoldExists

\* The sum of no numbers.
LEMMA TotalEmpty == \A s : DOMAIN s = 1 .. 0 => Total(s) = 0
BY TotalIsFold, FoldStep

\* The sum of one number.
LEMMA TotalOne ==
    ASSUME NEW s, DOMAIN s = 1 .. 1, s[1] \in Nat
    PROVE  Total(s) = s[1]
<1>1. ASSUME NEW n \in Nat, DOMAIN s = 1 .. n + 1
      PROVE  \E g : g[1 .. 0] = 0 /\ Total(s) = g[1 .. n] + s[n + 1]
  <2>1. PICK g : IsFold(g, s, n + 1) /\ Total(s) = g[1 .. n + 1]
    BY <1>1, TotalIsFold
  <2>2. g[1 .. n + 1] = g[1 .. n] + s[n + 1] /\ g[1 .. 0] = 0
    BY <2>1, FoldStep
  <2> QED
    BY <2>1, <2>2
<1>2. 0 \in Nat /\ 0 + 1 = 1
  OBVIOUS
<1>3. PICK g : g[1 .. 0] = 0 /\ Total(s) = g[1 .. 0] + s[0 + 1]
  BY <1>1, <1>2
<1> QED
  BY <1>3

\* The sum of one number more.
LEMMA TotalStep ==
    ASSUME NEW s, NEW t, NEW n \in Nat, DOMAIN s = 1 .. n, DOMAIN t = 1 .. n + 1,
           \A i \in 1 .. n : t[i] = s[i]
    PROVE  Total(t) = Total(s) + t[n + 1]
<1>1. PICK g : IsFold(g, s, n) /\ Total(s) = g[1 .. n]
  BY TotalIsFold
<1>2. PICK h : IsFold(h, t, n + 1) /\ Total(t) = h[1 .. n + 1]
  BY TotalIsFold
<1>3. h[1 .. n] = g[1 .. n]
  BY <1>1, <1>2, FoldSame
<1>4. h[1 .. n + 1] = h[1 .. n] + t[n + 1]
  BY <1>2, FoldStep
<1> QED
  BY <1>1, <1>2, <1>3, <1>4

\* The first k members of a sequence of numbers.
FirstOf(s, k) == [i \in 1 .. k |-> s[i]]

\* The sums of the first members, one after the other.
LEMMA TotalFirst ==
    ASSUME NEW n \in Nat, NEW s \in [1 .. n -> Nat]
    PROVE  /\ Total(FirstOf(s, 0)) = 0
           /\ \A k \in Nat : k < n => Total(FirstOf(s, k + 1)) = Total(FirstOf(s, k)) + s[k + 1]
           /\ FirstOf(s, n) = s
<1>1. Total(FirstOf(s, 0)) = 0
  BY TotalEmpty DEF FirstOf
<1>2. ASSUME NEW k \in Nat, k < n
      PROVE  Total(FirstOf(s, k + 1)) = Total(FirstOf(s, k)) + s[k + 1]
  <2> DEFINE a == FirstOf(s, k)
             b == FirstOf(s, k + 1)
  <2>1. DOMAIN a = 1 .. k /\ DOMAIN b = 1 .. k + 1 /\ b[k + 1] = s[k + 1]
    BY DEF FirstOf
  <2>2. \A i \in 1 .. k : b[i] = a[i]
    BY DEF FirstOf
  <2> HIDE DEF a, b
  <2>3. Total(b) = Total(a) + b[k + 1]
    BY <2>1, <2>2, TotalStep
  <2> QED
    BY <2>1, <2>3 DEF a, b
<1>3. FirstOf(s, n) = s
  BY DEF FirstOf
<1> QED
  BY <1>1, <1>2, <1>3

\* A sum of natural numbers is one.
LEMMA TotalNat ==
    ASSUME NEW n \in Nat, NEW s \in [1 .. n -> Nat]
    PROVE  /\ Total(s) \in Nat
           /\ \A k \in 0 .. n : Total(FirstOf(s, k)) \in Nat
<1> DEFINE S == {k \in Nat : k =< n => Total(FirstOf(s, k)) \in Nat}
<1>1. 0 \in S
  BY TotalFirst
<1>2. ASSUME NEW k \in Nat, k \in S
      PROVE  k + 1 \in S
  <2>1. k + 1 =< n => Total(FirstOf(s, k + 1)) = Total(FirstOf(s, k)) + s[k + 1]
    BY TotalFirst
  <2>2. k + 1 =< n => s[k + 1] \in Nat
    OBVIOUS
  <2> QED
    BY <1>2, <2>1, <2>2
<1>3. \A k \in Nat : k \in S
  <2> HIDE DEF S
  <2> QED
    BY <1>1, <1>2, SetInduction
<1>4. FirstOf(s, n) = s
  BY TotalFirst
<1> QED
  BY <1>3, <1>4

\* Sums grow with their terms.
LEMMA TotalLeq ==
    ASSUME NEW n \in Nat, NEW s \in [1 .. n -> Nat], NEW t \in [1 .. n -> Nat],
           \A i \in 1 .. n : s[i] =< t[i]
    PROVE  Total(s) =< Total(t)
<1> DEFINE S == {k \in Nat : k =< n => Total(FirstOf(s, k)) =< Total(FirstOf(t, k))}
<1>1. 0 \in S
  BY TotalFirst
<1>2. ASSUME NEW k \in Nat, k \in S
      PROVE  k + 1 \in S
  <2> SUFFICES ASSUME k + 1 =< n PROVE Total(FirstOf(s, k + 1)) =< Total(FirstOf(t, k + 1))
    OBVIOUS
  <2>1. Total(FirstOf(s, k + 1)) = Total(FirstOf(s, k)) + s[k + 1]
    BY TotalFirst
  <2>2. Total(FirstOf(t, k + 1)) = Total(FirstOf(t, k)) + t[k + 1]
    BY TotalFirst
  <2>3. Total(FirstOf(s, k)) \in Nat /\ Total(FirstOf(t, k)) \in Nat
    <3>1. k \in 0 .. n
      OBVIOUS
    <3>2. \A j \in 0 .. n : Total(FirstOf(s, j)) \in Nat
      BY TotalNat
    <3>3. \A j \in 0 .. n : Total(FirstOf(t, j)) \in Nat
      BY TotalNat
    <3> QED
      BY <3>1, <3>2, <3>3
  <2>4. s[k + 1] \in Nat /\ t[k + 1] \in Nat /\ s[k + 1] =< t[k + 1]
    OBVIOUS
  <2>5. Total(FirstOf(s, k)) =< Total(FirstOf(t, k))
    BY <1>2
  <2> QED
    BY <2>1, <2>2, <2>3, <2>4, <2>5
<1>3. \A k \in Nat : k \in S
  <2> HIDE DEF S
  <2> QED
    BY <1>1, <1>2, SetInduction
<1>4. FirstOf(s, n) = s /\ FirstOf(t, n) = t
  BY TotalFirst
<1> QED
  BY <1>3, <1>4

\* A sum in two parts.
LEMMA TotalSplit ==
    ASSUME NEW m \in Nat, NEW n \in Nat, NEW s \in [1 .. m + n -> Nat]
    PROVE  Total(s) = Total(FirstOf(s, m)) + Total([i \in 1 .. n |-> s[m + i]])
<1> DEFINE t == [i \in 1 .. n |-> s[m + i]]
<1> DEFINE S == {k \in Nat :
                   k =< n => Total(FirstOf(s, m + k)) = Total(FirstOf(s, m)) + Total(FirstOf(t, k))}
<1>1. t \in [1 .. n -> Nat]
  OBVIOUS
<1>2. 0 \in S
  <2>1. Total(FirstOf(t, 0)) = 0
    <3> HIDE DEF t
    <3> QED
      BY <1>1, TotalFirst
  <2>2. Total(FirstOf(s, m)) \in Nat
    BY TotalNat
  <2>3. m + 0 = m
    OBVIOUS
  <2> QED
    BY <2>1, <2>2, <2>3
<1>3. ASSUME NEW k \in Nat, k \in S
      PROVE  k + 1 \in S
  <2> SUFFICES ASSUME k + 1 =< n
               PROVE  Total(FirstOf(s, m + (k + 1))) =
                        Total(FirstOf(s, m)) + Total(FirstOf(t, k + 1))
    OBVIOUS
  <2>1. Total(FirstOf(s, (m + k) + 1)) = Total(FirstOf(s, m + k)) + s[(m + k) + 1]
    BY TotalFirst
  <2>2. Total(FirstOf(t, k + 1)) = Total(FirstOf(t, k)) + t[k + 1]
    <3>1. k < n
      OBVIOUS
    <3> HIDE DEF t
    <3> QED
      BY <1>1, <3>1, TotalFirst
  <2>3. t[k + 1] = s[(m + k) + 1] /\ m + (k + 1) = (m + k) + 1 /\ t[k + 1] \in Nat
    OBVIOUS
  <2>4. Total(FirstOf(s, m + k)) = Total(FirstOf(s, m)) + Total(FirstOf(t, k))
    BY <1>3
  <2>5. Total(FirstOf(s, m)) \in Nat
    BY TotalNat
  <2>6. Total(FirstOf(t, k)) \in Nat
    <3>1. k \in 0 .. n
      OBVIOUS
    <3> HIDE DEF t
    <3> QED
      BY <1>1, <3>1, TotalNat
  <2> HIDE DEF t
  <2> QED
    BY <2>1, <2>2, <2>3, <2>4, <2>5, <2>6
<1>4. \A k \in Nat : k \in S
  <2> HIDE DEF S
  <2> QED
    BY <1>2, <1>3, SetInduction
<1>5. FirstOf(s, m + n) = s /\ FirstOf(t, n) = t
  <2>1. FirstOf(t, n) = t
    <3> HIDE DEF t
    <3> QED
      BY <1>1, TotalFirst
  <2>2. FirstOf(s, m + n) = s
    BY TotalFirst
  <2> QED
    BY <2>1, <2>2
<1> QED
  BY <1>4, <1>5

-----------------------------------------------------------------------------
(* Cells.                                                                  *)

CellSet == [k : {"num", "long", "chars", "str", "val"}, v : Int, w : Nat]

\* The width of a cell is a number.
LEMMA CellFields ==
    ASSUME NEW a \in Seq(CellSet)
    PROVE  Len(a) \in Nat /\ DOMAIN a = 1 .. Len(a) /\ \A i \in DOMAIN a : a[i].w \in Nat
<1>1. Len(a) \in Nat /\ DOMAIN a = 1 .. Len(a) /\ \A i \in DOMAIN a : a[i] \in CellSet
  OBVIOUS
<1> QED
  BY <1>1 DEF CellSet

\* What is written behind something else leaves it as it was.
LEMMA ConcatFacts ==
    ASSUME NEW a \in Seq(CellSet), NEW b \in Seq(CellSet)
    PROVE  /\ a \o b \in Seq(CellSet)
           /\ Len(a \o b) = Len(a) + Len(b)
           /\ \A i \in 1 .. Len(a) : (a \o b)[i] = a[i]
           /\ \A i \in 1 .. Len(b) : (a \o b)[Len(a) + i] = b[i]
<1>1. Len(a) \in Nat /\ Len(b) \in Nat /\ DOMAIN a = 1 .. Len(a) /\ DOMAIN b = 1 .. Len(b)
  OBVIOUS
<1>2. a \o b \in Seq(CellSet)
  OBVIOUS
<1>3. Len(a \o b) = Len(a) + Len(b)
  BY <1>1
<1>4. \A i \in 1 .. Len(a) : (a \o b)[i] = a[i]
  BY <1>1
<1>5. \A i \in 1 .. Len(b) : (a \o b)[Len(a) + i] = b[i]
  BY <1>1
<1> QED
  BY <1>2, <1>3, <1>4, <1>5

\* The bytes of cells are a number.
LEMMA BytesNat ==
    ASSUME NEW a \in Seq(CellSet)
    PROVE  Bytes(a) \in Nat
<1>1. Len(a) \in Nat /\ DOMAIN a = 1 .. Len(a) /\ \A i \in DOMAIN a : a[i].w \in Nat
  BY CellFields
<1>2. [i \in DOMAIN a |-> a[i].w] \in [1 .. Len(a) -> Nat]
  BY <1>1
<1> QED
  BY <1>1, <1>2, TotalNat DEF Bytes

\* The bytes of what is written behind something else are added.
LEMMA BytesConcat ==
    ASSUME NEW a \in Seq(CellSet), NEW b \in Seq(CellSet)
    PROVE  Bytes(a \o b) = Bytes(a) + Bytes(b)
<1> DEFINE s == [i \in DOMAIN (a \o b) |-> (a \o b)[i].w]
<1>1. /\ Len(a) \in Nat /\ DOMAIN a = 1 .. Len(a) /\ \A i \in DOMAIN a : a[i].w \in Nat
      /\ Len(b) \in Nat /\ DOMAIN b = 1 .. Len(b) /\ \A i \in DOMAIN b : b[i].w \in Nat
  BY CellFields
<1>2. /\ DOMAIN (a \o b) = 1 .. Len(a) + Len(b)
      /\ \A i \in 1 .. Len(a) : (a \o b)[i] = a[i]
      /\ \A i \in 1 .. Len(b) : (a \o b)[Len(a) + i] = b[i]
  BY <1>1
<1>3. s \in [1 .. Len(a) + Len(b) -> Nat]
  <2>1. ASSUME NEW i \in 1 .. Len(a) + Len(b)
        PROVE  (a \o b)[i].w \in Nat
    <3>1. CASE i \in 1 .. Len(a)
      BY <1>1, <1>2, <3>1
    <3>2. CASE i \notin 1 .. Len(a)
      <4>1. i - Len(a) \in 1 .. Len(b) /\ i = Len(a) + (i - Len(a))
        BY <1>1, <3>2
      <4> QED
        BY <1>1, <1>2, <4>1
    <3> QED
      BY <3>1, <3>2
  <2> QED
    BY <1>2, <2>1
<1>4. FirstOf(s, Len(a)) = [i \in DOMAIN a |-> a[i].w]
  BY <1>1, <1>2 DEF FirstOf
<1>5. [i \in 1 .. Len(b) |-> s[Len(a) + i]] = [i \in DOMAIN b |-> b[i].w]
  BY <1>1, <1>2
<1>6. Total(s) = Total(FirstOf(s, Len(a))) + Total([i \in 1 .. Len(b) |-> s[Len(a) + i]])
  <2> HIDE DEF s
  <2> QED
    BY <1>1, <1>3, TotalSplit
<1> QED
  BY <1>4, <1>5, <1>6 DEF Bytes

-----------------------------------------------------------------------------
(* EntriesOf, one after the other.                                           *)

\* What has been written after each entry.
IsFlat(g, ss, n) == g = [i \in 1 .. n |-> IF i = 1 THEN ss[i] ELSE g[i - 1] \o ss[i]]

\* Each entry is written behind those before.
LEMMA FlatMember ==
    ASSUME NEW ss, NEW n \in Nat, NEW g, IsFlat(g, ss, n)
    PROVE  /\ \A i \in 1 .. n : i = 1 => g[i] = ss[i]
           /\ \A i \in 1 .. n : i # 1 => g[i] = g[i - 1] \o ss[i]
BY DEF IsFlat

\* The entries can be written one after the other.
LEMMA FlatExists ==
    ASSUME NEW ss, NEW n \in Nat
    PROVE  \E g : IsFlat(g, ss, n)
<1> DEFINE S == {k \in Nat : \E g : IsFlat(g, ss, k)}
<1>1. 0 \in S
  <2>1. IsFlat([i \in 1 .. 0 |-> 0], ss, 0)
    BY DEF IsFlat
  <2> QED
    BY <2>1
<1>2. ASSUME NEW k \in Nat, k \in S
      PROVE  k + 1 \in S
  <2>1. PICK g : IsFlat(g, ss, k)
    BY <1>2
  <2> DEFINE h == [i \in 1 .. k + 1 |->
                     IF i =< k THEN g[i] ELSE IF i = 1 THEN ss[i] ELSE g[k] \o ss[k + 1]]
  <2>2. ASSUME NEW i \in 1 .. k + 1
        PROVE  h[i] = IF i = 1 THEN ss[i] ELSE h[i - 1] \o ss[i]
    <3>1. CASE i =< k
      <4>1. h[i] = g[i] /\ (i # 1 => h[i - 1] = g[i - 1])
        BY <3>1
      <4>2. i \in 1 .. k
        BY <3>1
      <4>3. g[i] = IF i = 1 THEN ss[i] ELSE g[i - 1] \o ss[i]
        BY <2>1, <4>2, FlatMember
      <4> QED
        BY <4>1, <4>3
    <3>2. CASE i = k + 1
      BY <3>2
    <3> QED
      BY <3>1, <3>2
  <2>3. h = [i \in 1 .. k + 1 |-> IF i = 1 THEN ss[i] ELSE h[i - 1] \o ss[i]]
    BY <2>2
  <2>4. IsFlat(h, ss, k + 1)
    BY <2>3 DEF IsFlat
  <2> QED
    BY <2>4
<1>3. \A k \in Nat : k \in S
  <2> HIDE DEF S
  <2> QED
    BY <1>1, <1>2, SetInduction
<1> QED
  BY <1>3

\* What entries of m cells each become: cell j of entry i is the j-th after those
\* of the entries before, and the bytes are the sum of those of the entries.
Flat(f, ss, m, n) ==
    /\ f \in Seq(CellSet)
    /\ Len(f) = n * m
    /\ \A i \in 1 .. n : \A j \in 1 .. m : f[(i - 1) * m + j] = ss[i][j]
    /\ Bytes(f) = Total(FirstOf([i \in DOMAIN ss |-> Bytes(ss[i])], n))

\* One entry more.
LEMMA FlatStep ==
    ASSUME NEW n \in Nat, NEW ss \in [1 .. n -> Seq(CellSet)], NEW m \in 1 .. 3,
           \A i \in 1 .. n : Len(ss[i]) = m,
           NEW k \in Nat, k < n, NEW f, Flat(f, ss, m, k)
    PROVE  Flat(f \o ss[k + 1], ss, m, k + 1)
<1> DEFINE e == ss[k + 1]
           w == [i \in DOMAIN ss |-> Bytes(ss[i])]
<1>1. /\ e \in Seq(CellSet) /\ Len(e) = m
      /\ f \in Seq(CellSet) /\ Len(f) = k * m
      /\ \A i \in 1 .. k : \A j \in 1 .. m : f[(i - 1) * m + j] = ss[i][j]
  BY DEF Flat
<1>2. w \in [1 .. n -> Nat]
  <2>1. \A i \in 1 .. n : ss[i] \in Seq(CellSet)
    OBVIOUS
  <2> QED
    BY <2>1, BytesNat
<1>3. f \o e \in Seq(CellSet) /\ Len(f \o e) = (k + 1) * m
  <2>1. Len(f \o e) = k * m + m
    BY <1>1
  <2>2. f \o e \in Seq(CellSet)
    BY <1>1
  <2>3. k * m + m = (k + 1) * m
    OBVIOUS
  <2> QED
    BY <2>1, <2>2, <2>3
<1>4. ASSUME NEW i \in 1 .. k + 1, NEW j \in 1 .. m
      PROVE  (f \o e)[(i - 1) * m + j] = ss[i][j]
  <2>1. CASE i =< k
    <3>1. (i - 1) * m + j \in 1 .. Len(f)
      <4>1. CASE m = 1
        BY <1>1, <2>1, <4>1
      <4>2. CASE m = 2
        BY <1>1, <2>1, <4>2
      <4>3. CASE m = 3
        BY <1>1, <2>1, <4>3
      <4> QED
        BY <4>1, <4>2, <4>3
    <3>2. (f \o e)[(i - 1) * m + j] = f[(i - 1) * m + j]
      BY <1>1, <3>1
    <3> QED
      BY <1>1, <2>1, <3>2
  <2>2. CASE i = k + 1
    <3>1. (i - 1) * m + j = Len(f) + j /\ Len(f) \in Nat /\ j \in 1 .. Len(e)
      BY <1>1, <2>2
    <3> HIDE DEF e
    <3>2. (f \o e)[Len(f) + j] = e[j]
      BY <1>1, <3>1
    <3> QED
      BY <2>2, <3>1, <3>2 DEF e
  <2>3. i =< k \/ i = k + 1
    OBVIOUS
  <2> HIDE DEF e
  <2> QED
    BY <2>1, <2>2, <2>3
<1>5. Bytes(f \o e) = Total(FirstOf(w, k + 1))
  <2>1. Bytes(f \o e) = Bytes(f) + Bytes(e)
    BY <1>1, BytesConcat
  <2>2. Bytes(e) = w[k + 1]
    OBVIOUS
  <2>3. Bytes(f) = Total(FirstOf(w, k))
    BY DEF Flat
  <2> HIDE DEF w
  <2>4. Total(FirstOf(w, k + 1)) = Total(FirstOf(w, k)) + w[k + 1]
    BY <1>2, TotalFirst
  <2> QED
    BY <2>1, <2>2, <2>3, <2>4
<1> QED
  BY <1>3, <1>4, <1>5 DEF Flat

\* EntriesOf of m cells each, flattened.
LEMMA FlattenUniform ==
    ASSUME NEW n \in Nat, NEW ss \in [1 .. n -> Seq(CellSet)], NEW m \in 1 .. 3,
           \A i \in 1 .. n : Len(ss[i]) = m
    PROVE  Flat(FlattenSeq(ss), ss, m, n)
<1>1. ss \in Seq(Seq(CellSet)) /\ Len(ss) = n
  OBVIOUS
<1>2. Flat(<<>>, ss, m, 0)
  <2>1. <<>> \in Seq(CellSet) /\ Len(<<>>) = 0 /\ DOMAIN <<>> = 1 .. 0
    OBVIOUS
  <2>2. Bytes(<<>>) = 0
    BY <2>1, TotalEmpty DEF Bytes
  <2>3. Total(FirstOf([i \in DOMAIN ss |-> Bytes(ss[i])], 0)) = 0
    BY TotalEmpty DEF FirstOf
  <2> QED
    BY <2>1, <2>2, <2>3 DEF Flat
<1>3. CASE n = 0
  <2>1. FlattenSeq(ss) = ss /\ ss = <<>>
    BY <1>1, <1>3 DEF FlattenSeq
  <2> QED
    BY <1>2, <1>3, <2>1
<1>4. CASE n # 0
  <2>1. PICK g : IsFlat(g, ss, n) /\ FlattenSeq(ss) = g[n]
    <3>1. FlattenSeq(ss) = (CHOOSE g : IsFlat(g, ss, n))[n]
      BY <1>1, <1>4 DEF FlattenSeq, IsFlat
    <3> QED
      BY <3>1, FlatExists
  <2>7. \A i \in 1 .. n : i # 1 => g[i] = g[i - 1] \o ss[i]
    BY <2>1, FlatMember
  <2> DEFINE S == {k \in Nat : k < n => Flat(g[k + 1], ss, m, k + 1)}
  <2>2. 0 \in S
    <3>1. g[1] = ss[1] /\ ss[1] \in Seq(CellSet)
      BY <1>4, <2>1 DEF IsFlat
    <3>2. <<>> \o ss[1] = ss[1]
      BY <3>1
    <3>3. 0 \in Nat /\ 0 < n
      BY <1>4
    <3>4. Flat(<<>> \o ss[0 + 1], ss, m, 0 + 1)
      <4> HIDE DEF S
      <4> QED
        BY <1>2, <3>3, FlatStep
    <3> QED
      BY <3>1, <3>2, <3>4
  <2>3. ASSUME NEW k \in Nat, k \in S
        PROVE  k + 1 \in S
    <3> SUFFICES ASSUME k + 1 < n PROVE Flat(g[(k + 1) + 1], ss, m, (k + 1) + 1)
      OBVIOUS
    <3>1. Flat(g[k + 1], ss, m, k + 1)
      BY <2>3
    <3>2. g[(k + 1) + 1] = g[k + 1] \o ss[(k + 1) + 1]
      <4>1. (k + 1) + 1 \in 1 .. n /\ (k + 1) + 1 # 1 /\ ((k + 1) + 1) - 1 = k + 1
        OBVIOUS
      <4> QED
        BY <2>7, <4>1
    <3>3. k + 1 \in Nat /\ k + 1 < n
      OBVIOUS
    <3>4. Flat(g[k + 1] \o ss[(k + 1) + 1], ss, m, (k + 1) + 1)
      <4> HIDE DEF S
      <4> QED
        BY <3>1, <3>3, FlatStep
    <3> QED
      BY <3>2, <3>4
  <2>4. \A k \in Nat : k \in S
    <3> HIDE DEF S
    <3> QED
      BY <2>2, <2>3, SetInduction
  <2>5. n - 1 \in Nat /\ n - 1 < n /\ (n - 1) + 1 = n
    BY <1>4
  <2>6. Flat(g[(n - 1) + 1], ss, m, (n - 1) + 1)
    BY <2>4, <2>5
  <2> QED
    BY <2>1, <2>5, <2>6
<1> QED
  BY <1>3, <1>4

\* A number, and then n entries of m cells each.
IsWritten(c, ss, m, n) ==
    /\ c \in Seq(CellSet)
    /\ Len(c) = 1 + n * m
    /\ c[1] = Num(n)
    /\ \A i \in 1 .. n : \A j \in 1 .. m : c[1 + (i - 1) * m + j] = ss[i][j]
    /\ Bytes(c) = 4 + Total([i \in 1 .. n |-> Bytes(ss[i])])

\* This is what the functions that pack lists write.
LEMMA Written ==
    ASSUME NEW n \in Nat, NEW ss \in [1 .. n -> Seq(CellSet)], NEW m \in 1 .. 3,
           \A i \in 1 .. n : Len(ss[i]) = m
    PROVE  IsWritten(<<Num(n)>> \o FlattenSeq(ss), ss, m, n)
<1> DEFINE f == FlattenSeq(ss)
           c == <<Num(n)>> \o f
           w == [i \in DOMAIN ss |-> Bytes(ss[i])]
<1>1. /\ f \in Seq(CellSet) /\ Len(f) = n * m /\ Bytes(f) = Total(FirstOf(w, n))
      /\ \A i \in 1 .. n : \A j \in 1 .. m : f[(i - 1) * m + j] = ss[i][j]
  BY FlattenUniform DEF Flat
<1>2. Num(n) \in CellSet /\ Num(n).w = 4
  BY DEF Num, CellSet
<1>3. <<Num(n)>> \in Seq(CellSet) /\ Bytes(<<Num(n)>>) = 4
  <2>1. <<Num(n)>> \in Seq(CellSet)
    BY <1>2
  <2> DEFINE s == [i \in DOMAIN <<Num(n)>> |-> <<Num(n)>>[i].w]
  <2>2. DOMAIN s = 1 .. 1 /\ s[1] = 4
    BY <1>2
  <2>3. Bytes(<<Num(n)>>) = Total(s)
    BY DEF Bytes
  <2> HIDE DEF s
  <2> QED
    BY <2>1, <2>2, <2>3, TotalOne
<1>4. c = <<Num(n)>> \o f
  OBVIOUS
<1> HIDE DEF f
<1>5. c \in Seq(CellSet) /\ Len(c) = 1 + n * m /\ c[1] = Num(n)
  <2>1. c \in Seq(CellSet)
    BY <1>1, <1>3
  <2>2. Len(c) = 1 + Len(f) /\ c[1] = Num(n)
    BY <1>1, <1>2
  <2> QED
    BY <1>1, <2>1, <2>2
<1>6. ASSUME NEW i \in 1 .. n, NEW j \in 1 .. m
      PROVE  c[1 + (i - 1) * m + j] = ss[i][j]
  <2>1. (i - 1) * m + j \in 1 .. Len(f)
    <3>1. CASE m = 1
      BY <1>1, <3>1
    <3>2. CASE m = 2
      BY <1>1, <3>2
    <3>3. CASE m = 3
      BY <1>1, <3>3
    <3> QED
      BY <3>1, <3>2, <3>3
  <2>2. \A k \in 1 .. Len(f) : c[1 + k] = f[k]
    BY <1>1, <1>2, <1>3, <1>4
  <2>3. 1 + (i - 1) * m + j = 1 + ((i - 1) * m + j)
    OBVIOUS
  <2>4. f[(i - 1) * m + j] = ss[i][j]
    BY <1>1
  <2> QED
    BY <2>1, <2>2, <2>3, <2>4
<1>7. Bytes(c) = 4 + Total([i \in 1 .. n |-> Bytes(ss[i])])
  <2>1. Bytes(c) = 4 + Bytes(f)
    BY <1>1, <1>3, <1>4, BytesConcat
  <2>2. FirstOf(w, n) = [i \in 1 .. n |-> Bytes(ss[i])]
    BY DEF FirstOf
  <2> QED
    BY <1>1, <2>1, <2>2
<1> HIDE DEF c
<1>8. IsWritten(c, ss, m, n)
  BY <1>5, <1>6, <1>7 DEF IsWritten
<1> QED
  BY <1>8 DEF c, f

\* c is what the reader finds at position p.
Found(cells, p, c) == \A k \in 1 .. Len(c) : cells[p + k - 1] = c[k]

\* The number and the entries are what a reader finds from position p on.
IsReread(cells, p, ss, m, n) ==
    /\ Value(cells[p], "num") = n
    /\ \A i \in 1 .. n : \A j \in 1 .. m : cells[p + 1 + (i - 1) * m + (j - 1)] = ss[i][j]

\* The reader finds the number and the entries.
LEMMA Reread ==
    ASSUME NEW n \in Nat, NEW ss, NEW m \in 1 .. 3,
           NEW c, IsWritten(c, ss, m, n), NEW cells, NEW p \in Nat, Found(cells, p, c)
    PROVE  IsReread(cells, p, ss, m, n)
<1>1. /\ Len(c) = 1 + n * m /\ c[1] = Num(n)
      /\ \A i \in 1 .. n : \A j \in 1 .. m : c[1 + (i - 1) * m + j] = ss[i][j]
  BY DEF IsWritten
<1>2. cells[p] = c[1]
  <2>1. 1 \in 1 .. Len(c) /\ p + 1 - 1 = p
    <3>1. CASE m = 1
      BY <1>1, <3>1
    <3>2. CASE m = 2
      BY <1>1, <3>2
    <3>3. CASE m = 3
      BY <1>1, <3>3
    <3> QED
      BY <3>1, <3>2, <3>3
  <2> QED
    BY <2>1 DEF Found
<1>3. ASSUME NEW i \in 1 .. n, NEW j \in 1 .. m
      PROVE  cells[p + 1 + (i - 1) * m + (j - 1)] = ss[i][j]
  <2> DEFINE k == 1 + (i - 1) * m + j
  <2>1. k \in 1 .. Len(c) /\ p + k - 1 = p + 1 + (i - 1) * m + (j - 1)
    <3>1. CASE m = 1
      BY <1>1, <3>1
    <3>2. CASE m = 2
      BY <1>1, <3>2
    <3>3. CASE m = 3
      BY <1>1, <3>3
    <3> QED
      BY <3>1, <3>2, <3>3
  <2>2. c[k] = ss[i][j]
    BY <1>1
  <2>3. cells[p + k - 1] = c[k]
    <3> HIDE DEF k
    <3> QED
      BY <2>1 DEF Found
  <2> QED
    BY <2>1, <2>2, <2>3
<1> QED
  BY <1>1, <1>2, <1>3 DEF IsReread, Value, Num

\* Two members are one and one, and three are two and one.
LEMMA SeqFew ==
    ASSUME NEW S, NEW x \in S, NEW y \in S, NEW z \in S
    PROVE  <<x, y>> = <<x>> \o <<y>> /\ <<x, y, z>> = <<x, y>> \o <<z>>
<1> DEFINE a == <<x>> \o <<y>>
           b == <<x, y>> \o <<z>>
<1>1. <<x>> \in Seq(S) /\ <<y>> \in Seq(S) /\ <<z>> \in Seq(S)
  OBVIOUS
<1>2. <<x, y>> \in Seq(S) /\ <<x, y, z>> \in Seq(S)
  OBVIOUS
<1>3. a \in Seq(S) /\ Len(a) = 2 /\ a[1] = x /\ a[2] = y
  BY <1>1
<1>4. b \in Seq(S) /\ Len(b) = 3 /\ b[1] = x /\ b[2] = y /\ b[3] = z
  BY <1>1, <1>2
<1> HIDE DEF a, b
<1>5. <<x, y>> = a
  BY <1>2, <1>3
<1>6. <<x, y, z>> = b
  BY <1>2, <1>4
<1> QED
  BY <1>5, <1>6 DEF a, b

\* The bytes of one cell, of two and of three.
LEMMA BytesFew ==
    ASSUME NEW a \in CellSet, NEW b \in CellSet, NEW d \in CellSet
    PROVE  /\ Bytes(<<a>>) = a.w
           /\ Bytes(<<a, b>>) = a.w + b.w
           /\ Bytes(<<a, b, d>>) = a.w + b.w + d.w
<1>1. a.w \in Nat /\ b.w \in Nat /\ d.w \in Nat
  BY DEF CellSet
<1>2. Bytes(<<>>) = 0
  <2>1. DOMAIN <<>> = 1 .. 0
    OBVIOUS
  <2> QED
    BY <2>1, TotalEmpty DEF Bytes
<1>3. ASSUME NEW c \in CellSet PROVE Bytes(<<c>>) = c.w
  <2> DEFINE s == [i \in DOMAIN <<c>> |-> <<c>>[i].w]
  <2>1. DOMAIN s = 1 .. 1 /\ s[1] = c.w /\ c.w \in Nat
    BY DEF CellSet
  <2>2. Bytes(<<c>>) = Total(s)
    BY DEF Bytes
  <2> HIDE DEF s
  <2> QED
    BY <2>1, <2>2, TotalOne
<1>4. Bytes(<<a, b>>) = a.w + b.w
  <2>1. <<a>> \in Seq(CellSet) /\ <<b>> \in Seq(CellSet)
    OBVIOUS
  <2>2. <<a, b>> = <<a>> \o <<b>>
    BY SeqFew
  <2> QED
    BY <1>3, <2>1, <2>2, BytesConcat
<1>5. Bytes(<<a, b, d>>) = a.w + b.w + d.w
  <2>1. <<a, b>> \in Seq(CellSet) /\ <<d>> \in Seq(CellSet)
    OBVIOUS
  <2>2. <<a, b, d>> = <<a, b>> \o <<d>>
    BY SeqFew
  <2> QED
    BY <1>3, <1>4, <2>1, <2>2, BytesConcat
<1> QED
  BY <1>3, <1>4, <1>5

\* Longer sums, term by term.
LEMMA TotalUnrolled ==
    ASSUME NEW n \in Nat, NEW s \in [1 .. n -> Nat]
    PROVE  \E T \in [0 .. n -> Nat] :
             /\ T[0] = 0 /\ T[n] = Total(s)
             /\ \A k \in 1 .. n : T[k] = T[k - 1] + s[k]
<1> DEFINE T == [k \in 0 .. n |-> Total(FirstOf(s, k))]
<1>1. T \in [0 .. n -> Nat]
  BY TotalNat
<1>2. T[0] = 0 /\ T[n] = Total(s)
  BY TotalFirst
<1>3. ASSUME NEW k \in 1 .. n
      PROVE  T[k] = T[k - 1] + s[k]
  <2>1. k - 1 \in Nat /\ k - 1 < n /\ (k - 1) + 1 = k
    OBVIOUS
  <2>2. Total(FirstOf(s, (k - 1) + 1)) = Total(FirstOf(s, k - 1)) + s[(k - 1) + 1]
    <3> HIDE DEF T
    <3> QED
      BY <2>1, TotalFirst
  <2>3. T[k] = Total(FirstOf(s, k)) /\ T[k - 1] = Total(FirstOf(s, k - 1))
    BY <2>1
  <2> HIDE DEF T
  <2> QED
    BY <2>1, <2>2, <2>3
<1> HIDE DEF T
<1> QED
  BY <1>1, <1>2, <1>3

\* The same for the bytes of cells.
LEMMA BytesUnrolled ==
    ASSUME NEW a \in Seq(CellSet)
    PROVE  \E T \in [0 .. Len(a) -> Nat] :
             /\ T[0] = 0 /\ T[Len(a)] = Bytes(a)
             /\ \A k \in 1 .. Len(a) : T[k] = T[k - 1] + a[k].w
<1> DEFINE s == [i \in DOMAIN a |-> a[i].w]
<1>1. Len(a) \in Nat /\ DOMAIN a = 1 .. Len(a) /\ \A i \in DOMAIN a : a[i].w \in Nat
  BY CellFields
<1>2. s \in [1 .. Len(a) -> Nat] /\ \A k \in 1 .. Len(a) : s[k] = a[k].w
  BY <1>1
<1>3. Bytes(a) = Total(s)
  BY DEF Bytes
<1> HIDE DEF s
<1>4. PICK T \in [0 .. Len(a) -> Nat] :
        /\ T[0] = 0 /\ T[Len(a)] = Total(s)
        /\ \A k \in 1 .. Len(a) : T[k] = T[k - 1] + s[k]
  BY <1>1, <1>2, TotalUnrolled
<1>5. \A k \in 1 .. Len(a) : T[k] = T[k - 1] + a[k].w
  BY <1>2, <1>4
<1> QED
  BY <1>3, <1>4, <1>5

-----------------------------------------------------------------------------
(* The first entry that ends a list.                                       *)

\* A set of natural numbers has a least member.
LEMMA LeastMember ==
    ASSUME NEW T, T \subseteq Nat, T # {}
    PROVE  \E i \in T : \A j \in T : i =< j
<1> SUFFICES ASSUME \A i \in T : \E j \in T : j < i
             PROVE  FALSE
  OBVIOUS
<1> DEFINE S == {k \in Nat : \A i \in T : k < i}
<1>1. 0 \in S
  <2>1. \A i \in T : \E j \in T : j \in Nat /\ j < i /\ i \in Nat
    OBVIOUS
  <2> QED
    BY <2>1
<1>2. ASSUME NEW k \in Nat, k \in S
      PROVE  k + 1 \in S
  <2>1. ASSUME NEW i \in T PROVE k + 1 < i
    <3>1. PICK j \in T : j < i
      OBVIOUS
    <3>2. k < j /\ i \in Nat /\ j \in Nat
      BY <1>2
    <3> QED
      BY <3>1, <3>2
  <2> QED
    BY <2>1
<1>3. \A k \in Nat : k \in S
  <2> HIDE DEF S
  <2> QED
    BY <1>1, <1>2, SetInduction
<1>4. PICK i \in T : TRUE
  OBVIOUS
<1>5. i \in S
  BY <1>3, <1>4
<1> QED
  BY <1>4, <1>5

\* How many of n entries come before the first of the entries in stops.
Before(stops, n) ==
    IF stops = {} THEN n ELSE (CHOOSE i \in stops : \A j \in stops : i =< j) - 1

\* None of them is a stop, and the next one is, if there is one.
LEMMA BeforeFacts ==
    ASSUME NEW n \in Nat, NEW stops \in SUBSET (1 .. n)
    PROVE  /\ Before(stops, n) \in 0 .. n
           /\ \A i \in 1 .. Before(stops, n) : i \notin stops
           /\ Before(stops, n) < n => Before(stops, n) + 1 \in stops
<1>1. CASE stops = {}
  BY <1>1 DEF Before
<1>2. CASE stops # {}
  <2> DEFINE m == CHOOSE i \in stops : \A j \in stops : i =< j
  <2>1. \E i \in stops : \A j \in stops : i =< j
    <3>1. stops \subseteq Nat
      OBVIOUS
    <3> QED
      BY <1>2, <3>1, LeastMember
  <2>2. m \in stops /\ \A j \in stops : m =< j
    BY <2>1
  <2>3. Before(stops, n) = m - 1
    BY <1>2 DEF Before
  <2> HIDE DEF m
  <2> QED
    BY <2>2, <2>3
<1> QED
  BY <1>1, <1>2

\* The entries that are walked: up to the first that does not satisfy the
\* condition, of which P holds the positions.
Walked(list, c, P) ==
    /\ c \in 0 .. Len(list)
    /\ \A i \in 1 .. c : i \in P
    /\ c < Len(list) => c + 1 \notin P

\* The walk over entries of two strings.
LEMMA WalkBoth ==
    ASSUME NEW E, NEW list \in Seq(E)
    PROVE  Walked(list, Leading(list, BothThere), {i \in DOMAIN list : BothThere(list[i])})
<1> DEFINE stops == {i \in DOMAIN list : ~ BothThere(list[i])}
<1>1. Len(list) \in Nat /\ DOMAIN list = 1 .. Len(list)
  OBVIOUS
<1>2. Leading(list, BothThere) = Before(stops, Len(list))
  BY DEF Leading, Before
<1>3. stops \in SUBSET (1 .. Len(list))
  BY <1>1
<1>4. \A i \in 1 .. Len(list) : i \in stops <=> i \notin {j \in DOMAIN list : BothThere(list[j])}
  BY <1>1
<1> HIDE DEF stops
<1> QED
  BY <1>1, <1>2, <1>3, <1>4, BeforeFacts DEF Walked

\* The walk over symbols.
LEMMA WalkNames ==
    ASSUME NEW E, NEW list \in Seq(E)
    PROVE  Walked(list, Leading(list, NameThere), {i \in DOMAIN list : NameThere(list[i])})
<1> DEFINE stops == {i \in DOMAIN list : ~ NameThere(list[i])}
<1>1. Len(list) \in Nat /\ DOMAIN list = 1 .. Len(list)
  OBVIOUS
<1>2. Leading(list, NameThere) = Before(stops, Len(list))
  BY DEF Leading, Before
<1>3. stops \in SUBSET (1 .. Len(list))
  BY <1>1
<1>4. \A i \in 1 .. Len(list) : i \in stops <=> i \notin {j \in DOMAIN list : NameThere(list[j])}
  BY <1>1
<1> HIDE DEF stops
<1> QED
  BY <1>1, <1>2, <1>3, <1>4, BeforeFacts DEF Walked

\* The walk that computes the size of elf entries.
LEMMA WalkSized ==
    ASSUME NEW E, NEW l, l.list \in Seq(E)
    PROVE  Walked(l.list, CountElf(l),
                  {i \in DOMAIN l.list : BothThere(l.list[i]) /\ l.list[i][3] # 0})
<1> DEFINE list == l.list
           stops == {i \in DOMAIN list : ~ (BothThere(list[i]) /\ list[i][3] # 0)}
<1>1. Len(list) \in Nat /\ DOMAIN list = 1 .. Len(list)
  OBVIOUS
<1>2. CountElf(l) = Before(stops, Len(list))
  BY DEF CountElf, Leading, Before
<1>3. stops \in SUBSET (1 .. Len(list))
  BY <1>1
<1>4. \A i \in 1 .. Len(list) :
        i \in stops <=> i \notin {j \in DOMAIN list : BothThere(list[j]) /\ list[j][3] # 0}
  BY <1>1
<1> HIDE DEF stops
<1> QED
  BY <1>1, <1>2, <1>3, <1>4, BeforeFacts DEF Walked

\* A list, and the walks over the lists of a binary.
LEMMA ListFacts ==
    ASSUME NEW E, NEW l \in Lists(E)
    PROVE  /\ l.list \in Seq(E) /\ Len(l.list) \in Nat /\ DOMAIN l.list = 1 .. Len(l.list)
           /\ l.there \in BOOLEAN
           /\ ~ l.there => l.list = <<>>
           /\ \A i \in 1 .. Len(l.list) : l.list[i] \in E
<1>1. l.list \in Seq(E) /\ l.there \in BOOLEAN /\ (~ l.there => l.list = <<>>)
  BY DEF Lists
<1> QED
  BY <1>1

-----------------------------------------------------------------------------
(* One section of a structure.                                             *)

\* A number is read as it was written.
LEMMA NumberCells ==
    /\ \A n \in Int : /\ Num(n) \in CellSet /\ Num(n).w = 4 /\ Value(Num(n), "num") = n
                      /\ Long(n) \in CellSet /\ Long(n).w = 8 /\ Value(Long(n), "long") = n
    /\ \A n \in Nat : Chars(n) \in CellSet /\ Chars(n).w = n
BY DEF Num, Long, Chars, Value, CellSet

\* A string takes the bytes that were computed, and arrives.
LEMMA StringCells ==
    ASSUME NEW s \in Strings
    PROVE  /\ l_packStr(s) \in CellSet
           /\ l_packStr(s).w = l_getStringPktSize(s) /\ l_getStringPktSize(s) \in Nat
           /\ l_unpackStr(l_packStr(s)) = Arrived(s)
BY DEF Strings, Null, l_packStr, l_getStringPktSize, l_unpackStr, Arrived, CellSet

\* An entry as it arrives.
ArrivedEntry(s, e) ==
    CASE s \in {"ptx", "cubin"} -> <<Arrived(e[1]), Arrived(e[2])>>
      [] s = "debug" -> <<Arrived(e[1]), Arrived(e[2]), e[3]>>
      [] s = "elf" -> <<Arrived(e[1]), IF e[3] = 0 THEN Null ELSE 0, e[3]>>
      [] s \in Symbols -> <<Arrived(e[1])>>

StringFields == {"key", "ident", "usageMode", "f", "hostFun", "deviceFun", "deviceName",
                 "deviceAddress"}

\* What w, read from the packed form of v with n entries, must be.
Delivered(s, v, n, w) ==
    IF s \in ListSections THEN w.list = [i \in 1 .. n |-> ArrivedEntry(s, v.list[i])]
    ELSE IF s = "dependends" THEN w = v
    ELSE \A f \in DOMAIN w : w[f] = IF f \in StringFields THEN Arrived(v[f]) ELSE v[f]

Mixed(s, v) == s = "elf" /\ v.there /\ CountElf(v) \notin {0, WalkElf(v, 1)}

\* The size of a section suffices, and whoever reads it where it was written
\* reads it whole.
Good(s, v) ==
    LET n == Count(s, v)
        c == PackOf(s, v, n)
    IN  /\ n \in Nat
        /\ SizeOf(s, v) \in Nat
        /\ c \in Seq(CellSet)
        /\ ~ Mixed(s, v) => Bytes(c) =< SizeOf(s, v)
        /\ ~ PackAsserts(s, v, n) =>
             \A cells : \A p \in Nat :
               Found(cells, p, c) =>
                 LET u == UnpackOf(s, cells, p)
                 IN  /\ u.next = p + Len(c) \/ (s = "dependends" /\ u.next = p)
                     /\ Delivered(s, v, n, u.val)

\* PTX and cubin code.
LEMMA PairsGood ==
    ASSUME NEW l \in Lists(Pairs), NEW s \in {"ptx", "cubin"}
    PROVE  Good(s, l)
<1> DEFINE n == CountPtx(l)
           ss == [i \in 1 .. n |-> <<l_packStr(l.list[i][1]), l_packStr(l.list[i][2])>>]
           c == <<Num(n)>> \o FlattenSeq(ss)
<1>1. /\ l.list \in Seq(Pairs) /\ Len(l.list) \in Nat /\ DOMAIN l.list = 1 .. Len(l.list)
      /\ ~ l.there => l.list = <<>>
      /\ \A i \in 1 .. Len(l.list) : l.list[i] \in Pairs
  BY ListFacts
<1>2. n \in 0 .. Len(l.list)
  BY <1>1, WalkBoth DEF Walked, CountPtx
<1>3. \A i \in 1 .. n : l.list[i][1] \in Strings /\ l.list[i][2] \in Strings
  BY <1>1, <1>2 DEF Pairs
<1> HIDE DEF n
<1>4. ASSUME NEW i \in 1 .. n
      PROVE  /\ ss[i] \in Seq(CellSet) /\ Len(ss[i]) = 2
             /\ ss[i][1] = l_packStr(l.list[i][1]) /\ ss[i][2] = l_packStr(l.list[i][2])
             /\ Bytes(ss[i]) = l_getStringPktSize(l.list[i][1]) + l_getStringPktSize(l.list[i][2])
  <2>1. l_packStr(l.list[i][1]) \in CellSet /\ l_packStr(l.list[i][2]) \in CellSet
    BY <1>3, StringCells
  <2>2. ss[i] = <<l_packStr(l.list[i][1]), l_packStr(l.list[i][2])>>
    OBVIOUS
  <2>3. Bytes(ss[i]) = l_packStr(l.list[i][1]).w + l_packStr(l.list[i][2]).w
    BY <2>1, <2>2, BytesFew
  <2>4. /\ l_packStr(l.list[i][1]).w = l_getStringPktSize(l.list[i][1])
        /\ l_packStr(l.list[i][2]).w = l_getStringPktSize(l.list[i][2])
    BY <1>3, StringCells
  <2> QED
    BY <2>1, <2>2, <2>3, <2>4
<1>5. ss \in [1 .. n -> Seq(CellSet)]
  BY <1>4
<1>6. IsWritten(c, ss, 2, n)
  <2> HIDE DEF ss
  <2> QED
    BY <1>2, <1>4, <1>5, Written
<1>7. PackOf(s, l, n) = c
  <2>1. PackOf(s, l, n) = PackEntries(l, n, LAMBDA e : <<l_packStr(e[1]), l_packStr(e[2])>>)
    BY DEF PackOf, l_packPtx, l_packCubin
  <2>2. CASE l.there
    BY <2>1, <2>2 DEF PackEntries
  <2>3. CASE ~ l.there
    <3>1. n = 0
      BY <1>1, <1>2, <2>3
    <3>2. ss = <<>> /\ FlattenSeq(<<>>) = <<>>
      BY <3>1 DEF FlattenSeq
    <3> QED
      BY <2>1, <2>3, <3>2 DEF PackEntries
  <2> QED
    BY <2>2, <2>3
<1>8. Count(s, l) = n
  BY DEF Count, n
<1>9. SizeOf(s, l) = Bytes(c) /\ SizeOf(s, l) \in Nat
  <2>1. [i \in 1 .. n |-> Bytes(ss[i])] =
          [i \in 1 .. n |->
             l_getStringPktSize(l.list[i][1]) + l_getStringPktSize(l.list[i][2])]
    BY <1>4
  <2>2. SizeOf(s, l) = 4 + Total([i \in 1 .. n |->
             l_getStringPktSize(l.list[i][1]) + l_getStringPktSize(l.list[i][2])])
    BY DEF SizeOf, l_getSizePtx, l_getSizeCubin, n
  <2>3. c \in Seq(CellSet) /\ Bytes(c) = 4 + Total([i \in 1 .. n |-> Bytes(ss[i])])
    BY <1>6 DEF IsWritten
  <2> QED
    BY <2>1, <2>2, <2>3, BytesNat
<1>10. ASSUME NEW cells, NEW p \in Nat, Found(cells, p, c)
       PROVE  LET u == UnpackOf(s, cells, p)
              IN  u.next = p + Len(c) /\ Delivered(s, l, n, u.val)
  <2> DEFINE u == UnpackOf(s, cells, p)
  <2>1. /\ Value(cells[p], "num") = n
        /\ \A i \in 1 .. n : \A j \in 1 .. 2 : cells[p + 1 + (i - 1) * 2 + (j - 1)] = ss[i][j]
    <3>1. n \in Nat /\ 2 \in 1 .. 3
      BY <1>1, <1>2
    <3> HIDE DEF ss, c
    <3>2. IsReread(cells, p, ss, 2, n)
      BY <1>6, <1>10, <3>1, Reread
    <3> QED
      BY <3>2 DEF IsReread
  <2>2. Len(c) = 1 + n * 2
    BY <1>6 DEF IsWritten
  <2>3. /\ u.next = p + 1 + n * 2
        /\ u.val.list = [i \in 1 .. n |-> <<l_unpackStr(cells[p + 1 + (i - 1) * 2]),
                                            l_unpackStr(cells[p + 1 + (i - 1) * 2 + 1])>>]
    BY <2>1 DEF UnpackOf, l_unpackPtx, l_unpackCubin, UnpackEntries, List
  <2>4. ASSUME NEW i \in 1 .. n
        PROVE  <<l_unpackStr(cells[p + 1 + (i - 1) * 2]),
                 l_unpackStr(cells[p + 1 + (i - 1) * 2 + 1])>> = ArrivedEntry(s, l.list[i])
    <3>1. /\ cells[p + 1 + (i - 1) * 2 + (1 - 1)] = l_packStr(l.list[i][1])
          /\ cells[p + 1 + (i - 1) * 2 + (2 - 1)] = l_packStr(l.list[i][2])
      BY <1>4, <2>1
    <3>2. /\ p + 1 + (i - 1) * 2 + (1 - 1) = p + 1 + (i - 1) * 2
          /\ p + 1 + (i - 1) * 2 + (2 - 1) = p + 1 + (i - 1) * 2 + 1
      OBVIOUS
    <3>3. /\ l_unpackStr(l_packStr(l.list[i][1])) = Arrived(l.list[i][1])
          /\ l_unpackStr(l_packStr(l.list[i][2])) = Arrived(l.list[i][2])
      BY <1>3, StringCells
    <3>4. /\ l_unpackStr(cells[p + 1 + (i - 1) * 2]) = Arrived(l.list[i][1])
          /\ l_unpackStr(cells[p + 1 + (i - 1) * 2 + 1]) = Arrived(l.list[i][2])
      BY <3>1, <3>2, <3>3
    <3>5. ArrivedEntry(s, l.list[i]) = <<Arrived(l.list[i][1]), Arrived(l.list[i][2])>>
      BY DEF ArrivedEntry, Symbols
    <3> QED
      BY <3>4, <3>5
  <2>5. u.val.list = [i \in 1 .. n |-> ArrivedEntry(s, l.list[i])]
    BY <2>3, <2>4
  <2> HIDE DEF u, c
  <2>6. u.next = p + Len(c)
    BY <1>1, <1>2, <2>2, <2>3
  <2>7. Delivered(s, l, n, u.val)
    BY <2>5 DEF Delivered, ListSections
  <2> QED
    BY <2>6, <2>7 DEF u
<1>11. c \in Seq(CellSet)
  BY <1>6 DEF IsWritten
<1> HIDE DEF c
<1> QED
  BY <1>2, <1>7, <1>8, <1>9, <1>10, <1>11 DEF Good

\* Debug entries.
LEMMA DebugGood ==
    ASSUME NEW l \in Lists(DebugEntries)
    PROVE  Good("debug", l)
<1> DEFINE n == CountDebug(l)
           ss == [i \in 1 .. n |-> <<l_packStr(l.list[i][1]), l_packStr(l.list[i][2]),
                                     Num(l.list[i][3])>>]
           c == <<Num(n)>> \o FlattenSeq(ss)
<1>1. /\ l.list \in Seq(DebugEntries) /\ Len(l.list) \in Nat /\ DOMAIN l.list = 1 .. Len(l.list)
      /\ ~ l.there => l.list = <<>>
      /\ \A i \in 1 .. Len(l.list) : l.list[i] \in DebugEntries
  BY ListFacts
<1>2. n \in 0 .. Len(l.list)
  BY <1>1, WalkBoth DEF Walked, CountDebug
<1>3. \A i \in 1 .. n : /\ l.list[i][1] \in Strings /\ l.list[i][2] \in Strings
                        /\ l.list[i][3] \in Int
  BY <1>1, <1>2 DEF DebugEntries
<1> HIDE DEF n
<1>4. ASSUME NEW i \in 1 .. n
      PROVE  /\ ss[i] \in Seq(CellSet) /\ Len(ss[i]) = 3
             /\ ss[i][1] = l_packStr(l.list[i][1]) /\ ss[i][2] = l_packStr(l.list[i][2])
             /\ ss[i][3] = Num(l.list[i][3])
             /\ Bytes(ss[i]) =
                  l_getStringPktSize(l.list[i][1]) + l_getStringPktSize(l.list[i][2]) + 4
  <2>1. /\ l_packStr(l.list[i][1]) \in CellSet /\ l_packStr(l.list[i][2]) \in CellSet
        /\ Num(l.list[i][3]) \in CellSet /\ Num(l.list[i][3]).w = 4
    BY <1>3, StringCells, NumberCells
  <2>2. ss[i] = <<l_packStr(l.list[i][1]), l_packStr(l.list[i][2]), Num(l.list[i][3])>>
    OBVIOUS
  <2>3. Bytes(ss[i]) = l_packStr(l.list[i][1]).w + l_packStr(l.list[i][2]).w
                       + Num(l.list[i][3]).w
    BY <2>1, <2>2, BytesFew
  <2>4. /\ l_packStr(l.list[i][1]).w = l_getStringPktSize(l.list[i][1])
        /\ l_packStr(l.list[i][2]).w = l_getStringPktSize(l.list[i][2])
    BY <1>3, StringCells
  <2> QED
    BY <2>1, <2>2, <2>3, <2>4
<1>5. ss \in [1 .. n -> Seq(CellSet)]
  BY <1>4
<1>6. IsWritten(c, ss, 3, n)
  <2> HIDE DEF ss
  <2> QED
    BY <1>2, <1>4, <1>5, Written
<1>7. PackOf("debug", l, n) = c
  <2>1. PackOf("debug", l, n) =
          PackEntries(l, n, LAMBDA e : <<l_packStr(e[1]), l_packStr(e[2]), Num(e[3])>>)
    BY DEF PackOf, l_packDebug
  <2>2. CASE l.there
    BY <2>1, <2>2 DEF PackEntries
  <2>3. CASE ~ l.there
    <3>1. n = 0
      BY <1>1, <1>2, <2>3
    <3>2. ss = <<>> /\ FlattenSeq(<<>>) = <<>>
      BY <3>1 DEF FlattenSeq
    <3> QED
      BY <2>1, <2>3, <3>2 DEF PackEntries
  <2> QED
    BY <2>2, <2>3
<1>8. Count("debug", l) = n
  BY DEF Count, n
<1>9. SizeOf("debug", l) = Bytes(c) /\ SizeOf("debug", l) \in Nat
  <2>1. [i \in 1 .. n |-> Bytes(ss[i])] =
          [i \in 1 .. n |->
             l_getStringPktSize(l.list[i][1]) + l_getStringPktSize(l.list[i][2]) + 4]
    BY <1>4
  <2>2. SizeOf("debug", l) = 4 + Total([i \in 1 .. n |->
             l_getStringPktSize(l.list[i][1]) + l_getStringPktSize(l.list[i][2]) + 4])
    BY DEF SizeOf, l_getSizeDebug, n
  <2>3. c \in Seq(CellSet) /\ Bytes(c) = 4 + Total([i \in 1 .. n |-> Bytes(ss[i])])
    BY <1>6 DEF IsWritten
  <2> QED
    BY <2>1, <2>2, <2>3, BytesNat
<1>10. ASSUME NEW cells, NEW p \in Nat, Found(cells, p, c)
       PROVE  LET u == UnpackOf("debug", cells, p)
              IN  u.next = p + Len(c) /\ Delivered("debug", l, n, u.val)
  <2> DEFINE u == UnpackOf("debug", cells, p)
             r == [i \in 1 .. n |-> <<l_unpackStr(cells[p + 1 + (i - 1) * 3]),
                                      l_unpackStr(cells[p + 1 + (i - 1) * 3 + 1]),
                                      Value(cells[p + 1 + (i - 1) * 3 + 2], "num")>>]
  <2>1. /\ Value(cells[p], "num") = n
        /\ \A i \in 1 .. n : \A j \in 1 .. 3 : cells[p + 1 + (i - 1) * 3 + (j - 1)] = ss[i][j]
    <3>1. n \in Nat /\ 3 \in 1 .. 3
      BY <1>1, <1>2
    <3> HIDE DEF ss, c
    <3>2. IsReread(cells, p, ss, 3, n)
      BY <1>6, <1>10, <3>1, Reread
    <3> QED
      BY <3>2 DEF IsReread
  <2>2. Len(c) = 1 + n * 3
    BY <1>6 DEF IsWritten
  <2>3. u.next = p + 1 + n * 3 /\ u.val.list = r
    BY <2>1 DEF UnpackOf, l_unpackDebug, UnpackEntries, List, Absent
  <2>4. ASSUME NEW i \in 1 .. n
        PROVE  r[i] = ArrivedEntry("debug", l.list[i])
    <3>1. /\ cells[p + 1 + (i - 1) * 3 + (1 - 1)] = l_packStr(l.list[i][1])
          /\ cells[p + 1 + (i - 1) * 3 + (2 - 1)] = l_packStr(l.list[i][2])
          /\ cells[p + 1 + (i - 1) * 3 + (3 - 1)] = Num(l.list[i][3])
      BY <1>4, <2>1
    <3>2. /\ p + 1 + (i - 1) * 3 + (1 - 1) = p + 1 + (i - 1) * 3
          /\ p + 1 + (i - 1) * 3 + (2 - 1) = p + 1 + (i - 1) * 3 + 1
          /\ p + 1 + (i - 1) * 3 + (3 - 1) = p + 1 + (i - 1) * 3 + 2
      OBVIOUS
    <3>3. /\ l_unpackStr(l_packStr(l.list[i][1])) = Arrived(l.list[i][1])
          /\ l_unpackStr(l_packStr(l.list[i][2])) = Arrived(l.list[i][2])
          /\ Value(Num(l.list[i][3]), "num") = l.list[i][3]
      BY <1>3, StringCells, NumberCells
    <3>4. /\ l_unpackStr(cells[p + 1 + (i - 1) * 3]) = Arrived(l.list[i][1])
          /\ l_unpackStr(cells[p + 1 + (i - 1) * 3 + 1]) = Arrived(l.list[i][2])
          /\ Value(cells[p + 1 + (i - 1) * 3 + 2], "num") = l.list[i][3]
      BY <3>1, <3>2, <3>3
    <3>5. ArrivedEntry("debug", l.list[i]) =
            <<Arrived(l.list[i][1]), Arrived(l.list[i][2]), l.list[i][3]>>
      BY DEF ArrivedEntry, Symbols
    <3> QED
      BY <3>4, <3>5
  <2>5. u.val.list = [i \in 1 .. n |-> ArrivedEntry("debug", l.list[i])]
    BY <2>3, <2>4
  <2> HIDE DEF u, c
  <2>6. u.next = p + Len(c)
    BY <1>1, <1>2, <2>2, <2>3
  <2>7. Delivered("debug", l, n, u.val)
    BY <2>5 DEF Delivered, ListSections
  <2> QED
    BY <2>6, <2>7 DEF u
<1>11. c \in Seq(CellSet)
  BY <1>6 DEF IsWritten
<1> HIDE DEF c
<1> QED
  BY <1>2, <1>7, <1>8, <1>9, <1>10, <1>11 DEF Good

\* Symbols.
LEMMA SymbolsGood ==
    ASSUME NEW l \in Lists(SymbolEntries), NEW s \in Symbols
    PROVE  Good(s, l)
<1> DEFINE n == CountSymbol(l)
           ss == [i \in 1 .. n |-> <<l_packStr(l.list[i][1])>>]
           c == <<Num(n)>> \o FlattenSeq(ss)
<1>1. /\ l.list \in Seq(SymbolEntries) /\ Len(l.list) \in Nat /\ DOMAIN l.list = 1 .. Len(l.list)
      /\ ~ l.there => l.list = <<>>
      /\ \A i \in 1 .. Len(l.list) : l.list[i] \in SymbolEntries
  BY ListFacts
<1>2. n \in 0 .. Len(l.list)
  BY <1>1, WalkNames DEF Walked, CountSymbol
<1>3. \A i \in 1 .. n : l.list[i][1] \in Strings
  BY <1>1, <1>2 DEF SymbolEntries
<1> HIDE DEF n
<1>4. ASSUME NEW i \in 1 .. n
      PROVE  /\ ss[i] \in Seq(CellSet) /\ Len(ss[i]) = 1
             /\ ss[i][1] = l_packStr(l.list[i][1])
             /\ Bytes(ss[i]) = l_getStringPktSize(l.list[i][1])
  <2>1. l_packStr(l.list[i][1]) \in CellSet
    BY <1>3, StringCells
  <2>2. ss[i] = <<l_packStr(l.list[i][1])>>
    OBVIOUS
  <2>3. Bytes(ss[i]) = l_packStr(l.list[i][1]).w
    BY <2>1, <2>2, BytesFew
  <2>4. l_packStr(l.list[i][1]).w = l_getStringPktSize(l.list[i][1])
    BY <1>3, StringCells
  <2> QED
    BY <2>1, <2>2, <2>3, <2>4
<1>5. ss \in [1 .. n -> Seq(CellSet)]
  BY <1>4
<1>6. IsWritten(c, ss, 1, n)
  <2> HIDE DEF ss
  <2> QED
    BY <1>2, <1>4, <1>5, Written
<1>7. PackOf(s, l, n) = c
  <2>1. PackOf(s, l, n) = PackEntries(l, n, LAMBDA e : <<l_packStr(e[1])>>)
    BY DEF PackOf, l_packSymbol, Symbols
  <2>2. CASE l.there
    BY <2>1, <2>2 DEF PackEntries
  <2>3. CASE ~ l.there
    <3>1. n = 0
      BY <1>1, <1>2, <2>3
    <3>2. ss = <<>> /\ FlattenSeq(<<>>) = <<>>
      BY <3>1 DEF FlattenSeq
    <3> QED
      BY <2>1, <2>3, <3>2 DEF PackEntries
  <2> QED
    BY <2>2, <2>3
<1>8. Count(s, l) = n
  BY DEF Count, n, Symbols
<1>9. Bytes(c) =< SizeOf(s, l) /\ SizeOf(s, l) \in Nat
  <2>1. [i \in 1 .. n |-> Bytes(ss[i])] = [i \in 1 .. n |-> l_getStringPktSize(l.list[i][1])]
    BY <1>4
  <2>2. SizeOf(s, l) = 4 + (IF n = 0 THEN l_getStringPktSize(Null)
                            ELSE Total([i \in 1 .. n |-> l_getStringPktSize(l.list[i][1])]))
    BY DEF SizeOf, l_getSizeSymbol, n, Symbols
  <2>3. c \in Seq(CellSet) /\ Bytes(c) = 4 + Total([i \in 1 .. n |-> Bytes(ss[i])])
    BY <1>6 DEF IsWritten
  <2>4. n = 0 => Total([i \in 1 .. n |-> Bytes(ss[i])]) = 0
    BY TotalEmpty
  <2>5. l_getStringPktSize(Null) = 4
    BY DEF l_getStringPktSize
  <2>6. Bytes(c) \in Nat
    BY <2>3, BytesNat
  <2> HIDE DEF c, ss
  <2>7. CASE n = 0
    BY <2>2, <2>3, <2>4, <2>5, <2>7
  <2>8. CASE n # 0
    <3>1. SizeOf(s, l) = 4 + Total([i \in 1 .. n |-> l_getStringPktSize(l.list[i][1])])
      BY <2>2, <2>8
    <3>2. SizeOf(s, l) = Bytes(c)
      BY <2>1, <2>3, <3>1
    <3> QED
      BY <2>6, <3>2
  <2> QED
    BY <2>7, <2>8
<1>10. ASSUME NEW cells, NEW p \in Nat, Found(cells, p, c)
       PROVE  LET u == UnpackOf(s, cells, p)
              IN  u.next = p + Len(c) /\ Delivered(s, l, n, u.val)
  <2> DEFINE u == UnpackOf(s, cells, p)
             r == [i \in 1 .. n |-> <<l_unpackStr(cells[p + 1 + (i - 1) * 1])>>]
  <2>1. /\ Value(cells[p], "num") = n
        /\ \A i \in 1 .. n : \A j \in 1 .. 1 : cells[p + 1 + (i - 1) * 1 + (j - 1)] = ss[i][j]
    <3>1. n \in Nat /\ 1 \in 1 .. 3
      BY <1>1, <1>2
    <3> HIDE DEF ss, c
    <3>2. IsReread(cells, p, ss, 1, n)
      BY <1>6, <1>10, <3>1, Reread
    <3> QED
      BY <3>2 DEF IsReread
  <2>2. Len(c) = 1 + n * 1
    BY <1>6 DEF IsWritten
  <2>3. u.next = p + 1 + n * 1 /\ u.val.list = r
    BY <2>1 DEF UnpackOf, l_unpackSymbol, UnpackEntries, List, Absent, Symbols
  <2>4. ASSUME NEW i \in 1 .. n
        PROVE  r[i] = ArrivedEntry(s, l.list[i])
    <3>1. cells[p + 1 + (i - 1) * 1 + (1 - 1)] = l_packStr(l.list[i][1])
      BY <1>4, <2>1
    <3>2. p + 1 + (i - 1) * 1 + (1 - 1) = p + 1 + (i - 1) * 1
      OBVIOUS
    <3>3. l_unpackStr(l_packStr(l.list[i][1])) = Arrived(l.list[i][1])
      BY <1>3, StringCells
    <3>4. l_unpackStr(cells[p + 1 + (i - 1) * 1]) = Arrived(l.list[i][1])
      BY <3>1, <3>2, <3>3
    <3>5. ArrivedEntry(s, l.list[i]) = <<Arrived(l.list[i][1])>>
      BY DEF ArrivedEntry, Symbols
    <3> QED
      BY <3>4, <3>5
  <2>5. u.val.list = [i \in 1 .. n |-> ArrivedEntry(s, l.list[i])]
    BY <2>3, <2>4
  <2> HIDE DEF u, c
  <2>6. u.next = p + Len(c)
    BY <1>1, <1>2, <2>2, <2>3
  <2>7. Delivered(s, l, n, u.val)
    BY <2>5 DEF Delivered, ListSections, Symbols
  <2> QED
    BY <2>6, <2>7 DEF u
<1>11. c \in Seq(CellSet)
  BY <1>6 DEF IsWritten
<1> HIDE DEF c
<1> QED
  BY <1>2, <1>7, <1>8, <1>9, <1>10, <1>11 DEF Good

\* Elf entries: a list that is not mixed.
LEMMA ElfGood ==
    ASSUME NEW l \in Lists(ElfEntries)
    PROVE  /\ Good("elf", l)
           /\ ~ Mixed("elf", l) => ~ PackAsserts("elf", l, Count("elf", l))
<1> DEFINE n == CountElf(l)
           w == WalkElf(l, n)
           ss == [i \in 1 .. w |-> <<l_packStr(l.list[i][1]), Num(l.list[i][3]),
                                     Chars(l.list[i][3])>>]
           d == <<Num(w)>> \o FlattenSeq(ss)
           c == <<Num(n)>> \o Tail(d)
<1>1. /\ l.list \in Seq(ElfEntries) /\ Len(l.list) \in Nat /\ DOMAIN l.list = 1 .. Len(l.list)
      /\ ~ l.there => l.list = <<>>
      /\ \A i \in 1 .. Len(l.list) : l.list[i] \in ElfEntries
  BY ListFacts
<1>2. n \in 0 .. Len(l.list)
  BY <1>1, WalkSized DEF Walked
<1>3. w \in 0 .. Len(l.list)
  <2>1. Leading(l.list, BothThere) \in 0 .. Len(l.list)
    BY <1>1, WalkBoth DEF Walked
  <2> QED
    BY <1>1, <2>1 DEF WalkElf
<1>4. ~ Mixed("elf", l) => w = n
  <2>1. n = 0 => w = 0
    BY DEF WalkElf
  <2>2. n # 0 => w = WalkElf(l, 1)
    BY DEF WalkElf
  <2>3. ~ l.there => n = 0
    BY <1>1, <1>2
  <2> QED
    BY <2>1, <2>2, <2>3 DEF Mixed
<1>5. \A i \in 1 .. w : l.list[i][1] \in Strings /\ l.list[i][3] \in Nat
  BY <1>1, <1>3 DEF ElfEntries
<1>6. Count("elf", l) = n
  BY DEF Count
<1>7. PackAsserts("elf", l, n) <=> w # n
  BY DEF PackAsserts
<1>8. SizeOf("elf", l) = 4 + Total([i \in 1 .. n |->
             l_getStringPktSize(l.list[i][1]) + l.list[i][3] + 4])
  BY DEF SizeOf, l_getSizeElf
<1>9. PackOf("elf", l, n) = <<Num(n)>> \o Tail(PackEntries(l, w,
                 LAMBDA e : <<l_packStr(e[1]), Num(e[3]), Chars(e[3])>>))
  BY DEF PackOf, l_packElf
<1>10. \A i \in 1 .. n : l.list[i][1] \in Strings /\ l.list[i][3] \in Nat
  BY <1>1, <1>2 DEF ElfEntries
<1> HIDE DEF n, w
<1>11. ASSUME NEW i \in 1 .. w
       PROVE  /\ ss[i] \in Seq(CellSet) /\ Len(ss[i]) = 3
              /\ ss[i][1] = l_packStr(l.list[i][1]) /\ ss[i][2] = Num(l.list[i][3])
              /\ ss[i][3] = Chars(l.list[i][3])
              /\ Bytes(ss[i]) = l_getStringPktSize(l.list[i][1]) + l.list[i][3] + 4
  <2>1. /\ l_packStr(l.list[i][1]) \in CellSet
        /\ Num(l.list[i][3]) \in CellSet /\ Num(l.list[i][3]).w = 4
        /\ Chars(l.list[i][3]) \in CellSet /\ Chars(l.list[i][3]).w = l.list[i][3]
    BY <1>5, StringCells, NumberCells
  <2>2. ss[i] = <<l_packStr(l.list[i][1]), Num(l.list[i][3]), Chars(l.list[i][3])>>
    OBVIOUS
  <2>3. Bytes(ss[i]) = l_packStr(l.list[i][1]).w + Num(l.list[i][3]).w
                       + Chars(l.list[i][3]).w
    BY <2>1, <2>2, BytesFew
  <2>4. /\ l_packStr(l.list[i][1]).w = l_getStringPktSize(l.list[i][1])
        /\ l_getStringPktSize(l.list[i][1]) \in Nat
    BY <1>5, StringCells
  <2>5. l.list[i][3] \in Nat
    BY <1>5
  <2> HIDE DEF ss
  <2>6. Bytes(ss[i]) = l_getStringPktSize(l.list[i][1]) + l.list[i][3] + 4
    BY <2>1, <2>3, <2>4, <2>5
  <2> QED
    BY <2>1, <2>2, <2>6
<1>12. ss \in [1 .. w -> Seq(CellSet)]
  BY <1>11
<1>13. IsWritten(d, ss, 3, w)
  <2>1. w \in Nat
    BY <1>1, <1>3
  <2> HIDE DEF ss
  <2> QED
    BY <1>11, <1>12, <2>1, Written
<1>14. PackOf("elf", l, n) = c
  <2>1. CASE l.there
    BY <1>9, <2>1 DEF PackEntries
  <2>2. CASE ~ l.there
    <3>1. w = 0
      BY <1>1, <1>3, <2>2
    <3>2. ss = <<>> /\ FlattenSeq(<<>>) = <<>>
      BY <3>1 DEF FlattenSeq
    <3> QED
      BY <1>9, <2>2, <3>2 DEF PackEntries
  <2> QED
    BY <2>1, <2>2
<1> HIDE DEF d
<1>15. d \in Seq(CellSet) /\ Len(d) = 1 + w * 3 /\ d[1] = Num(w) /\ Len(d) > 0
  BY <1>1, <1>3, <1>13 DEF IsWritten
<1>16. c \in Seq(CellSet)
  <2>1. Num(n) \in CellSet
    BY <1>1, <1>2, NumberCells
  <2>2. Tail(d) \in Seq(CellSet)
    BY <1>15
  <2> QED
    BY <2>1, <2>2
<1>17. w = n => c = d
  <2> SUFFICES ASSUME w = n PROVE c = d
    OBVIOUS
  <2>1. Len(c) = Len(d)
    BY <1>15, <1>16
  <2>2. ASSUME NEW i \in 1 .. Len(d) PROVE c[i] = d[i]
    BY <1>15, <2>2
  <2> HIDE DEF c
  <2> QED
    BY <1>15, <1>16, <2>1, <2>2
<1> HIDE DEF c
<1>18. w = n => SizeOf("elf", l) = Bytes(c)
  <2> SUFFICES ASSUME w = n PROVE SizeOf("elf", l) = Bytes(c)
    OBVIOUS
  <2>1. [i \in 1 .. w |-> Bytes(ss[i])] =
          [i \in 1 .. n |-> l_getStringPktSize(l.list[i][1]) + l.list[i][3] + 4]
    BY <1>11
  <2>2. Bytes(d) = 4 + Total([i \in 1 .. w |-> Bytes(ss[i])])
    BY <1>13 DEF IsWritten
  <2> QED
    BY <1>8, <1>17, <2>1, <2>2
<1>19. SizeOf("elf", l) \in Nat
  <2> DEFINE t == [i \in 1 .. n |-> l_getStringPktSize(l.list[i][1]) + l.list[i][3] + 4]
  <2>1. n \in Nat
    BY <1>1, <1>2
  <2>2. \A i \in 1 .. n : l_getStringPktSize(l.list[i][1]) \in Nat
    BY <1>10, StringCells
  <2>3. t \in [1 .. n -> Nat]
    BY <1>10, <2>2
  <2>4. SizeOf("elf", l) = 4 + Total(t)
    BY <1>8
  <2> HIDE DEF t
  <2>5. Total(t) \in Nat
    BY <2>1, <2>3, TotalNat
  <2> QED
    BY <2>4, <2>5
<1>20. ASSUME w = n, NEW cells, NEW p \in Nat, Found(cells, p, c)
       PROVE  LET u == UnpackOf("elf", cells, p)
              IN  u.next = p + Len(c) /\ Delivered("elf", l, n, u.val)
  <2> DEFINE u == UnpackOf("elf", cells, p)
             r == [i \in 1 .. n |->
                     <<l_unpackStr(cells[p + 1 + (i - 1) * 3]),
                       IF Value(cells[p + 1 + (i - 1) * 3 + 1], "num") = 0 THEN Null ELSE 0,
                       Value(cells[p + 1 + (i - 1) * 3 + 1], "num")>>]
  <2>1. /\ Value(cells[p], "num") = n
        /\ \A i \in 1 .. n : \A j \in 1 .. 3 : cells[p + 1 + (i - 1) * 3 + (j - 1)] = ss[i][j]
    <3>1. n \in Nat /\ 3 \in 1 .. 3
      BY <1>1, <1>2
    <3> HIDE DEF ss
    <3>2. Found(cells, p, d)
      BY <1>17, <1>20
    <3>3. IsWritten(d, ss, 3, n)
      BY <1>13, <1>20
    <3>4. IsReread(cells, p, ss, 3, n)
      BY <3>1, <3>2, <3>3, Reread
    <3> QED
      BY <3>4 DEF IsReread
  <2>2. Len(c) = 1 + n * 3
    BY <1>15, <1>17, <1>20
  <2>3. u.next = p + 1 + n * 3 /\ u.val.list = r
    BY <2>1 DEF UnpackOf, l_unpackElf, UnpackEntries, List, Absent
  <2>4. ASSUME NEW i \in 1 .. n
        PROVE  r[i] = ArrivedEntry("elf", l.list[i])
    <3>1. /\ cells[p + 1 + (i - 1) * 3 + (1 - 1)] = l_packStr(l.list[i][1])
          /\ cells[p + 1 + (i - 1) * 3 + (2 - 1)] = Num(l.list[i][3])
      BY <1>11, <1>20, <2>1
    <3>2. /\ p + 1 + (i - 1) * 3 + (1 - 1) = p + 1 + (i - 1) * 3
          /\ p + 1 + (i - 1) * 3 + (2 - 1) = p + 1 + (i - 1) * 3 + 1
      OBVIOUS
    <3>3. /\ l_unpackStr(l_packStr(l.list[i][1])) = Arrived(l.list[i][1])
          /\ Value(Num(l.list[i][3]), "num") = l.list[i][3]
      BY <1>10, StringCells, NumberCells
    <3>4. /\ l_unpackStr(cells[p + 1 + (i - 1) * 3]) = Arrived(l.list[i][1])
          /\ Value(cells[p + 1 + (i - 1) * 3 + 1], "num") = l.list[i][3]
      BY <3>1, <3>2, <3>3
    <3>5. ArrivedEntry("elf", l.list[i]) =
            <<Arrived(l.list[i][1]), IF l.list[i][3] = 0 THEN Null ELSE 0, l.list[i][3]>>
      BY DEF ArrivedEntry, Symbols
    <3> QED
      BY <3>4, <3>5
  <2>5. u.val.list = [i \in 1 .. n |-> ArrivedEntry("elf", l.list[i])]
    BY <2>3, <2>4
  <2>6. u.next = p + Len(c)
    BY <1>1, <1>2, <2>2, <2>3
  <2> HIDE DEF u
  <2>7. Delivered("elf", l, n, u.val)
    BY <2>5 DEF Delivered, ListSections
  <2> QED
    BY <2>6, <2>7 DEF u
<1>21. Bytes(c) \in Nat /\ n \in Nat
  BY <1>1, <1>2, <1>16, BytesNat
<1>22. /\ ~ Mixed("elf", l) => Bytes(c) =< SizeOf("elf", l)
       /\ ~ Mixed("elf", l) => ~ PackAsserts("elf", l, n)
  BY <1>4, <1>7, <1>18, <1>21
<1>23. ~ PackAsserts("elf", l, n) =>
         \A cells : \A p \in Nat :
           Found(cells, p, c) =>
             LET u == UnpackOf("elf", cells, p)
             IN  u.next = p + Len(c) /\ Delivered("elf", l, n, u.val)
  BY <1>7, <1>20
<1> QED
  BY <1>6, <1>14, <1>16, <1>19, <1>21, <1>22, <1>23 DEF Good

\* A part of fixed form is good when its bytes are counted and it is read back.
LEMMA FixedGood ==
    ASSUME NEW s, NEW v, NEW c \in Seq(CellSet), Count(s, v) = 0, PackOf(s, v, 0) = c,
           Bytes(c) = SizeOf(s, v),
           \A cells : \A p \in Nat :
             Found(cells, p, c) =>
               LET u == UnpackOf(s, cells, p)
               IN  u.next = p + Len(c) /\ Delivered(s, v, 0, u.val)
    PROVE  Good(s, v)
<1>1. Bytes(c) \in Nat
  BY BytesNat
<1> QED
  BY <1>1 DEF Good

\* The header of a CUDA 3 binary.
LEMMA HeaderGood ==
    ASSUME NEW h \in Headers
    PROVE  Good("header", h)
<1> DEFINE c == PackHeader(h)
<1>1. /\ h.magic \in Int /\ h.version \in Int /\ h.gpuInfoVersion \in Int /\ h.flags \in Int
      /\ h.characteristic \in Int /\ h.debugInfo \in Int
      /\ h.key \in Strings /\ h.ident \in Strings /\ h.usageMode \in Strings
  BY DEF Headers
<1>2. /\ l_packStr(h.key) \in CellSet /\ l_packStr(h.key).w = l_getStringPktSize(h.key)
      /\ l_packStr(h.ident) \in CellSet /\ l_packStr(h.ident).w = l_getStringPktSize(h.ident)
      /\ l_packStr(h.usageMode) \in CellSet
      /\ l_packStr(h.usageMode).w = l_getStringPktSize(h.usageMode)
      /\ l_getStringPktSize(h.key) \in Nat /\ l_getStringPktSize(h.ident) \in Nat
      /\ l_getStringPktSize(h.usageMode) \in Nat
  BY <1>1, StringCells
<1>3. /\ Long(h.magic) \in CellSet /\ Long(h.version) \in CellSet
      /\ Long(h.gpuInfoVersion) \in CellSet /\ Num(h.flags) \in CellSet
      /\ Num(h.characteristic) \in CellSet /\ Long(h.debugInfo) \in CellSet
  BY <1>1, NumberCells
<1>4. c \in Seq(CellSet) /\ Len(c) = 9
  BY <1>2, <1>3 DEF PackHeader
<1>5. /\ c[1] = Long(h.magic) /\ c[2] = Long(h.version) /\ c[3] = Long(h.gpuInfoVersion)
      /\ c[4] = Num(h.flags) /\ c[5] = Num(h.characteristic) /\ c[6] = l_packStr(h.key)
      /\ c[7] = l_packStr(h.ident) /\ c[8] = l_packStr(h.usageMode) /\ c[9] = Long(h.debugInfo)
  BY DEF PackHeader
<1>6. SizeOf("header", h) = 3 * 8 + 2 * 4 + l_getStringPktSize(h.key)
                            + l_getStringPktSize(h.ident) + l_getStringPktSize(h.usageMode) + 8
  BY DEF SizeOf, HeaderSize
<1>7. Count("header", h) = 0 /\ PackOf("header", h, 0) = c
  BY DEF Count, PackOf
<1> HIDE DEF c
<1>8. Bytes(c) = SizeOf("header", h)
  <2>1. PICK T \in [0 .. 9 -> Nat] :
          /\ T[0] = 0 /\ T[9] = Bytes(c)
          /\ \A k \in 1 .. 9 : T[k] = T[k - 1] + c[k].w
    BY <1>4, BytesUnrolled
  <2>2. /\ T[1] = T[0] + c[1].w /\ T[2] = T[1] + c[2].w /\ T[3] = T[2] + c[3].w
        /\ T[4] = T[3] + c[4].w /\ T[5] = T[4] + c[5].w /\ T[6] = T[5] + c[6].w
        /\ T[7] = T[6] + c[7].w /\ T[8] = T[7] + c[8].w /\ T[9] = T[8] + c[9].w
    BY <2>1
  <2>3. /\ c[1].w = 8 /\ c[2].w = 8 /\ c[3].w = 8 /\ c[4].w = 4 /\ c[5].w = 4 /\ c[9].w = 8
        /\ c[6].w = l_getStringPktSize(h.key) /\ c[7].w = l_getStringPktSize(h.ident)
        /\ c[8].w = l_getStringPktSize(h.usageMode)
    BY <1>1, <1>2, <1>5, NumberCells
  <2> QED
    BY <1>2, <1>6, <2>1, <2>2, <2>3
<1>9. ASSUME NEW cells, NEW p \in Nat, Found(cells, p, c)
      PROVE  LET u == UnpackOf("header", cells, p)
             IN  u.next = p + Len(c) /\ Delivered("header", h, 0, u.val)
  <2> DEFINE u == UnpackOf("header", cells, p)
  <2>1. /\ cells[p] = c[1] /\ cells[p + 1] = c[2] /\ cells[p + 2] = c[3] /\ cells[p + 3] = c[4]
        /\ cells[p + 4] = c[5] /\ cells[p + 5] = c[6] /\ cells[p + 6] = c[7]
        /\ cells[p + 7] = c[8] /\ cells[p + 8] = c[9]
    <3>1. \A k \in 1 .. 9 : cells[p + k - 1] = c[k]
      BY <1>4, <1>9 DEF Found
    <3>2. /\ p + 1 - 1 = p /\ p + 2 - 1 = p + 1 /\ p + 3 - 1 = p + 2 /\ p + 4 - 1 = p + 3
          /\ p + 5 - 1 = p + 4 /\ p + 6 - 1 = p + 5 /\ p + 7 - 1 = p + 6 /\ p + 8 - 1 = p + 7
          /\ p + 9 - 1 = p + 8
      OBVIOUS
    <3> QED
      BY <3>1, <3>2
  <2>2. u.next = p + 9 /\ u.val = UnpackHeader(cells, p).val
    BY DEF UnpackOf, UnpackHeader
  <2>3. u.val = [magic |-> h.magic, version |-> h.version, gpuInfoVersion |-> h.gpuInfoVersion,
                 flags |-> h.flags, characteristic |-> h.characteristic, key |-> Arrived(h.key),
                 ident |-> Arrived(h.ident), usageMode |-> Arrived(h.usageMode),
                 debugInfo |-> h.debugInfo]
    <3>1. /\ l_unpackStr(c[6]) = Arrived(h.key) /\ l_unpackStr(c[7]) = Arrived(h.ident)
          /\ l_unpackStr(c[8]) = Arrived(h.usageMode)
      BY <1>1, <1>5, StringCells
    <3>2. /\ Value(c[1], "long") = h.magic /\ Value(c[2], "long") = h.version
          /\ Value(c[3], "long") = h.gpuInfoVersion /\ Value(c[4], "num") = h.flags
          /\ Value(c[5], "num") = h.characteristic /\ Value(c[9], "long") = h.debugInfo
      BY <1>1, <1>5, NumberCells
    <3> QED
      BY <2>1, <2>2, <3>1, <3>2 DEF UnpackHeader
  <2> HIDE DEF u
  <2>4. Delivered("header", h, 0, u.val)
    BY <2>3 DEF Delivered, ListSections, StringFields
  <2> QED
    BY <1>4, <2>2, <2>4 DEF u
<1> QED
  BY <1>4, <1>7, <1>8, <1>9, FixedGood

\* A CUDA 4 binary.
LEMMA Binary4Good ==
    ASSUME NEW b \in Binaries4
    PROVE  Good("header4", b)
<1> DEFINE c == l_packFatBinary_4(b)
<1>1. /\ b.magic \in Int /\ b.version \in Int /\ b.hmagic \in Int /\ b.hversion \in Int
      /\ b.length \in Nat /\ b.f \in Strings
  BY DEF Binaries4
<1>2. /\ l_packStr(b.f) \in CellSet /\ l_packStr(b.f).w = l_getStringPktSize(b.f)
      /\ l_getStringPktSize(b.f) \in Nat
  BY <1>1, StringCells
<1>3. /\ Num(b.magic) \in CellSet /\ Num(b.version) \in CellSet /\ Num(b.hmagic) \in CellSet
      /\ Num(b.hversion) \in CellSet /\ Long(b.length) \in CellSet /\ Chars(b.length) \in CellSet
  BY <1>1, NumberCells
<1>4. c \in Seq(CellSet) /\ Len(c) = 7
  BY <1>2, <1>3 DEF l_packFatBinary_4
<1>5. /\ c[1] = Num(b.magic) /\ c[2] = Num(b.version) /\ c[3] = Num(b.hmagic)
      /\ c[4] = Num(b.hversion) /\ c[5] = Long(b.length) /\ c[6] = Chars(b.length)
      /\ c[7] = l_packStr(b.f)
  BY DEF l_packFatBinary_4
<1>6. SizeOf("header4", b) = 4 + 4 + 4 + 4 + 8 + b.length + l_getStringPktSize(b.f)
  BY DEF SizeOf, l_getFatRecPktSize_4
<1>7. Count("header4", b) = 0 /\ PackOf("header4", b, 0) = c
  BY DEF Count, PackOf
<1> HIDE DEF c
<1>8. Bytes(c) = SizeOf("header4", b)
  <2>1. PICK T \in [0 .. 7 -> Nat] :
          /\ T[0] = 0 /\ T[7] = Bytes(c)
          /\ \A k \in 1 .. 7 : T[k] = T[k - 1] + c[k].w
    BY <1>4, BytesUnrolled
  <2>2. /\ T[1] = T[0] + c[1].w /\ T[2] = T[1] + c[2].w /\ T[3] = T[2] + c[3].w
        /\ T[4] = T[3] + c[4].w /\ T[5] = T[4] + c[5].w /\ T[6] = T[5] + c[6].w
        /\ T[7] = T[6] + c[7].w
    BY <2>1
  <2>3. /\ c[1].w = 4 /\ c[2].w = 4 /\ c[3].w = 4 /\ c[4].w = 4 /\ c[5].w = 8
        /\ c[6].w = b.length /\ c[7].w = l_getStringPktSize(b.f)
    BY <1>1, <1>2, <1>5, NumberCells
  <2> QED
    BY <1>1, <1>2, <1>6, <2>1, <2>2, <2>3
<1>9. ASSUME NEW cells, NEW p \in Nat, Found(cells, p, c)
      PROVE  LET u == UnpackOf("header4", cells, p)
             IN  u.next = p + Len(c) /\ Delivered("header4", b, 0, u.val)
  <2> DEFINE u == UnpackOf("header4", cells, p)
  <2>1. /\ cells[p] = c[1] /\ cells[p + 1] = c[2] /\ cells[p + 2] = c[3] /\ cells[p + 3] = c[4]
        /\ cells[p + 4] = c[5] /\ cells[p + 6] = c[7]
    <3>1. \A k \in 1 .. 7 : cells[p + k - 1] = c[k]
      BY <1>4, <1>9 DEF Found
    <3>2. /\ p + 1 - 1 = p /\ p + 2 - 1 = p + 1 /\ p + 3 - 1 = p + 2 /\ p + 4 - 1 = p + 3
          /\ p + 5 - 1 = p + 4 /\ p + 7 - 1 = p + 6
      OBVIOUS
    <3> QED
      BY <3>1, <3>2
  <2>2. u.next = p + 7 /\ u.val = unpackFatBinary_4(cells, p).val
    BY DEF UnpackOf, unpackFatBinary_4
  <2>3. u.val = [magic |-> b.magic, version |-> b.version, hmagic |-> b.hmagic,
                 hversion |-> b.hversion, length |-> b.length, f |-> Arrived(b.f)]
    <3>1. l_unpackStr(c[7]) = Arrived(b.f)
      BY <1>1, <1>5, StringCells
    <3>2. /\ Value(c[1], "num") = b.magic /\ Value(c[2], "num") = b.version
          /\ Value(c[3], "num") = b.hmagic /\ Value(c[4], "num") = b.hversion
          /\ Value(c[5], "long") = b.length
      BY <1>1, <1>5, NumberCells
    <3> QED
      BY <2>1, <2>2, <3>1, <3>2 DEF unpackFatBinary_4
  <2> HIDE DEF u
  <2>4. Delivered("header4", b, 0, u.val)
    BY <2>3 DEF Delivered, ListSections, StringFields
  <2> QED
    BY <1>4, <2>2, <2>4 DEF u
<1> QED
  BY <1>4, <1>7, <1>8, <1>9, FixedGood

\* The arguments of __cudaRegisterVar.
LEMMA VarGood ==
    ASSUME NEW a \in VarArgs
    PROVE  Good("var", a)
<1> DEFINE c == packRegVar(a)
<1>1. /\ a.fatCubinHandle \in Int /\ a.hostVar \in Int /\ a.ext \in Int /\ a.size \in Int
      /\ a.constant \in Int /\ a.global \in Int
      /\ a.deviceAddress \in Strings /\ a.deviceName \in Strings
  BY DEF VarArgs
<1>2. /\ l_packStr(a.deviceAddress) \in CellSet
      /\ l_packStr(a.deviceAddress).w = l_getStringPktSize(a.deviceAddress)
      /\ l_packStr(a.deviceName) \in CellSet
      /\ l_packStr(a.deviceName).w = l_getStringPktSize(a.deviceName)
      /\ l_getStringPktSize(a.deviceAddress) \in Nat /\ l_getStringPktSize(a.deviceName) \in Nat
  BY <1>1, StringCells
<1>3. /\ Long(a.fatCubinHandle) \in CellSet /\ Long(a.hostVar) \in CellSet
      /\ Num(a.ext) \in CellSet /\ Num(a.size) \in CellSet /\ Num(a.constant) \in CellSet
      /\ Num(a.global) \in CellSet
  BY <1>1, NumberCells
<1>4. c \in Seq(CellSet) /\ Len(c) = 8
  BY <1>2, <1>3 DEF packRegVar
<1>5. /\ c[1] = Long(a.fatCubinHandle) /\ c[2] = Long(a.hostVar)
      /\ c[3] = l_packStr(a.deviceAddress) /\ c[4] = l_packStr(a.deviceName)
      /\ c[5] = Num(a.ext) /\ c[6] = Num(a.size) /\ c[7] = Num(a.constant)
      /\ c[8] = Num(a.global)
  BY DEF packRegVar
<1>6. SizeOf("var", a) = 8 + 8 + l_getStringPktSize(a.deviceAddress)
                         + l_getStringPktSize(a.deviceName) + 4 * 4
  BY DEF SizeOf, l_getSize_regVar
<1>7. Count("var", a) = 0 /\ PackOf("var", a, 0) = c
  BY DEF Count, PackOf
<1> HIDE DEF c
<1>8. Bytes(c) = SizeOf("var", a)
  <2>1. PICK T \in [0 .. 8 -> Nat] :
          /\ T[0] = 0 /\ T[8] = Bytes(c)
          /\ \A k \in 1 .. 8 : T[k] = T[k - 1] + c[k].w
    BY <1>4, BytesUnrolled
  <2>2. /\ T[1] = T[0] + c[1].w /\ T[2] = T[1] + c[2].w /\ T[3] = T[2] + c[3].w
        /\ T[4] = T[3] + c[4].w /\ T[5] = T[4] + c[5].w /\ T[6] = T[5] + c[6].w
        /\ T[7] = T[6] + c[7].w /\ T[8] = T[7] + c[8].w
    BY <2>1
  <2>3. /\ c[1].w = 8 /\ c[2].w = 8 /\ c[5].w = 4 /\ c[6].w = 4 /\ c[7].w = 4 /\ c[8].w = 4
        /\ c[3].w = l_getStringPktSize(a.deviceAddress)
        /\ c[4].w = l_getStringPktSize(a.deviceName)
    BY <1>1, <1>2, <1>5, NumberCells
  <2> QED
    BY <1>2, <1>6, <2>1, <2>2, <2>3
<1>9. ASSUME NEW cells, NEW p \in Nat, Found(cells, p, c)
      PROVE  LET u == UnpackOf("var", cells, p)
             IN  u.next = p + Len(c) /\ Delivered("var", a, 0, u.val)
  <2> DEFINE u == UnpackOf("var", cells, p)
  <2>1. /\ cells[p] = c[1] /\ cells[p + 1] = c[2] /\ cells[p + 2] = c[3] /\ cells[p + 3] = c[4]
        /\ cells[p + 4] = c[5] /\ cells[p + 5] = c[6] /\ cells[p + 6] = c[7]
        /\ cells[p + 7] = c[8]
    <3>1. \A k \in 1 .. 8 : cells[p + k - 1] = c[k]
      BY <1>4, <1>9 DEF Found
    <3>2. /\ p + 1 - 1 = p /\ p + 2 - 1 = p + 1 /\ p + 3 - 1 = p + 2 /\ p + 4 - 1 = p + 3
          /\ p + 5 - 1 = p + 4 /\ p + 6 - 1 = p + 5 /\ p + 7 - 1 = p + 6 /\ p + 8 - 1 = p + 7
      OBVIOUS
    <3> QED
      BY <3>1, <3>2
  <2>2. u.next = p + 8 /\ u.val = unpackRegVar(cells, p).val
    BY DEF UnpackOf, unpackRegVar
  <2>3. u.val = [fatCubinHandle |-> a.fatCubinHandle, hostVar |-> a.hostVar,
                 deviceAddress |-> Arrived(a.deviceAddress),
                 deviceName |-> Arrived(a.deviceName), ext |-> a.ext, size |-> a.size,
                 constant |-> a.constant, global |-> a.global]
    <3>1. /\ l_unpackStr(c[3]) = Arrived(a.deviceAddress)
          /\ l_unpackStr(c[4]) = Arrived(a.deviceName)
      BY <1>1, <1>5, StringCells
    <3>2. /\ Value(c[1], "long") = a.fatCubinHandle /\ Value(c[2], "long") = a.hostVar
          /\ Value(c[5], "num") = a.ext /\ Value(c[6], "num") = a.size
          /\ Value(c[7], "num") = a.constant /\ Value(c[8], "num") = a.global
      BY <1>1, <1>5, NumberCells
    <3> QED
      BY <2>1, <2>2, <3>1, <3>2 DEF unpackRegVar
  <2> HIDE DEF u
  <2>4. Delivered("var", a, 0, u.val)
    BY <2>3 DEF Delivered, ListSections, StringFields
  <2> QED
    BY <1>4, <2>2, <2>4 DEF u
<1> QED
  BY <1>4, <1>7, <1>8, <1>9, FixedGood

\* A pointer to w bytes is written behind a: it takes the bytes that were
\* computed, and arrives.
PointerAdded(c, a, there, w) ==
    /\ c \in Seq(CellSet) /\ Len(c) = Len(a) + 2
    /\ \A i \in 1 .. Len(a) : c[i] = a[i]
    /\ UnpackPtr(c[Len(a) + 1]) = there
    /\ Bytes(c) = Bytes(a) + PtrSize(there, w)
    /\ Bytes(a) \in Nat /\ PtrSize(there, w) \in Nat

\* So are the five pointers of __cudaRegisterFunction.
LEMMA PointerCells ==
    ASSUME NEW there \in BOOLEAN, NEW w \in Nat, NEW a \in Seq(CellSet)
    PROVE  PointerAdded(a \o PackPtr(there, w), a, there, w)
<1> DEFINE x == Long(IF there THEN 1 ELSE 0)
           y == [k |-> "val", v |-> w, w |-> IF there THEN w ELSE 0]
           b == <<x, y>>
<1>1. PackPtr(there, w) = b
  BY DEF PackPtr
<1>2. x \in CellSet /\ x.w = 8
  BY NumberCells
<1>3. y \in CellSet /\ y.w = IF there THEN w ELSE 0
  BY DEF CellSet
<1>4. UnpackPtr(x) = there
  BY NumberCells DEF UnpackPtr
<1> HIDE DEF x, y
<1>5. b \in Seq(CellSet) /\ Len(b) = 2 /\ b[1] = x
  BY <1>2, <1>3
<1>6. Bytes(b) = x.w + y.w
  BY <1>2, <1>3, BytesFew
<1>7. Bytes(b) = PtrSize(there, w) /\ PtrSize(there, w) \in Nat
  BY <1>2, <1>3, <1>6 DEF PtrSize
<1> HIDE DEF b
<1>8. Bytes(a \o b) = Bytes(a) + Bytes(b) /\ Bytes(a) \in Nat
  BY <1>5, BytesConcat, BytesNat
<1>9. /\ a \o b \in Seq(CellSet)
      /\ Len(a \o b) = Len(a) + 2
      /\ \A i \in 1 .. Len(a) : (a \o b)[i] = a[i]
      /\ \A i \in 1 .. 2 : (a \o b)[Len(a) + i] = b[i]
  <2>1. /\ a \o b \in Seq(CellSet)
        /\ Len(a \o b) = Len(a) + Len(b)
        /\ \A i \in 1 .. Len(a) : (a \o b)[i] = a[i]
        /\ \A i \in 1 .. Len(b) : (a \o b)[Len(a) + i] = b[i]
    BY <1>5, ConcatFacts
  <2>2. Len(b) = 2
    BY <1>5
  <2> HIDE DEF b
  <2> QED
    BY <2>1, <2>2
<1>10. (a \o b)[Len(a) + 1] = x
  BY <1>5, <1>9
<1> QED
  BY <1>1, <1>4, <1>7, <1>8, <1>9, <1>10 DEF PointerAdded

\* The arguments of __cudaRegisterFunction.
LEMMA FuncGood ==
    ASSUME NEW a \in FuncArgs
    PROVE  Good("func", a)
<1> DEFINE c0 == <<Long(a.fatCubinHandle), l_packStr(a.hostFun), Long(a.hostFEaddr),
                   l_packStr(a.deviceFun), l_packStr(a.deviceName), Num(a.thread_limit)>>
           c1 == c0 \o PackPtr(a.tid, 12)
           c2 == c1 \o PackPtr(a.bid, 12)
           c3 == c2 \o PackPtr(a.bDim, 12)
           c4 == c3 \o PackPtr(a.gDim, 12)
           c == c4 \o PackPtr(a.wSize, 4)
<1>1. /\ a.fatCubinHandle \in Int /\ a.hostFEaddr \in Int /\ a.thread_limit \in Int
      /\ a.hostFun \in Strings /\ a.deviceFun \in Strings /\ a.deviceName \in Strings
      /\ a.tid \in BOOLEAN /\ a.bid \in BOOLEAN /\ a.bDim \in BOOLEAN /\ a.gDim \in BOOLEAN
      /\ a.wSize \in BOOLEAN
  BY DEF FuncArgs
<1>2. /\ l_packStr(a.hostFun) \in CellSet
      /\ l_packStr(a.hostFun).w = l_getStringPktSize(a.hostFun)
      /\ l_packStr(a.deviceFun) \in CellSet
      /\ l_packStr(a.deviceFun).w = l_getStringPktSize(a.deviceFun)
      /\ l_packStr(a.deviceName) \in CellSet
      /\ l_packStr(a.deviceName).w = l_getStringPktSize(a.deviceName)
      /\ l_getStringPktSize(a.hostFun) \in Nat /\ l_getStringPktSize(a.deviceFun) \in Nat
      /\ l_getStringPktSize(a.deviceName) \in Nat
  BY <1>1, StringCells
<1>3. /\ Long(a.fatCubinHandle) \in CellSet /\ Long(a.hostFEaddr) \in CellSet
      /\ Num(a.thread_limit) \in CellSet
  BY <1>1, NumberCells
<1>4. c0 \in Seq(CellSet) /\ Len(c0) = 6
  BY <1>2, <1>3
<1>5. /\ c0[1] = Long(a.fatCubinHandle) /\ c0[2] = l_packStr(a.hostFun)
      /\ c0[3] = Long(a.hostFEaddr) /\ c0[4] = l_packStr(a.deviceFun)
      /\ c0[5] = l_packStr(a.deviceName) /\ c0[6] = Num(a.thread_limit)
  OBVIOUS
<1>6. Count("func", a) = 0 /\ PackOf("func", a, 0) = c
  BY DEF Count, PackOf, packRegFuncArgs, l_packUint3Ptr, l_packDim3Ptr, l_packIntPtr
<1>7. SizeOf("func", a) =
        8 + l_getStringPktSize(a.hostFun) + 8 + l_getStringPktSize(a.deviceFun)
        + l_getStringPktSize(a.deviceName) + 4 + PtrSize(a.tid, 12) + PtrSize(a.bid, 12)
        + PtrSize(a.bDim, 12) + PtrSize(a.gDim, 12) + PtrSize(a.wSize, 4)
  BY DEF SizeOf, l_getSize_regFuncArgs, l_getUint3PtrPktSize, l_getDim3PtrPktSize,
         l_getIntPtrPktSize
<1> HIDE DEF c0, c1, c2, c3, c4, c
<1>8. /\ c1 \in Seq(CellSet) /\ Len(c1) = 8 /\ \A i \in 1 .. 6 : c1[i] = c0[i]
      /\ UnpackPtr(c1[7]) = a.tid /\ Bytes(c1) = Bytes(c0) + PtrSize(a.tid, 12)
  <2>1. 12 \in Nat
    OBVIOUS
  <2>2. PointerAdded(c1, c0, a.tid, 12)
    BY <1>1, <1>4, <2>1, PointerCells DEF c1
  <2> QED
    BY <1>4, <2>2 DEF PointerAdded
<1>9. /\ c2 \in Seq(CellSet) /\ Len(c2) = 10 /\ \A i \in 1 .. 8 : c2[i] = c1[i]
      /\ UnpackPtr(c2[9]) = a.bid /\ Bytes(c2) = Bytes(c1) + PtrSize(a.bid, 12)
  <2>1. 12 \in Nat
    OBVIOUS
  <2>2. PointerAdded(c2, c1, a.bid, 12)
    BY <1>1, <1>8, <2>1, PointerCells DEF c2
  <2> QED
    BY <1>8, <2>2 DEF PointerAdded
<1>10. /\ c3 \in Seq(CellSet) /\ Len(c3) = 12 /\ \A i \in 1 .. 10 : c3[i] = c2[i]
       /\ UnpackPtr(c3[11]) = a.bDim /\ Bytes(c3) = Bytes(c2) + PtrSize(a.bDim, 12)
  <2>1. 12 \in Nat
    OBVIOUS
  <2>2. PointerAdded(c3, c2, a.bDim, 12)
    BY <1>1, <1>9, <2>1, PointerCells DEF c3
  <2> QED
    BY <1>9, <2>2 DEF PointerAdded
<1>11. /\ c4 \in Seq(CellSet) /\ Len(c4) = 14 /\ \A i \in 1 .. 12 : c4[i] = c3[i]
       /\ UnpackPtr(c4[13]) = a.gDim /\ Bytes(c4) = Bytes(c3) + PtrSize(a.gDim, 12)
  <2>1. 12 \in Nat
    OBVIOUS
  <2>2. PointerAdded(c4, c3, a.gDim, 12)
    BY <1>1, <1>10, <2>1, PointerCells DEF c4
  <2> QED
    BY <1>10, <2>2 DEF PointerAdded
<1>12. /\ c \in Seq(CellSet) /\ Len(c) = 16 /\ \A i \in 1 .. 14 : c[i] = c4[i]
       /\ UnpackPtr(c[15]) = a.wSize /\ Bytes(c) = Bytes(c4) + PtrSize(a.wSize, 4)
  <2>1. 4 \in Nat
    OBVIOUS
  <2>2. PointerAdded(c, c4, a.wSize, 4)
    BY <1>1, <1>11, <2>1, PointerCells DEF c
  <2> QED
    BY <1>11, <2>2 DEF PointerAdded
<1>13. /\ c[1] = c0[1] /\ c[2] = c0[2] /\ c[3] = c0[3] /\ c[4] = c0[4] /\ c[5] = c0[5]
       /\ c[6] = c0[6] /\ c[7] = c1[7] /\ c[9] = c2[9] /\ c[11] = c3[11] /\ c[13] = c4[13]
  BY <1>8, <1>9, <1>10, <1>11, <1>12
<1>14. Bytes(c0) = 8 + l_getStringPktSize(a.hostFun) + 8 + l_getStringPktSize(a.deviceFun)
                   + l_getStringPktSize(a.deviceName) + 4
  <2>1. PICK T \in [0 .. 6 -> Nat] :
          /\ T[0] = 0 /\ T[6] = Bytes(c0)
          /\ \A k \in 1 .. 6 : T[k] = T[k - 1] + c0[k].w
    BY <1>4, BytesUnrolled
  <2>2. /\ T[1] = T[0] + c0[1].w /\ T[2] = T[1] + c0[2].w /\ T[3] = T[2] + c0[3].w
        /\ T[4] = T[3] + c0[4].w /\ T[5] = T[4] + c0[5].w /\ T[6] = T[5] + c0[6].w
    BY <2>1
  <2>3. /\ c0[1].w = 8 /\ c0[3].w = 8 /\ c0[6].w = 4
        /\ c0[2].w = l_getStringPktSize(a.hostFun)
        /\ c0[4].w = l_getStringPktSize(a.deviceFun)
        /\ c0[5].w = l_getStringPktSize(a.deviceName)
    BY <1>1, <1>2, <1>5, NumberCells
  <2> QED
    BY <1>2, <2>1, <2>2, <2>3
<1>15. Bytes(c) = SizeOf("func", a)
  BY <1>7, <1>8, <1>9, <1>10, <1>11, <1>12, <1>14
<1>16. ASSUME NEW cells, NEW p \in Nat, Found(cells, p, c)
       PROVE  LET u == UnpackOf("func", cells, p)
              IN  u.next = p + Len(c) /\ Delivered("func", a, 0, u.val)
  <2> DEFINE u == UnpackOf("func", cells, p)
  <2>1. /\ cells[p] = c[1] /\ cells[p + 1] = c[2] /\ cells[p + 2] = c[3] /\ cells[p + 3] = c[4]
        /\ cells[p + 4] = c[5] /\ cells[p + 5] = c[6] /\ cells[p + 6] = c[7]
        /\ cells[p + 8] = c[9] /\ cells[p + 10] = c[11] /\ cells[p + 12] = c[13]
        /\ cells[p + 14] = c[15]
    <3>1. \A k \in 1 .. 16 : cells[p + k - 1] = c[k]
      BY <1>12, <1>16 DEF Found
    <3>2. /\ p + 1 - 1 = p /\ p + 2 - 1 = p + 1 /\ p + 3 - 1 = p + 2 /\ p + 4 - 1 = p + 3
          /\ p + 5 - 1 = p + 4 /\ p + 6 - 1 = p + 5 /\ p + 7 - 1 = p + 6 /\ p + 9 - 1 = p + 8
          /\ p + 11 - 1 = p + 10 /\ p + 13 - 1 = p + 12 /\ p + 15 - 1 = p + 14
      OBVIOUS
    <3> QED
      BY <3>1, <3>2
  <2>2. u.next = p + 16 /\ u.val = unpackRegFuncArgs(cells, p).val
    BY DEF UnpackOf, unpackRegFuncArgs
  <2>3. u.val = [fatCubinHandle |-> a.fatCubinHandle, hostFun |-> Arrived(a.hostFun),
                 hostFEaddr |-> a.hostFEaddr, deviceFun |-> Arrived(a.deviceFun),
                 deviceName |-> Arrived(a.deviceName), thread_limit |-> a.thread_limit,
                 tid |-> a.tid, bid |-> a.bid, bDim |-> a.bDim, gDim |-> a.gDim,
                 wSize |-> a.wSize]
    <3>1. /\ l_unpackStr(c[2]) = Arrived(a.hostFun) /\ l_unpackStr(c[4]) = Arrived(a.deviceFun)
          /\ l_unpackStr(c[5]) = Arrived(a.deviceName)
      BY <1>1, <1>5, <1>13, StringCells
    <3>2. /\ Value(c[1], "long") = a.fatCubinHandle /\ Value(c[3], "long") = a.hostFEaddr
          /\ Value(c[6], "num") = a.thread_limit
      BY <1>1, <1>5, <1>13, NumberCells
    <3>3. /\ UnpackPtr(c[7]) = a.tid /\ UnpackPtr(c[9]) = a.bid /\ UnpackPtr(c[11]) = a.bDim
          /\ UnpackPtr(c[13]) = a.gDim /\ UnpackPtr(c[15]) = a.wSize
      BY <1>8, <1>9, <1>10, <1>11, <1>12, <1>13
    <3> QED
      BY <2>1, <2>2, <3>1, <3>2, <3>3
      DEF unpackRegFuncArgs, l_unpackUint3Ptr, l_unpackDim3Ptr, l_unpackIntPtr
  <2> HIDE DEF u
  <2>4. Delivered("func", a, 0, u.val)
    BY <2>3 DEF Delivered, ListSections, StringFields
  <2> QED
    BY <1>12, <2>2, <2>4 DEF u
<1> QED
  BY <1>6, <1>12, <1>15, <1>16, FixedGood

\* The number of dependends; only none passes the assertion.
LEMMA DependendsGood ==
    ASSUME NEW n \in Nat
    PROVE  Good("dependends", n) /\ (PackAsserts("dependends", n, n) <=> n # 0)
<1> DEFINE c == <<Num(n)>>
           k == HeaderSize(NoHeader) + l_getSizePtx(Absent) + l_getSizeCubin(Absent)
                + l_getSizeDebug(Absent) + l_getSizeElf(Absent) + 2 * l_getSizeSymbol(Absent)
<1>1. Num(n) \in CellSet /\ Num(n).w = 4 /\ Value(Num(n), "num") = n
  BY NumberCells
<1>2. c \in Seq(CellSet) /\ Bytes(c) = 4 /\ Len(c) = 1 /\ c[1] = Num(n)
  <2>1. Bytes(<<Num(n)>>) = Num(n).w
    BY <1>1, BytesFew
  <2> QED
    BY <1>1, <2>1
<1>3. k \in Nat
  <2>1. Absent \in Lists(Pairs) /\ Absent \in Lists(DebugEntries) /\ Absent \in Lists(ElfEntries)
        /\ Absent \in Lists(SymbolEntries)
    BY DEF Absent, Lists
  <2>2. SizeOf("ptx", Absent) \in Nat /\ SizeOf("cubin", Absent) \in Nat
    BY <2>1, PairsGood DEF Good
  <2>3. SizeOf("debug", Absent) \in Nat
    BY <2>1, DebugGood DEF Good
  <2>4. SizeOf("elf", Absent) \in Nat
    BY <2>1, ElfGood DEF Good
  <2>5. SizeOf("exported", Absent) \in Nat
    <3>1. "exported" \in Symbols
      BY DEF Symbols
    <3> QED
      BY <2>1, <3>1, SymbolsGood DEF Good
  <2>6. HeaderSize(NoHeader) \in Nat
    BY DEF HeaderSize, NoHeader, l_getStringPktSize, Null
  <2>7. /\ l_getSizePtx(Absent) \in Nat /\ l_getSizeCubin(Absent) \in Nat
        /\ l_getSizeDebug(Absent) \in Nat /\ l_getSizeElf(Absent) \in Nat
        /\ l_getSizeSymbol(Absent) \in Nat
    BY <2>2, <2>3, <2>4, <2>5 DEF SizeOf
  <2> QED
    BY <2>6, <2>7
<1>4. SizeOf("dependends", n) = 4 + n * k
  BY DEF SizeOf, l_getSizeDep
<1> HIDE DEF k
<1>5. n * k \in Nat
  BY <1>3
<1>6. Count("dependends", n) = n /\ PackOf("dependends", n, n) = c
  BY DEF Count, PackOf, l_packDep
<1>7. PackAsserts("dependends", n, n) <=> n # 0
  BY DEF PackAsserts
<1> HIDE DEF c
<1>8. Bytes(c) =< SizeOf("dependends", n) /\ SizeOf("dependends", n) \in Nat
  BY <1>2, <1>4, <1>5
<1>9. ASSUME NEW cells, NEW p \in Nat, Found(cells, p, c)
      PROVE  LET u == UnpackOf("dependends", cells, p)
             IN  u.next = p /\ Delivered("dependends", n, n, u.val)
  <2>1. cells[p] = Num(n)
    <3>1. 1 \in 1 .. Len(c) /\ p + 1 - 1 = p
      BY <1>2
    <3> QED
      BY <1>2, <1>9, <3>1 DEF Found
  <2>2. UnpackOf("dependends", cells, p) = [val |-> n, next |-> p]
    BY <1>1, <2>1 DEF UnpackOf, l_unpackDep
  <2> QED
    BY <1>2, <2>2 DEF Delivered, ListSections
<1> QED
  BY <1>2, <1>6, <1>7, <1>8, <1>9 DEF Good

-----------------------------------------------------------------------------
(* All sections of a structure.                                            *)

\* Section i of a structure: its name, its value, its number of entries, what
\* is sent of it, and the size computed for it.
Name(o, i) == Sections(o.kind)[i]
Part(o, i) == o[Name(o, i)]
EntriesOf(o, i) == Count(Name(o, i), Part(o, i))
Sent(o, i) == PackOf(Name(o, i), Part(o, i), EntriesOf(o, i))
Need(o, i) == SizeOf(Name(o, i), Part(o, i))
Asserts(o, i) == PackAsserts(Name(o, i), Part(o, i), EntriesOf(o, i))
Parts(o) == Len(Sections(o.kind))

\* The structures have their sections, of which none comes twice.
LEMMA SectionNames ==
    ASSUME NEW o \in Structures
    PROVE  /\ o.kind \in {"fat3", "fat4", "func", "var"}
           /\ Parts(o) \in 1 .. 8
           /\ o.kind = "fat3" => Parts(o) = 8
           /\ \A i, j \in 1 .. Parts(o) : Name(o, i) = Name(o, j) => i = j
           /\ \A i \in 1 .. Parts(o) : Name(o, i) = "dependends" => i = Parts(o)
<1>1. CASE o.kind = "fat3"
  <2>1. Parts(o) = 8
    BY <1>1 DEF Parts, Sections
  <2>2. /\ Name(o, 1) = "header" /\ Name(o, 2) = "ptx" /\ Name(o, 3) = "cubin"
        /\ Name(o, 4) = "debug" /\ Name(o, 5) = "elf" /\ Name(o, 6) = "exported"
        /\ Name(o, 7) = "imported" /\ Name(o, 8) = "dependends"
    BY <1>1 DEF Name, Sections
  <2>3. \A i \in 1 .. 8 : i \in {1, 2, 3, 4, 5, 6, 7, 8}
    OBVIOUS
  <2> QED
    BY <1>1, <2>1, <2>2, <2>3
<1>2. CASE o.kind \in {"fat4", "func", "var"}
  <2>1. Parts(o) = 1
    BY <1>2 DEF Parts, Sections
  <2> QED
    BY <1>2, <2>1
<1>3. o.kind \in {"fat3", "fat4", "func", "var"}
  BY DEF Structures
<1> QED
  BY <1>1, <1>2, <1>3

\* A structure with lists of elf entries that are mixed.
MixedElf(o) == o.kind = "fat3" /\ Mixed("elf", o.elf)

\* Every section is good, and only elf entries and dependends fail assertions.
LEMMA SectionsGood ==
    ASSUME NEW o \in Structures, NEW i \in 1 .. Parts(o)
    PROVE  /\ Good(Name(o, i), Part(o, i))
           /\ Mixed(Name(o, i), Part(o, i)) => MixedElf(o)
           /\ Asserts(o, i) => o.kind = "fat3" /\ (MixedElf(o) \/ o.dependends # 0)
           /\ Name(o, i) \in {"ptx", "cubin"} => Part(o, i) \in Lists(Pairs)
           /\ Name(o, i) = "debug" => Part(o, i) \in Lists(DebugEntries)
           /\ Name(o, i) = "elf" => Part(o, i) \in Lists(ElfEntries)
           /\ Name(o, i) \in Symbols => Part(o, i) \in Lists(SymbolEntries)
<1> DEFINE s == Name(o, i)
           v == Part(o, i)
<1>1. CASE o.kind = "fat3"
  <2>1. s \in {"header", "ptx", "cubin", "debug", "elf", "exported", "imported", "dependends"}
    <3>1. Parts(o) = 8
      BY <1>1 DEF Parts, Sections
    <3>2. i \in {1, 2, 3, 4, 5, 6, 7, 8}
      BY <3>1
    <3> QED
      BY <1>1, <3>2 DEF Name, Sections
  <2>2. /\ o.header \in Headers /\ o.ptx \in Lists(Pairs) /\ o.cubin \in Lists(Pairs)
        /\ o.debug \in Lists(DebugEntries) /\ o.elf \in Lists(ElfEntries)
        /\ o.exported \in Lists(SymbolEntries) /\ o.imported \in Lists(SymbolEntries)
        /\ o.dependends \in Nat
    BY <1>1 DEF Structures
  <2>3. CASE s = "header"
    <3>1. v = o.header
      BY <2>3 DEF Part
    <3> QED
      BY <2>2, <2>3, <3>1, HeaderGood DEF Mixed, Asserts, PackAsserts, Symbols
  <2>4. CASE s \in {"ptx", "cubin"}
    <3>1. v \in Lists(Pairs)
      BY <2>2, <2>4 DEF Part
    <3>2. Good(s, v)
      <4> HIDE DEF s, v
      <4> QED
        BY <2>4, <3>1, PairsGood
    <3> QED
      BY <2>4, <3>1, <3>2 DEF Mixed, Asserts, PackAsserts, Symbols
  <2>5. CASE s = "debug"
    <3>1. v = o.debug
      BY <2>5 DEF Part
    <3> QED
      BY <2>2, <2>5, <3>1, DebugGood DEF Mixed, Asserts, PackAsserts, Symbols
  <2>6. CASE s = "elf"
    <3>1. v = o.elf
      BY <2>6 DEF Part
    <3>2. Good("elf", o.elf)
          /\ (PackAsserts("elf", o.elf, Count("elf", o.elf)) => Mixed("elf", o.elf))
      BY <2>2, ElfGood
    <3> QED
      BY <1>1, <2>2, <2>6, <3>1, <3>2 DEF MixedElf, Asserts, EntriesOf, Symbols
  <2>7. CASE s \in Symbols
    <3>1. v \in Lists(SymbolEntries)
      BY <2>2, <2>7 DEF Part, Symbols
    <3>2. Good(s, v)
      <4> HIDE DEF s, v
      <4> QED
        BY <2>7, <3>1, SymbolsGood
    <3> QED
      BY <2>7, <3>1, <3>2 DEF Mixed, Asserts, PackAsserts, Symbols
  <2>8. CASE s = "dependends"
    <3>1. v = o.dependends
      BY <2>8 DEF Part
    <3>2. /\ Good("dependends", o.dependends)
          /\ PackAsserts("dependends", o.dependends, o.dependends) => o.dependends # 0
      BY <2>2, DependendsGood
    <3>3. Count("dependends", o.dependends) = o.dependends
      BY DEF Count
    <3> QED
      BY <1>1, <2>8, <3>1, <3>2, <3>3 DEF Mixed, Asserts, EntriesOf, Symbols
  <2> QED
    BY <2>1, <2>3, <2>4, <2>5, <2>6, <2>7, <2>8 DEF Symbols
<1>2. CASE o.kind = "fat4"
  <2>1. s = "header4"
    BY <1>2 DEF Name, Parts, Sections
  <2>2. v \in Binaries4
    BY <1>2, <2>1 DEF Part, Structures
  <2> QED
    BY <2>1, <2>2, Binary4Good DEF Mixed, Asserts, PackAsserts, Symbols
<1>3. CASE o.kind = "func"
  <2>1. s = "func"
    BY <1>3 DEF Name, Parts, Sections
  <2>2. v \in FuncArgs
    BY <1>3, <2>1 DEF Part, Structures
  <2> QED
    BY <2>1, <2>2, FuncGood DEF Mixed, Asserts, PackAsserts, Symbols
<1>4. CASE o.kind = "var"
  <2>1. s = "var"
    BY <1>4 DEF Name, Parts, Sections
  <2>2. v \in VarArgs
    BY <1>4, <2>1 DEF Part, Structures
  <2> QED
    BY <2>1, <2>2, VarGood DEF Mixed, Asserts, PackAsserts, Symbols
<1> QED
  BY <1>1, <1>2, <1>3, <1>4, SectionNames

\* Sums of the first terms grow with their number.
LEMMA TotalMonotone ==
    ASSUME NEW n \in Nat, NEW s \in [1 .. n -> Nat]
    PROVE  \A m, k \in 0 .. n : m =< k => Total(FirstOf(s, m)) =< Total(FirstOf(s, k))
<1> SUFFICES ASSUME NEW m \in 0 .. n
             PROVE  \A k \in 0 .. n : m =< k => Total(FirstOf(s, m)) =< Total(FirstOf(s, k))
  OBVIOUS
<1> DEFINE S == {k \in Nat : m =< k /\ k =< n => Total(FirstOf(s, m)) =< Total(FirstOf(s, k))}
<1>1. \A k \in 0 .. n : Total(FirstOf(s, k)) \in Nat
  BY TotalNat
<1>2. 0 \in S
  <2>1. m =< 0 => m = 0
    OBVIOUS
  <2> QED
    BY <1>1, <2>1
<1>3. ASSUME NEW k \in Nat, k \in S
      PROVE  k + 1 \in S
  <2> SUFFICES ASSUME m =< k + 1, k + 1 =< n
               PROVE  Total(FirstOf(s, m)) =< Total(FirstOf(s, k + 1))
    OBVIOUS
  <2>1. Total(FirstOf(s, k + 1)) = Total(FirstOf(s, k)) + s[k + 1]
    BY TotalFirst
  <2>2. s[k + 1] \in Nat /\ k \in 0 .. n /\ k + 1 \in 0 .. n
    OBVIOUS
  <2>3. Total(FirstOf(s, k)) \in Nat /\ Total(FirstOf(s, m)) \in Nat
    BY <1>1, <2>2
  <2>4. CASE m = k + 1
    BY <1>1, <2>2, <2>4
  <2>5. CASE m =< k
    <3>1. Total(FirstOf(s, m)) =< Total(FirstOf(s, k))
      BY <1>3, <2>5
    <3> QED
      BY <2>1, <2>2, <2>3, <3>1
  <2> QED
    BY <2>4, <2>5
<1>4. \A k \in Nat : k \in S
  <2> HIDE DEF S
  <2> QED
    BY <1>2, <1>3, SetInduction
<1> QED
  BY <1>4

\* The cells and the bytes of the first k sections, and the size computed.
Cut(o, k) == Total(FirstOf([i \in 1 .. Parts(o) |-> Len(Sent(o, i))], k))
Weight(o, k) == Total(FirstOf([i \in 1 .. Parts(o) |-> Bytes(Sent(o, i))], k))
Computed(o, k) == Total(FirstOf([i \in 1 .. Parts(o) |-> Need(o, i)], k))

\* They are numbers that grow, section by section.
LEMMA Sums ==
    ASSUME NEW o \in Structures
    PROVE  /\ Cut(o, 0) = 0 /\ Weight(o, 0) = 0 /\ Computed(o, 0) = 0
           /\ \A k \in 0 .. Parts(o) : /\ Cut(o, k) \in Nat /\ Weight(o, k) \in Nat
                                       /\ Computed(o, k) \in Nat
           /\ \A k \in 1 .. Parts(o) :
                /\ Sent(o, k) \in Seq(CellSet)
                /\ Need(o, k) \in Nat
                /\ Cut(o, k) = Cut(o, k - 1) + Len(Sent(o, k))
                /\ Weight(o, k) = Weight(o, k - 1) + Bytes(Sent(o, k))
                /\ Computed(o, k) = Computed(o, k - 1) + Need(o, k)
           /\ \A m, k \in 0 .. Parts(o) : m =< k => Cut(o, m) =< Cut(o, k)
           /\ ~ MixedElf(o) =>
                \A k \in 0 .. Parts(o) : Weight(o, k) =< Computed(o, Parts(o))
<1> DEFINE n == Parts(o)
           a == [i \in 1 .. n |-> Len(Sent(o, i))]
           b == [i \in 1 .. n |-> Bytes(Sent(o, i))]
           c == [i \in 1 .. n |-> Need(o, i)]
<1>1. n \in Nat
  BY SectionNames
<1>2. ASSUME NEW i \in 1 .. n
      PROVE  /\ Sent(o, i) \in Seq(CellSet)
             /\ Need(o, i) \in Nat
             /\ ~ MixedElf(o) => Bytes(Sent(o, i)) =< Need(o, i)
  BY SectionsGood DEF Good, Sent, Need, EntriesOf
<1>3. \A i \in 1 .. n : Len(Sent(o, i)) \in Nat /\ Bytes(Sent(o, i)) \in Nat
  BY <1>2, BytesNat
<1>4. a \in [1 .. n -> Nat] /\ b \in [1 .. n -> Nat] /\ c \in [1 .. n -> Nat]
  BY <1>2, <1>3
<1>5. \A k : Cut(o, k) = Total(FirstOf(a, k)) /\ Weight(o, k) = Total(FirstOf(b, k))
             /\ Computed(o, k) = Total(FirstOf(c, k))
  BY DEF Cut, Weight, Computed
<1>6. \A i \in 1 .. n : a[i] = Len(Sent(o, i)) /\ b[i] = Bytes(Sent(o, i)) /\ c[i] = Need(o, i)
  OBVIOUS
<1> HIDE DEF n, a, b, c
<1>7. Cut(o, 0) = 0 /\ Weight(o, 0) = 0 /\ Computed(o, 0) = 0
  BY <1>1, <1>4, <1>5, TotalFirst
<1>8. \A k \in 0 .. n : Total(FirstOf(a, k)) \in Nat /\ Total(FirstOf(b, k)) \in Nat
                        /\ Total(FirstOf(c, k)) \in Nat
  <2>1. \A k \in 0 .. n : Total(FirstOf(a, k)) \in Nat
    BY <1>1, <1>4, TotalNat
  <2>2. \A k \in 0 .. n : Total(FirstOf(b, k)) \in Nat
    BY <1>1, <1>4, TotalNat
  <2>3. \A k \in 0 .. n : Total(FirstOf(c, k)) \in Nat
    BY <1>1, <1>4, TotalNat
  <2> QED
    BY <2>1, <2>2, <2>3
<1>9. ASSUME NEW k \in 1 .. n
      PROVE  /\ Cut(o, k) = Cut(o, k - 1) + Len(Sent(o, k))
             /\ Weight(o, k) = Weight(o, k - 1) + Bytes(Sent(o, k))
             /\ Computed(o, k) = Computed(o, k - 1) + Need(o, k)
  <2>1. k - 1 \in Nat /\ k - 1 < n /\ (k - 1) + 1 = k
    BY <1>1
  <2>2. Total(FirstOf(a, (k - 1) + 1)) = Total(FirstOf(a, k - 1)) + a[(k - 1) + 1]
    BY <1>1, <1>4, <2>1, TotalFirst
  <2>3. Total(FirstOf(b, (k - 1) + 1)) = Total(FirstOf(b, k - 1)) + b[(k - 1) + 1]
    BY <1>1, <1>4, <2>1, TotalFirst
  <2>4. Total(FirstOf(c, (k - 1) + 1)) = Total(FirstOf(c, k - 1)) + c[(k - 1) + 1]
    BY <1>1, <1>4, <2>1, TotalFirst
  <2> QED
    BY <1>5, <1>6, <2>1, <2>2, <2>3, <2>4
<1>10. \A m, k \in 0 .. n : m =< k => Cut(o, m) =< Cut(o, k)
  BY <1>1, <1>4, <1>5, TotalMonotone
<1>11. ASSUME ~ MixedElf(o), NEW k \in 0 .. n
       PROVE  Weight(o, k) =< Computed(o, n)
  <2> DEFINE x == FirstOf(b, k)
             y == FirstOf(c, k)
  <2>1. x \in [1 .. k -> Nat] /\ y \in [1 .. k -> Nat] /\ k \in Nat
    BY <1>1, <1>4 DEF FirstOf
  <2>2. \A i \in 1 .. k : x[i] =< y[i]
    BY <1>1, <1>2, <1>6, <1>11 DEF FirstOf
  <2>3. Total(x) =< Total(y)
    <3> HIDE DEF x, y
    <3> QED
      BY <2>1, <2>2, TotalLeq
  <2>4. Total(FirstOf(c, k)) =< Total(FirstOf(c, n))
    <3>1. \A m, j \in 0 .. n : m =< j => Total(FirstOf(c, m)) =< Total(FirstOf(c, j))
      BY <1>1, <1>4, TotalMonotone
    <3> QED
      BY <1>1, <3>1
  <2>5. n \in 0 .. n
    BY <1>1
  <2> QED
    BY <1>5, <1>8, <2>3, <2>4, <2>5
<1> QED
  BY <1>2, <1>5, <1>7, <1>8, <1>9, <1>10, <1>11 DEF n

-----------------------------------------------------------------------------
(* The invariant: what has been counted, written and read so far.          *)

Control ==
    /\ obj \in Objects
    /\ pc \in {"size", "pack", "unpack", "done"}
    /\ step \in 1 .. Parts(obj)
    /\ failed \in BOOLEAN

\* The sections that l_getSize... has gone through.
SectionsCounted == IF pc = "size" THEN step - 1 ELSE Parts(obj)
CountedRight ==
    /\ size = Computed(obj, SectionsCounted)
    /\ \A i \in 1 .. SectionsCounted :
         Name(obj, i) \in DOMAIN count /\ count[Name(obj, i)] = EntriesOf(obj, i)

\* No assertion has failed in a section that was packed.
PassedRight ==
    /\ \A i \in 1 .. Parts(obj) :
         (pc = "pack" /\ i < step) \/ pc = "unpack" => ~ Asserts(obj, i)
    /\ failed => \E i \in 1 .. Parts(obj) : Asserts(obj, i)

\* The buffer holds the first m sections.
Holds(m) ==
    /\ buf \in Seq(CellSet)
    /\ Len(buf) = Cut(obj, m)
    /\ Bytes(buf) = Weight(obj, m)
    /\ \A i \in 1 .. m :
         /\ Found(buf, Cut(obj, i - 1) + 1, Sent(obj, i))
         /\ Name(obj, i) \in DOMAIN mark
         /\ mark[Name(obj, i)] = Bytes(SubSeq(buf, 1, Cut(obj, i - 1)))

\* The first r of them have been read.  A reader need not have gone beyond the
\* last one.
HasRead(r) ==
    /\ at = Cut(obj, r) \/ (r = Parts(obj) /\ at = Cut(obj, r - 1))
    /\ DOMAIN read = {Name(obj, i) : i \in 1 .. r}
    /\ DOMAIN out = {Name(obj, i) : i \in 1 .. r}
    /\ \A i \in 1 .. r :
         /\ read[Name(obj, i)] = Bytes(SubSeq(buf, 1, Cut(obj, i - 1)))
         /\ Delivered(Name(obj, i), Part(obj, i), EntriesOf(obj, i), out[Name(obj, i)])

Progress(m, r) ==
    /\ Holds(m) /\ HasRead(r)
    /\ pc = "size" => m = 0
    /\ pc = "pack" => m = step - 1
    /\ pc = "unpack" => m = Parts(obj)
    /\ pc \in {"size", "pack"} => r = 0
    /\ pc = "unpack" => r = step - 1
    /\ pc = "done" => r \in {0, Parts(obj)}
    /\ r > 0 => m = Parts(obj)

PackInv ==
    /\ Control /\ CountedRight /\ PassedRight
    /\ \E m, r \in 0 .. Parts(obj) : Progress(m, r)

\* The section that comes next.
LEMMA NextSection ==
    ASSUME Control
    PROVE  /\ obj \in Structures /\ Parts(obj) \in 1 .. 8 /\ step \in 1 .. Parts(obj)
           /\ Section = Name(obj, step) /\ obj[Section] = Part(obj, step)
           /\ LastSection <=> step = Parts(obj)
           /\ obj.kind \in {"fat3", "fat4", "func", "var"}
           /\ \A i, j \in 1 .. Parts(obj) : Name(obj, i) = Name(obj, j) => i = j
<1>1. obj \in Structures
  BY PackingAssumption DEF Control
<1> QED
  BY <1>1, SectionNames DEF Control, Section, LastSection, Name, Part, Parts

\* Initially nothing has been counted, written or read.
LEMMA PackInit == Init => PackInv
<1> SUFFICES ASSUME Init PROVE PackInv
  OBVIOUS
<1>1. obj \in Structures /\ Parts(obj) \in 1 .. 8
  BY PackingAssumption, SectionNames DEF Init
<1>2. Control
  <2>1. 1 \in 1 .. Parts(obj)
    BY <1>1
  <2> QED
    BY <2>1 DEF Init, Control
<1>3. CountedRight
  BY <1>1, Sums DEF Init, CountedRight, SectionsCounted
<1>4. PassedRight
  BY DEF Init, PassedRight
<1>5. Progress(0, 0)
  <2>1. Bytes(<<>>) = 0
    BY TotalEmpty DEF Bytes
  <2>2. Holds(0)
    BY <1>1, <2>1, Sums DEF Init, Holds
  <2>3. HasRead(0)
    BY <1>1, Sums DEF Init, HasRead, Empty
  <2> QED
    BY <1>1, <2>2, <2>3 DEF Init, Progress
<1>6. 0 \in 0 .. Parts(obj)
  BY <1>1
<1> QED
  BY <1>2, <1>3, <1>4, <1>5, <1>6 DEF PackInv

\* Counting a section.
LEMMA SizeStep ==
    ASSUME PackInv, Size
    PROVE  PackInv'
<1> USE DEF PackInv
<1>1. /\ obj \in Structures /\ Parts(obj) \in 1 .. 8 /\ step \in 1 .. Parts(obj)
      /\ Section = Name(obj, step) /\ obj[Section] = Part(obj, step)
      /\ LastSection <=> step = Parts(obj)
      /\ \A i, j \in 1 .. Parts(obj) : Name(obj, i) = Name(obj, j) => i = j
  BY NextSection
<1>2. /\ pc = "size" /\ obj' = obj /\ size' = size + Need(obj, step)
      /\ count' = Put(count, Name(obj, step), EntriesOf(obj, step))
      /\ UNCHANGED <<buf, mark, at, read, out, failed>>
  BY <1>1 DEF Size, Need, EntriesOf
<1>3. \/ step = Parts(obj) /\ pc' = "pack" /\ step' = 1
      \/ step # Parts(obj) /\ pc' = "size" /\ step' = step + 1
  BY <1>1, <1>2 DEF Size, GoOn
<1>4. Control'
  BY <1>1, <1>2, <1>3 DEF Control
<1>5. CountedRight'
  <2>1. SectionsCounted = step - 1 /\ SectionsCounted' = step
    BY <1>1, <1>2, <1>3 DEF SectionsCounted
  <2>2. size' = Computed(obj, step)
    BY <1>1, <1>2, <2>1, Sums DEF CountedRight
  <2>3. ASSUME NEW i \in 1 .. step
        PROVE  Name(obj, i) \in DOMAIN count' /\ count'[Name(obj, i)] = EntriesOf(obj, i)
    <3>1. CASE i = step
      BY <1>2, <3>1 DEF Put
    <3>2. CASE i # step
      <4>1. i \in 1 .. step - 1 /\ i \in 1 .. Parts(obj)
        BY <1>1, <3>2
      <4>2. Name(obj, i) \in DOMAIN count /\ count[Name(obj, i)] = EntriesOf(obj, i)
        BY <2>1, <4>1 DEF CountedRight
      <4>3. Name(obj, i) # Name(obj, step)
        BY <1>1, <3>2, <4>1
      <4> QED
        BY <1>2, <4>2, <4>3 DEF Put
    <3> QED
      BY <3>1, <3>2
  <2> QED
    BY <1>2, <2>1, <2>2, <2>3 DEF CountedRight
<1>6. PassedRight'
  <2>1. \A i \in 1 .. Parts(obj) : ~ ((pc' = "pack" /\ i < step') \/ pc' = "unpack")
    BY <1>1, <1>3
  <2>2. failed => \E i \in 1 .. Parts(obj) : Asserts(obj, i)
    BY DEF PassedRight
  <2> QED
    BY <1>2, <2>1, <2>2 DEF PassedRight
<1>7. Progress(0, 0)'
  <2>1. Progress(0, 0)
    BY <1>2 DEF Progress
  <2>2. Holds(0)' /\ HasRead(0)'
    BY <1>2, <2>1 DEF Progress, Holds, HasRead
  <2> QED
    BY <1>1, <1>2, <1>3, <2>2 DEF Progress
<1>8. 0 \in 0 .. Parts(obj)
  BY <1>1
<1> QED
  BY <1>2, <1>4, <1>5, <1>6, <1>7, <1>8

\* What is found before the place where something is written is still found.
LEMMA FoundBefore ==
    ASSUME NEW a \in Seq(CellSet), NEW b \in Seq(CellSet), NEW c \in Seq(CellSet),
           NEW p \in Nat, p + Len(c) =< Len(a), Found(a, p + 1, c)
    PROVE  Found(a \o b, p + 1, c)
<1>1. Len(a) \in Nat /\ Len(c) \in Nat
  OBVIOUS
<1>2. \A i \in 1 .. Len(a) : (a \o b)[i] = a[i]
  BY ConcatFacts
<1>3. ASSUME NEW k \in 1 .. Len(c)
      PROVE  (a \o b)[p + 1 + k - 1] = c[k]
  <2>1. p + 1 + k - 1 \in 1 .. Len(a)
    BY <1>1
  <2>2. a[p + 1 + k - 1] = c[k]
    BY DEF Found
  <2> QED
    BY <1>2, <2>1, <2>2
<1> QED
  BY <1>3 DEF Found

\* What is written is found behind what was there.
LEMMA FoundBehind ==
    ASSUME NEW a \in Seq(CellSet), NEW b \in Seq(CellSet)
    PROVE  Found(a \o b, Len(a) + 1, b)
<1>1. Len(a) \in Nat /\ Len(b) \in Nat
  OBVIOUS
<1>2. \A i \in 1 .. Len(b) : (a \o b)[Len(a) + i] = b[i]
  BY ConcatFacts
<1>3. \A k \in 1 .. Len(b) : Len(a) + 1 + k - 1 = Len(a) + k
  BY <1>1
<1> QED
  BY <1>2, <1>3 DEF Found

\* The first cells stay the same.
LEMMA PrefixBefore ==
    ASSUME NEW a \in Seq(CellSet), NEW b \in Seq(CellSet), NEW k \in 0 .. Len(a)
    PROVE  /\ SubSeq(a \o b, 1, k) = SubSeq(a, 1, k)
           /\ SubSeq(a \o b, 1, Len(a)) = a
<1>1. Len(a) \in Nat /\ Len(b) \in Nat /\ k \in Nat
  OBVIOUS
<1>2. /\ a \o b \in Seq(CellSet) /\ Len(a \o b) = Len(a) + Len(b)
      /\ \A i \in 1 .. Len(a) : (a \o b)[i] = a[i]
  BY ConcatFacts
<1> DEFINE c == a \o b
<1>3. /\ c \in Seq(CellSet) /\ Len(c) = Len(a) + Len(b)
      /\ \A i \in 1 .. Len(a) : c[i] = a[i]
  BY <1>2
<1> HIDE DEF c
<1>4. SubSeq(c, 1, k) = [i \in 1 .. k |-> c[i]] /\ SubSeq(a, 1, k) = [i \in 1 .. k |-> a[i]]
  BY <1>1, <1>3
<1>5. SubSeq(c, 1, Len(a)) = [i \in 1 .. Len(a) |-> c[i]] /\ a = [i \in 1 .. Len(a) |-> a[i]]
  BY <1>1, <1>3
<1>6. [i \in 1 .. k |-> c[i]] = [i \in 1 .. k |-> a[i]]
  BY <1>1, <1>3
<1>7. [i \in 1 .. Len(a) |-> c[i]] = [i \in 1 .. Len(a) |-> a[i]]
  BY <1>1, <1>3
<1> QED
  BY <1>4, <1>5, <1>6, <1>7 DEF c

\* Writing a section behind those before.
LEMMA PackHolds ==
    ASSUME NEW m \in Nat, Holds(m), obj \in Structures, m + 1 \in 1 .. Parts(obj),
           \A i, j \in 1 .. Parts(obj) : Name(obj, i) = Name(obj, j) => i = j,
           obj' = obj, buf' = buf \o Sent(obj, m + 1),
           mark' = Put(mark, Name(obj, m + 1), Bytes(buf))
    PROVE  Holds(m + 1)'
<1> DEFINE c == Sent(obj, m + 1)
<1>1. /\ buf \in Seq(CellSet) /\ Len(buf) = Cut(obj, m) /\ Bytes(buf) = Weight(obj, m)
      /\ \A i \in 1 .. m : /\ Found(buf, Cut(obj, i - 1) + 1, Sent(obj, i))
                           /\ Name(obj, i) \in DOMAIN mark
                           /\ mark[Name(obj, i)] = Bytes(SubSeq(buf, 1, Cut(obj, i - 1)))
  BY DEF Holds
<1>2. (m + 1) - 1 = m /\ m \in 0 .. Parts(obj) /\ Parts(obj) \in 1 .. 8
  BY SectionNames
<1>3. /\ c \in Seq(CellSet)
      /\ Cut(obj, m + 1) = Cut(obj, m) + Len(c)
      /\ Weight(obj, m + 1) = Weight(obj, m) + Bytes(c)
      /\ Cut(obj, m) \in Nat
  BY <1>2, Sums
<1> HIDE DEF c
<1>4. buf' = buf \o c
  BY DEF c
<1>5. buf' \in Seq(CellSet) /\ Len(buf') = Cut(obj, m + 1) /\ Bytes(buf') = Weight(obj, m + 1)
  <2>1. buf \o c \in Seq(CellSet) /\ Len(buf \o c) = Len(buf) + Len(c)
    BY <1>1, <1>3, ConcatFacts
  <2>2. Bytes(buf \o c) = Bytes(buf) + Bytes(c)
    BY <1>1, <1>3, BytesConcat
  <2> QED
    BY <1>1, <1>3, <1>4, <2>1, <2>2
<1>6. ASSUME NEW i \in 1 .. m
      PROVE  /\ Found(buf', Cut(obj, i - 1) + 1, Sent(obj, i))
             /\ Name(obj, i) \in DOMAIN mark'
             /\ mark'[Name(obj, i)] = Bytes(SubSeq(buf', 1, Cut(obj, i - 1)))
  <2>1. i \in 1 .. Parts(obj) /\ i - 1 \in 0 .. Parts(obj) /\ i \in 0 .. Parts(obj) /\ i =< m
    BY <1>2
  <2>2. /\ Cut(obj, i - 1) \in Nat /\ Sent(obj, i) \in Seq(CellSet)
        /\ Cut(obj, i) = Cut(obj, i - 1) + Len(Sent(obj, i))
    BY <2>1, Sums
  <2>3. Cut(obj, i) =< Cut(obj, m)
    BY <1>2, <2>1, Sums
  <2>4. Cut(obj, i - 1) + Len(Sent(obj, i)) =< Len(buf)
    BY <1>1, <2>2, <2>3
  <2>5. Found(buf', Cut(obj, i - 1) + 1, Sent(obj, i))
    <3>1. Found(buf, Cut(obj, i - 1) + 1, Sent(obj, i))
      BY <1>1
    <3>2. Found(buf \o c, Cut(obj, i - 1) + 1, Sent(obj, i))
      BY <1>1, <1>3, <2>2, <2>4, <3>1, FoundBefore
    <3> QED
      BY <1>4, <3>2
  <2>6. Cut(obj, i - 1) \in 0 .. Len(buf)
    <3>1. Len(Sent(obj, i)) \in Nat /\ Len(buf) \in Nat
      BY <1>1, <2>2
    <3> QED
      BY <2>2, <2>4, <3>1
  <2>7. SubSeq(buf', 1, Cut(obj, i - 1)) = SubSeq(buf, 1, Cut(obj, i - 1))
    BY <1>1, <1>3, <1>4, <2>6, PrefixBefore
  <2>8. Name(obj, i) # Name(obj, m + 1)
    BY <1>2, <2>1
  <2>9. Name(obj, i) \in DOMAIN mark' /\ mark'[Name(obj, i)] = mark[Name(obj, i)]
    BY <1>1, <2>8 DEF Put
  <2> QED
    BY <1>1, <2>5, <2>7, <2>9
<1>7. /\ Found(buf', Cut(obj, m) + 1, c)
      /\ Name(obj, m + 1) \in DOMAIN mark'
      /\ mark'[Name(obj, m + 1)] = Bytes(SubSeq(buf', 1, Cut(obj, m)))
  <2>1. Found(buf', Cut(obj, m) + 1, c)
    BY <1>1, <1>3, <1>4, FoundBehind
  <2>2. SubSeq(buf', 1, Cut(obj, m)) = buf
    <3>1. 0 \in 0 .. Len(buf)
      BY <1>1
    <3> QED
      BY <1>1, <1>3, <1>4, <3>1, PrefixBefore
  <2> QED
    BY <2>1, <2>2 DEF Put
<1>8. ASSUME NEW i \in 1 .. m + 1
      PROVE  /\ Found(buf', Cut(obj, i - 1) + 1, Sent(obj, i))
             /\ Name(obj, i) \in DOMAIN mark'
             /\ mark'[Name(obj, i)] = Bytes(SubSeq(buf', 1, Cut(obj, i - 1)))
  <2>1. CASE i \in 1 .. m
    BY <1>6, <2>1
  <2>2. CASE i = m + 1
    BY <1>2, <1>7, <2>2 DEF c
  <2> QED
    BY <2>1, <2>2
<1> QED
  BY <1>5, <1>8 DEF Holds

\* Packing a section.
LEMMA PackStep ==
    ASSUME PackInv, Pack
    PROVE  PackInv'
<1> USE DEF PackInv
<1>1. /\ obj \in Structures /\ Parts(obj) \in 1 .. 8 /\ step \in 1 .. Parts(obj)
      /\ Section = Name(obj, step) /\ obj[Section] = Part(obj, step)
      /\ LastSection <=> step = Parts(obj)
      /\ \A i, j \in 1 .. Parts(obj) : Name(obj, i) = Name(obj, j) => i = j
  BY NextSection
<1>2. count[Section] = EntriesOf(obj, step)
  BY <1>1 DEF Pack, CountedRight, SectionsCounted
<1>3. /\ pc = "pack" /\ obj' = obj /\ buf' = buf \o Sent(obj, step)
      /\ mark' = Put(mark, Name(obj, step), Bytes(buf))
      /\ UNCHANGED <<count, size, at, read, out>>
  BY <1>1, <1>2 DEF Pack, Sent
<1>4. \/ Asserts(obj, step) /\ pc' = "done" /\ failed' = TRUE /\ step' = step
      \/ ~ Asserts(obj, step) /\ step = Parts(obj) /\ pc' = "unpack" /\ step' = 1 /\ failed' = failed
      \/ ~ Asserts(obj, step) /\ step # Parts(obj) /\ pc' = "pack" /\ step' = step + 1
         /\ failed' = failed
  BY <1>1, <1>2 DEF Pack, GoOn, Asserts
<1>5. Control'
  <2>1. obj' \in Objects /\ failed' \in BOOLEAN
    BY <1>3, <1>4 DEF Control
  <2>2. pc' \in {"size", "pack", "unpack", "done"} /\ step' \in 1 .. Parts(obj)
    BY <1>1, <1>4
  <2> QED
    BY <1>3, <2>1, <2>2 DEF Control
<1>6. CountedRight'
  <2>1. SectionsCounted' = SectionsCounted
    BY <1>3, <1>4 DEF SectionsCounted
  <2> QED
    BY <1>3, <2>1 DEF CountedRight
<1>7. PassedRight'
  BY <1>1, <1>3, <1>4 DEF PassedRight
<1>8. PICK m, r \in 0 .. Parts(obj) : Progress(m, r)
  OBVIOUS
<1>9. m = step - 1 /\ m + 1 = step /\ r = 0
  BY <1>1, <1>3, <1>8 DEF Progress
<1>10. Holds(m + 1)'
  <2>1. Holds(m) /\ m \in Nat /\ m + 1 \in 1 .. Parts(obj)
    BY <1>1, <1>8, <1>9 DEF Progress
  <2> QED
    BY <1>1, <1>3, <1>9, <2>1, PackHolds
<1>11. HasRead(0)'
  BY <1>3, <1>8, <1>9 DEF Progress, HasRead
<1>12. Progress(m + 1, 0)'
  BY <1>1, <1>3, <1>4, <1>9, <1>10, <1>11 DEF Progress
<1>13. m + 1 \in 0 .. Parts(obj) /\ 0 \in 0 .. Parts(obj)
  BY <1>1, <1>9
<1> QED
  BY <1>3, <1>5, <1>6, <1>7, <1>12, <1>13

\* Reading a section behind those before.
LEMMA ReadHolds ==
    ASSUME NEW r \in Nat, HasRead(r), Holds(Parts(obj)), obj \in Structures,
           r + 1 \in 1 .. Parts(obj), ~ Asserts(obj, r + 1),
           \A i, j \in 1 .. Parts(obj) : Name(obj, i) = Name(obj, j) => i = j,
           obj' = obj, buf' = buf,
           at' = UnpackOf(Name(obj, r + 1), buf, at + 1).next - 1,
           out' = Put(out, Name(obj, r + 1), UnpackOf(Name(obj, r + 1), buf, at + 1).val),
           read' = Put(read, Name(obj, r + 1), Bytes(SubSeq(buf, 1, at)))
    PROVE  HasRead(r + 1)'
<1> DEFINE s == Name(obj, r + 1)
           u == UnpackOf(s, buf, at + 1)
           c == Sent(obj, r + 1)
<1>1. /\ at = Cut(obj, r) \/ (r = Parts(obj) /\ at = Cut(obj, r - 1))
      /\ DOMAIN read = {Name(obj, i) : i \in 1 .. r}
      /\ DOMAIN out = {Name(obj, i) : i \in 1 .. r}
      /\ \A i \in 1 .. r :
           /\ read[Name(obj, i)] = Bytes(SubSeq(buf, 1, Cut(obj, i - 1)))
           /\ Delivered(Name(obj, i), Part(obj, i), EntriesOf(obj, i), out[Name(obj, i)])
  BY DEF HasRead
<1>2. (r + 1) - 1 = r /\ r \in 0 .. Parts(obj) /\ Parts(obj) \in 1 .. 8
  BY SectionNames
<1>3. /\ Cut(obj, r + 1) = Cut(obj, r) + Len(c) /\ c \in Seq(CellSet) /\ Cut(obj, r) \in Nat
      /\ at = Cut(obj, r)
  <2>1. Cut(obj, r + 1) = Cut(obj, r) + Len(c) /\ c \in Seq(CellSet) /\ Cut(obj, r) \in Nat
    BY <1>2, Sums
  <2>2. r # Parts(obj)
    BY <1>2
  <2> HIDE DEF c
  <2> QED
    BY <1>1, <2>1, <2>2
<1>4. /\ u.next = at + 1 + Len(c) \/ (s = "dependends" /\ u.next = at + 1)
      /\ Delivered(s, Part(obj, r + 1), EntriesOf(obj, r + 1), u.val)
  <2>1. Found(buf, at + 1, c) /\ at + 1 \in Nat
    BY <1>2, <1>3 DEF Holds
  <2>2. Good(s, Part(obj, r + 1))
    BY SectionsGood
  <2> QED
    BY <2>1, <2>2 DEF Good, Asserts, Sent, EntriesOf
<1>5. at' = Cut(obj, r + 1) \/ (r + 1 = Parts(obj) /\ at' = Cut(obj, (r + 1) - 1))
  <2>1. Len(c) \in Nat
    BY <1>3
  <2>2. s = "dependends" => r + 1 = Parts(obj)
    BY SectionNames
  <2> HIDE DEF c, u, s
  <2>3. at' = u.next - 1
    BY DEF u, s
  <2>4. CASE u.next = at + 1 + Len(c)
    BY <1>3, <2>1, <2>3, <2>4
  <2>5. CASE s = "dependends" /\ u.next = at + 1
    BY <1>2, <1>3, <2>2, <2>3, <2>5
  <2> QED
    BY <1>4, <2>4, <2>5
<1>6. /\ out' = Put(out, s, u.val) /\ read' = Put(read, s, Bytes(SubSeq(buf, 1, Cut(obj, r))))
  BY <1>3
<1> HIDE DEF u, c
<1>7. /\ DOMAIN out' = {Name(obj, i) : i \in 1 .. r + 1}
      /\ DOMAIN read' = {Name(obj, i) : i \in 1 .. r + 1}
  <2>1. {Name(obj, i) : i \in 1 .. r + 1} = {Name(obj, i) : i \in 1 .. r} \cup {s}
    <3>1. 1 .. r + 1 = (1 .. r) \cup {r + 1}
      OBVIOUS
    <3> QED
      BY <3>1
  <2>2. DOMAIN out' = DOMAIN out \cup {s} /\ DOMAIN read' = DOMAIN read \cup {s}
    BY <1>6 DEF Put
  <2> QED
    BY <1>1, <2>1, <2>2
<1>8. ASSUME NEW i \in 1 .. r + 1
      PROVE  /\ read'[Name(obj, i)] = Bytes(SubSeq(buf, 1, Cut(obj, i - 1)))
             /\ Delivered(Name(obj, i), Part(obj, i), EntriesOf(obj, i), out'[Name(obj, i)])
  <2>1. CASE i = r + 1
    <3>1. read'[s] = Bytes(SubSeq(buf, 1, Cut(obj, r))) /\ out'[s] = u.val
      BY <1>6 DEF Put
    <3> QED
      BY <1>2, <1>4, <2>1, <3>1
  <2>2. CASE i # r + 1
    <3>1. i \in 1 .. r /\ i \in 1 .. Parts(obj)
      BY <1>2, <2>2
    <3>2. Name(obj, i) # s /\ Name(obj, i) \in DOMAIN out /\ Name(obj, i) \in DOMAIN read
      BY <1>1, <2>2, <3>1
    <3>3. read'[Name(obj, i)] = read[Name(obj, i)] /\ out'[Name(obj, i)] = out[Name(obj, i)]
      BY <1>6, <3>2 DEF Put
    <3> QED
      BY <1>1, <3>1, <3>3
  <2> QED
    BY <2>1, <2>2
<1> QED
  BY <1>5, <1>7, <1>8 DEF HasRead

\* Unpacking a section.
LEMMA UnpackStep ==
    ASSUME PackInv, Unpack
    PROVE  PackInv'
<1> USE DEF PackInv
<1>1. /\ obj \in Structures /\ Parts(obj) \in 1 .. 8 /\ step \in 1 .. Parts(obj)
      /\ Section = Name(obj, step) /\ obj[Section] = Part(obj, step)
      /\ LastSection <=> step = Parts(obj)
      /\ \A i, j \in 1 .. Parts(obj) : Name(obj, i) = Name(obj, j) => i = j
  BY NextSection
<1>2. /\ pc = "unpack" /\ obj' = obj /\ buf' = buf
      /\ at' = UnpackOf(Name(obj, step), buf, at + 1).next - 1
      /\ out' = Put(out, Name(obj, step), UnpackOf(Name(obj, step), buf, at + 1).val)
      /\ read' = Put(read, Name(obj, step), Bytes(SubSeq(buf, 1, at)))
      /\ UNCHANGED <<count, size, mark, failed>>
  BY <1>1 DEF Unpack
<1>3. \/ step = Parts(obj) /\ pc' = "done" /\ step' = 1
      \/ step # Parts(obj) /\ pc' = "unpack" /\ step' = step + 1
  BY <1>1, <1>2 DEF Unpack, GoOn
<1>4. Control'
  BY <1>1, <1>2, <1>3 DEF Control
<1>5. CountedRight'
  <2>1. SectionsCounted' = SectionsCounted
    BY <1>2, <1>3 DEF SectionsCounted
  <2> QED
    BY <1>2, <2>1 DEF CountedRight
<1>6. PassedRight'
  BY <1>1, <1>2, <1>3 DEF PassedRight
<1>7. PICK m, r \in 0 .. Parts(obj) : Progress(m, r)
  OBVIOUS
<1>8. m = Parts(obj) /\ r = step - 1 /\ r + 1 = step
  BY <1>1, <1>2, <1>7 DEF Progress
<1>9. Holds(Parts(obj)) /\ HasRead(r)
  BY <1>7, <1>8 DEF Progress
<1>10. HasRead(r + 1)'
  <2>1. ~ Asserts(obj, step)
    BY <1>1, <1>2 DEF PassedRight
  <2>2. r \in Nat
    BY <1>1
  <2> QED
    BY <1>1, <1>2, <1>8, <1>9, <2>1, <2>2, ReadHolds
<1>11. Holds(Parts(obj))'
  BY <1>2, <1>9 DEF Holds
<1>12. Progress(m, r + 1)'
  <2>1. Holds(m)'
    BY <1>2, <1>8, <1>11
  <2> QED
    BY <1>1, <1>2, <1>3, <1>8, <1>10, <2>1 DEF Progress
<1>13. m \in 0 .. Parts(obj) /\ r + 1 \in 0 .. Parts(obj)
  BY <1>1, <1>8
<1> QED
  BY <1>2, <1>4, <1>5, <1>6, <1>12, <1>13

-----------------------------------------------------------------------------
(* The lists that arrive.                                                  *)

\* An entry that is counted has its strings and its code.
Whole(s) ==
    CASE s \in {"ptx", "cubin"} -> Nat \X Nat
      [] s = "debug" -> Nat \X Nat \X Int
      [] s = "elf" -> Nat \X {0} \X (Nat \ {0})
      [] s \in Symbols -> [1 .. 1 -> Nat]

\* Every walk that counts entries stops at the first that is not whole.
LEMMA CountedWhole ==
    ASSUME NEW o \in Structures, NEW i \in 1 .. Parts(o), Name(o, i) \in ListSections
    PROVE  /\ EntriesOf(o, i) \in 0 .. Len(Part(o, i).list)
           /\ \E E : Part(o, i).list \in Seq(E)
           /\ \A k \in 1 .. EntriesOf(o, i) : Part(o, i).list[k] \in Whole(Name(o, i))
<1> DEFINE s == Name(o, i)
           l == Part(o, i)
           n == EntriesOf(o, i)
<1>1. /\ s \in {"ptx", "cubin"} => l \in Lists(Pairs)
      /\ s = "debug" => l \in Lists(DebugEntries)
      /\ s = "elf" => l \in Lists(ElfEntries)
      /\ s \in Symbols => l \in Lists(SymbolEntries)
  BY SectionsGood
<1>2. n = Count(s, l)
  BY DEF EntriesOf
<1>3. s \in ListSections
  OBVIOUS
<1> HIDE DEF s, l, n
<1>4. CASE s \in {"ptx", "cubin"}
  <2>1. /\ l.list \in Seq(Pairs) /\ DOMAIN l.list = 1 .. Len(l.list)
        /\ \A k \in 1 .. Len(l.list) : l.list[k] \in Pairs
    BY <1>1, <1>4, ListFacts
  <2>2. n = Leading(l.list, BothThere)
    BY <1>2, <1>4 DEF Count, CountPtx
  <2>3. Walked(l.list, n, {k \in DOMAIN l.list : BothThere(l.list[k])})
    BY <2>1, <2>2, WalkBoth
  <2>4. n \in 0 .. Len(l.list) /\ \A k \in 1 .. n : l.list[k] \in Pairs /\ BothThere(l.list[k])
    BY <2>1, <2>3 DEF Walked
  <2>5. \A e \in Pairs : BothThere(e) => e \in Nat \X Nat
    BY DEF Pairs, BothThere, Strings
  <2> QED
    BY <1>4, <2>1, <2>4, <2>5 DEF Whole, Symbols, s, l, n
<1>5. CASE s = "debug"
  <2>1. /\ l.list \in Seq(DebugEntries) /\ DOMAIN l.list = 1 .. Len(l.list)
        /\ \A k \in 1 .. Len(l.list) : l.list[k] \in DebugEntries
    BY <1>1, <1>5, ListFacts
  <2>2. n = Leading(l.list, BothThere)
    BY <1>2, <1>5 DEF Count, CountDebug
  <2>3. Walked(l.list, n, {k \in DOMAIN l.list : BothThere(l.list[k])})
    BY <2>1, <2>2, WalkBoth
  <2>4. /\ n \in 0 .. Len(l.list)
        /\ \A k \in 1 .. n : l.list[k] \in DebugEntries /\ BothThere(l.list[k])
    BY <2>1, <2>3 DEF Walked
  <2>5. \A e \in DebugEntries : BothThere(e) => e \in Nat \X Nat \X Int
    BY DEF DebugEntries, BothThere, Strings
  <2> QED
    BY <1>5, <2>1, <2>4, <2>5 DEF Whole, Symbols, s, l, n
<1>6. CASE s = "elf"
  <2>1. /\ l.list \in Seq(ElfEntries) /\ DOMAIN l.list = 1 .. Len(l.list)
        /\ \A k \in 1 .. Len(l.list) : l.list[k] \in ElfEntries
    BY <1>1, <1>6, ListFacts
  <2>2. n = CountElf(l)
    BY <1>2, <1>6 DEF Count
  <2>3. Walked(l.list, n, {k \in DOMAIN l.list : BothThere(l.list[k]) /\ l.list[k][3] # 0})
    BY <2>1, <2>2, WalkSized
  <2>4. /\ n \in 0 .. Len(l.list)
        /\ \A k \in 1 .. n : l.list[k] \in ElfEntries /\ BothThere(l.list[k]) /\ l.list[k][3] # 0
    BY <2>1, <2>3 DEF Walked
  <2>5. \A e \in ElfEntries : BothThere(e) /\ e[3] # 0 => e \in Nat \X {0} \X (Nat \ {0})
    BY DEF ElfEntries, BothThere, Strings
  <2> QED
    BY <1>6, <2>1, <2>4, <2>5 DEF Whole, Symbols, s, l, n
<1>7. CASE s \in Symbols
  <2>1. /\ l.list \in Seq(SymbolEntries) /\ DOMAIN l.list = 1 .. Len(l.list)
        /\ \A k \in 1 .. Len(l.list) : l.list[k] \in SymbolEntries
    BY <1>1, <1>7, ListFacts
  <2>2. n = Leading(l.list, NameThere)
    BY <1>2, <1>7 DEF Count, CountSymbol, Symbols
  <2>3. Walked(l.list, n, {k \in DOMAIN l.list : NameThere(l.list[k])})
    BY <2>1, <2>2, WalkNames
  <2>4. /\ n \in 0 .. Len(l.list)
        /\ \A k \in 1 .. n : l.list[k] \in SymbolEntries /\ NameThere(l.list[k])
    BY <2>1, <2>3 DEF Walked
  <2>5. \A e \in SymbolEntries : NameThere(e) => e \in [1 .. 1 -> Nat]
    BY DEF SymbolEntries, NameThere, Strings
  <2> QED
    BY <1>7, <2>1, <2>4, <2>5 DEF Whole, Symbols, s, l, n
<1> QED
  BY <1>3, <1>4, <1>5, <1>6, <1>7 DEF ListSections, Symbols

\* How many strings the entries of a list have.
StringsOf(s) == IF s \in Symbols \cup {"elf"} THEN 1 ELSE 2

\* A whole entry arrives as it was, but for its empty strings.
LEMMA EntryArrives ==
    ASSUME NEW s \in ListSections, NEW e \in Whole(s)
    PROVE  /\ (\A j \in 1 .. StringsOf(s) : e[j] # 0) => ArrivedEntry(s, e) = e
           /\ ArrivedEntry(s, e)[1] = Null => e[1] = 0
           /\ e[1] = 0 => ArrivedEntry(s, e)[1] = Null
           /\ e[2] = 0 /\ StringsOf(s) = 2 => ArrivedEntry(s, e)[2] = Null
<1>1. CASE s \in {"ptx", "cubin"}
  <2>1. e \in Nat \X Nat
    BY <1>1 DEF Whole, Symbols
  <2>2. ArrivedEntry(s, e) = <<Arrived(e[1]), Arrived(e[2])>>
    BY <1>1 DEF ArrivedEntry, Symbols
  <2>3. StringsOf(s) = 2
    BY <1>1 DEF StringsOf, Symbols
  <2> QED
    BY <2>1, <2>2, <2>3 DEF Arrived, Null
<1>2. CASE s = "debug"
  <2>1. e \in Nat \X Nat \X Int
    BY <1>2 DEF Whole, Symbols
  <2>2. ArrivedEntry(s, e) = <<Arrived(e[1]), Arrived(e[2]), e[3]>>
    BY <1>2 DEF ArrivedEntry, Symbols
  <2>3. StringsOf(s) = 2
    BY <1>2 DEF StringsOf, Symbols
  <2> QED
    BY <2>1, <2>2, <2>3 DEF Arrived, Null
<1>3. CASE s = "elf"
  <2>1. e \in Nat \X {0} \X (Nat \ {0})
    BY <1>3 DEF Whole, Symbols
  <2>2. ArrivedEntry(s, e) = <<Arrived(e[1]), IF e[3] = 0 THEN Null ELSE 0, e[3]>>
    BY <1>3 DEF ArrivedEntry, Symbols
  <2>3. StringsOf(s) = 1
    BY <1>3 DEF StringsOf
  <2> QED
    BY <2>1, <2>2, <2>3 DEF Arrived, Null
<1>4. CASE s \in Symbols
  <2>1. e \in [1 .. 1 -> Nat]
    BY <1>4 DEF Whole, Symbols
  <2>2. ArrivedEntry(s, e) = <<Arrived(e[1])>>
    BY <1>4 DEF ArrivedEntry, Symbols
  <2>3. StringsOf(s) = 1
    BY <1>4 DEF StringsOf
  <2>4. e = <<e[1]>>
    BY <2>1
  <2> QED
    BY <2>1, <2>2, <2>3, <2>4 DEF Arrived, Null
<1> QED
  BY <1>1, <1>2, <1>3, <1>4 DEF ListSections, Symbols

\* The list w that arrives for the n first entries of l: as it was, or shorter for
\* a reader when an entry has an empty string.
ListCame(s, l, n, w) ==
    /\ Len(w.list) = n
    /\ (\A k \in 1 .. n : \A j \in 1 .. StringsOf(s) : l.list[k][j] # 0)
         => w.list = SubSeq(l.list, 1, n)
    /\ (\E k \in 1 .. n : \E j \in 1 .. StringsOf(s) : l.list[k][j] = 0) => Count(s, w) < n

\* Whole entries arrive so.
LEMMA ListArrives ==
    ASSUME NEW s \in ListSections, NEW l, NEW E, l.list \in Seq(E), NEW n \in 0 .. Len(l.list),
           \A k \in 1 .. n : l.list[k] \in Whole(s),
           NEW w, w.list = [k \in 1 .. n |-> ArrivedEntry(s, l.list[k])]
    PROVE  ListCame(s, l, n, w)
<1> DEFINE F == {ArrivedEntry(s, l.list[k]) : k \in 1 .. n}
<1>1. Len(l.list) \in Nat /\ n \in Nat /\ n =< Len(l.list)
  OBVIOUS
<1>2. w.list \in Seq(F) /\ Len(w.list) = n /\ DOMAIN w.list = 1 .. n
  BY <1>1
<1>3. \A k \in 1 .. n : w.list[k] = ArrivedEntry(s, l.list[k])
  OBVIOUS
<1> HIDE DEF F
<1>4. ASSUME \A k \in 1 .. n : \A j \in 1 .. StringsOf(s) : l.list[k][j] # 0
      PROVE  w.list = SubSeq(l.list, 1, n)
  <2>1. SubSeq(l.list, 1, n) = [k \in 1 .. n |-> l.list[k]]
    BY <1>1
  <2>2. \A k \in 1 .. n : ArrivedEntry(s, l.list[k]) = l.list[k]
    BY <1>4, EntryArrives
  <2> QED
    BY <2>1, <2>2
<1>5. ASSUME NEW k \in 1 .. n, NEW j \in 1 .. StringsOf(s), l.list[k][j] = 0
      PROVE  Count(s, w) < n
  <2>1. \/ w.list[k][1] = Null
        \/ w.list[k][2] = Null /\ s \notin Symbols \cup {"elf"}
    <3>1. l.list[k] \in Whole(s)
      OBVIOUS
    <3>2. j = 1 \/ (j = 2 /\ StringsOf(s) = 2)
      <4>1. StringsOf(s) \in {1, 2}
        BY DEF StringsOf
      <4> QED
        BY <4>1
    <3>3. StringsOf(s) = 2 => s \notin Symbols \cup {"elf"}
      BY DEF StringsOf
    <3> QED
      BY <1>3, <1>5, <3>1, <3>2, <3>3, EntryArrives
  <2>2. ASSUME NEW P, Walked(w.list, Count(s, w), P), k \notin P
        PROVE  Count(s, w) < n
    BY <1>1, <1>2, <2>2 DEF Walked
  <2>3. CASE s \in {"ptx", "cubin", "debug"}
    <3>1. Count(s, w) = Leading(w.list, BothThere)
      BY <2>3 DEF Count, CountPtx, CountDebug
    <3>2. Walked(w.list, Count(s, w), {i \in DOMAIN w.list : BothThere(w.list[i])})
      BY <1>2, <3>1, WalkBoth
    <3>3. k \notin {i \in DOMAIN w.list : BothThere(w.list[i])}
      BY <2>1 DEF BothThere
    <3> QED
      BY <2>2, <3>2, <3>3
  <2>4. CASE s = "elf"
    <3>1. Count(s, w) = CountElf(w)
      BY <2>4 DEF Count
    <3>2. Walked(w.list, CountElf(w),
                 {i \in DOMAIN w.list : BothThere(w.list[i]) /\ w.list[i][3] # 0})
      BY <1>2, WalkSized
    <3>3. k \notin {i \in DOMAIN w.list : BothThere(w.list[i]) /\ w.list[i][3] # 0}
      BY <2>1, <2>4 DEF BothThere
    <3> QED
      BY <2>2, <3>1, <3>2, <3>3
  <2>5. CASE s \in Symbols
    <3>1. Count(s, w) = Leading(w.list, NameThere)
      BY <2>5 DEF Count, CountSymbol, Symbols
    <3>2. Walked(w.list, Count(s, w), {i \in DOMAIN w.list : NameThere(w.list[i])})
      BY <1>2, <3>1, WalkNames
    <3>3. k \notin {i \in DOMAIN w.list : NameThere(w.list[i])}
      BY <2>1, <2>5 DEF NameThere
    <3> QED
      BY <2>2, <3>2, <3>3
  <2> QED
    BY <2>3, <2>4, <2>5 DEF ListSections, Symbols
<1> QED
  BY <1>2, <1>4, <1>5 DEF ListCame

-----------------------------------------------------------------------------
(* What a reader finds.                                                    *)

\* When everything has been read, every section has arrived.
LEMMA AllArrived ==
    ASSUME PackInv, pc = "done", DOMAIN out # {}
    PROVE  /\ DOMAIN out = {Name(obj, i) : i \in 1 .. Parts(obj)}
           /\ \A i \in 1 .. Parts(obj) :
                /\ count[Name(obj, i)] = EntriesOf(obj, i)
                /\ Delivered(Name(obj, i), Part(obj, i), EntriesOf(obj, i), out[Name(obj, i)])
<1>1. PICK m, r \in 0 .. Parts(obj) : Progress(m, r)
  BY DEF PackInv
<1>2. HasRead(Parts(obj))
  <2>1. HasRead(r) /\ r \in {0, Parts(obj)}
    BY <1>1 DEF Progress
  <2>2. r # 0
    BY <2>1 DEF HasRead
  <2> QED
    BY <2>1, <2>2
<1>3. \A i \in 1 .. Parts(obj) : count[Name(obj, i)] = EntriesOf(obj, i)
  BY DEF PackInv, CountedRight, SectionsCounted
<1> QED
  BY <1>2, <1>3 DEF HasRead

\* The lists among them.
LEMMA ListsArrived ==
    ASSUME PackInv, pc = "done", NEW s \in ListSections, s \in DOMAIN out
    PROVE  /\ Len(out[s].list) = count[s]
           /\ ~ EmptyEntry(s) => out[s].list = SubSeq(obj[s].list, 1, count[s])
           /\ EmptyEntry(s) => Count(s, out[s]) < count[s]
<1>1. obj \in Structures
  BY NextSection DEF PackInv
<1>2. PICK i \in 1 .. Parts(obj) : s = Name(obj, i)
  BY AllArrived
<1> DEFINE l == Part(obj, i)
           n == EntriesOf(obj, i)
           w == out[s]
<1>3. count[s] = n /\ w.list = [k \in 1 .. n |-> ArrivedEntry(s, l.list[k])]
  BY <1>2, AllArrived DEF Delivered
<1>4. l = obj[s]
  BY <1>2 DEF Part
<1>5. /\ n \in 0 .. Len(l.list) /\ \E E : l.list \in Seq(E)
      /\ \A k \in 1 .. n : l.list[k] \in Whole(s)
  BY <1>1, <1>2, CountedWhole
<1>6. EmptyEntry(s) <=> \E k \in 1 .. n : \E j \in 1 .. StringsOf(s) : l.list[k][j] = 0
  BY <1>3, <1>4 DEF EmptyEntry, StringsOf
<1> HIDE DEF l, n, w
<1>7. PICK E : l.list \in Seq(E)
  BY <1>5
<1>8. n \in Nat
  BY <1>5, <1>7
<1>9. ListCame(s, l, n, w)
  BY <1>3, <1>5, <1>7, ListArrives
<1> QED
  BY <1>3, <1>4, <1>6, <1>8, <1>9 DEF w, ListCame

\* What a reader finds is what was sent.
LEMMA RoundTripHolds == PackInv => RoundTrip
<1> SUFFICES ASSUME PackInv, pc = "done", NEW s \in DOMAIN out
             PROVE  IF s \in ListSections
                      THEN /\ Len(out[s].list) = count[s]
                           /\ ~ EmptyEntry(s) => out[s].list = SubSeq(obj[s].list, 1, count[s])
                           /\ EmptyEntry(s) => Count(s, out[s]) < count[s]
                    ELSE IF s = "dependends" THEN out[s] = obj[s]
                    ELSE \A f \in DOMAIN out[s] :
                           out[s][f] = IF f \in {"key", "ident", "usageMode", "f", "hostFun",
                                                 "deviceFun", "deviceName", "deviceAddress"}
                                         THEN Arrived(obj[s][f]) ELSE obj[s][f]
  BY DEF RoundTrip
<1>1. CASE s \in ListSections
  BY <1>1, ListsArrived
<1>2. CASE s \notin ListSections
  <2>1. PICK i \in 1 .. Parts(obj) : s = Name(obj, i)
    BY AllArrived
  <2>2. Delivered(s, obj[s], EntriesOf(obj, i), out[s])
    BY <2>1, AllArrived DEF Part
  <2> QED
    BY <1>2, <2>2 DEF Delivered, StringFields
<1> QED
  BY <1>1, <1>2

\* Every step keeps the invariant.
LEMMA PackNext == PackInv /\ [Next]_vars => PackInv'
<1> SUFFICES ASSUME PackInv, [Next]_vars PROVE PackInv'
  OBVIOUS
<1>1. CASE Size
  BY <1>1, SizeStep
<1>2. CASE Pack
  BY <1>2, PackStep
<1>3. CASE Unpack
  BY <1>3, UnpackStep
<1>4. CASE Done \/ UNCHANGED vars
  <2>1. UNCHANGED vars
    BY <1>4 DEF Done
  <2>2. Control' /\ CountedRight' /\ PassedRight'
    BY <2>1 DEF vars, PackInv, Control, CountedRight, SectionsCounted, PassedRight
  <2>3. PICK m, r \in 0 .. Parts(obj) : Progress(m, r)
    BY DEF PackInv
  <2>4. Progress(m, r)'
    BY <2>1, <2>3 DEF vars, Progress, Holds, HasRead
  <2>5. obj' = obj
    BY <2>1 DEF vars
  <2> QED
    BY <2>2, <2>3, <2>4, <2>5 DEF PackInv
<1> QED
  BY <1>1, <1>2, <1>3, <1>4 DEF Next

\* The variables have their types.
LEMMA TypeOKHolds == PackInv => TypeOK
<1> SUFFICES ASSUME PackInv PROVE TypeOK
  OBVIOUS
<1>1. obj \in Structures /\ Parts(obj) \in 1 .. 8
  BY NextSection DEF PackInv
<1>2. PICK m, r \in 0 .. Parts(obj) : Progress(m, r)
  BY DEF PackInv
<1>3. /\ buf \in Seq(CellSet) /\ Len(buf) = Cut(obj, m) /\ (r > 0 => m = Parts(obj))
      /\ at = Cut(obj, r) \/ (r = Parts(obj) /\ at = Cut(obj, r - 1))
  BY <1>2 DEF Progress, Holds, HasRead
<1>4. \A i \in DOMAIN buf : buf[i].w \in Nat /\ buf[i].v \in Int
  <2>1. \A i \in DOMAIN buf : buf[i] \in CellSet
    BY <1>3
  <2> QED
    BY <2>1 DEF CellSet
<1>5. at \in 0 .. Len(buf)
  <2>1. r =< m
    BY <1>1, <1>3
  <2>2. PICK k \in 0 .. m : at = Cut(obj, k)
    <3>1. r \in 0 .. m /\ (r = Parts(obj) => r - 1 \in 0 .. m)
      BY <1>1, <2>1
    <3> QED
      BY <1>3, <3>1
  <2>3. Cut(obj, k) =< Cut(obj, m) /\ Cut(obj, k) \in Nat /\ Cut(obj, m) \in Nat
    BY <1>1, <2>2, Sums
  <2> QED
    BY <1>3, <2>2, <2>3
<1>6. size \in Nat
  <2>1. SectionsCounted \in 0 .. Parts(obj)
    BY <1>1 DEF PackInv, Control, SectionsCounted
  <2> QED
    BY <1>1, <2>1, Sums DEF PackInv, CountedRight
<1>7. step \in 1 .. 8
  BY <1>1 DEF PackInv, Control
<1> QED
  BY <1>4, <1>5, <1>6, <1>7 DEF PackInv, Control, TypeOK

\* The three walks agree.
LEMMA WalksAgreeHolds == PackInv => WalksAgree
<1> SUFFICES ASSUME PackInv PROVE WalksAgree
  OBVIOUS
<1>1. obj \in Structures /\ Parts(obj) \in 1 .. 8
  BY NextSection DEF PackInv
<1>2. PICK m, r \in 0 .. Parts(obj) : Progress(m, r)
  BY DEF PackInv
<1>3. Holds(m) /\ HasRead(r) /\ (r > 0 => m = Parts(obj))
  BY <1>2 DEF Progress
<1>4. ElfMixed <=> MixedElf(obj)
  BY DEF ElfMixed, MixedElf, Mixed
<1>5. ASSUME Bytes(buf) > size, pc # "size", ~ ElfMixed
      PROVE  FALSE
  <2>1. size = Computed(obj, Parts(obj))
    BY <1>5 DEF PackInv, CountedRight, SectionsCounted
  <2>2. Bytes(buf) = Weight(obj, m)
    BY <1>3 DEF Holds
  <2>3. Weight(obj, m) =< Computed(obj, Parts(obj))
    BY <1>1, <1>4, <1>5, Sums
  <2>4. Weight(obj, m) \in Nat /\ Computed(obj, Parts(obj)) \in Nat
    BY <1>1, Sums
  <2> QED
    BY <1>5, <2>1, <2>2, <2>3, <2>4
<1>6. ASSUME failed
      PROVE  obj.kind = "fat3" /\ (ElfMixed \/ obj.dependends # 0)
  <2>1. PICK i \in 1 .. Parts(obj) : Asserts(obj, i)
    BY <1>6 DEF PackInv, PassedRight
  <2> QED
    BY <1>1, <1>4, <2>1, SectionsGood
<1>7. ASSUME NEW s \in DOMAIN read
      PROVE  read[s] = mark[s]
  <2>1. PICK i \in 1 .. r : s = Name(obj, i)
    BY <1>3 DEF HasRead
  <2>2. read[s] = Bytes(SubSeq(buf, 1, Cut(obj, i - 1)))
    BY <1>3, <2>1 DEF HasRead
  <2>3. i \in 1 .. m
    BY <1>1, <1>3
  <2> QED
    BY <1>3, <2>1, <2>2, <2>3 DEF Holds
<1> QED
  BY <1>5, <1>6, <1>7 DEF WalksAgree

\* The invariant holds always.
THEOREM PackingInvariant == Spec => []PackInv
BY PackInit, PackNext, PTL DEF Spec

\* The variables of the packing keep their types: among them, no reader ever
\* goes beyond the cells that were written.
THEOREM PackingTypeCorrect == Spec => []TypeOK
BY PackingInvariant, TypeOKHolds, PTL

\* WalksAgree: for every structure, with lists and strings of any length, what
\* pack... writes fits the buffer for which l_getSize... computed the size, and
\* unpack... reads each section where it was written.
THEOREM PackingWalksAgree == Spec => []WalksAgree
BY PackingInvariant, WalksAgreeHolds, PTL

\* RoundTrip: every structure that can be sent arrives as it was, but for its
\* empty strings.
THEOREM PackingRoundTrip == Spec => []RoundTrip
BY PackingInvariant, RoundTripHolds, PTL
=============================================================================

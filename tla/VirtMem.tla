------------------------------ MODULE VirtMem ------------------------------
(***************************************************************************)
(* Virtual device memory, as the shipped build has it (PAGER defined): the *)
(* pager process creates a table of allocations and a counter in shared    *)
(* memory, the serving processes take table entries for cudaMalloc.        *)
(*                                                                         *)
(* The table is one array, but every function indexes the variable that    *)
(* points to it: only entry 0 is the table's.  In the build's memory layout *)
(* the variable after vmap_table is vmap_index, so entry 1 lies over the   *)
(* counter, and entry 2 is no address at all.  For the same reason of      *)
(* layout vmapped_local_arr[-1], which is what copies and arguments use    *)
(* because the handle of an entry is never returned to the client, reads 0. *)
(***************************************************************************)
EXTENDS Integers, FiniteSets

CONSTANTS
    Procs,      \* serving processes
    MaxIndex,   \* bound: counter value at which an allocation may start
    NoOwner

ASSUME VirtMemAssumption ==
    /\ IsFiniteSet(Procs) /\ NoOwner \notin Procs
    /\ MaxIndex \in Nat

VARIABLES
    pager,      \* how far start_pager is
    gsem,       \* semaphore of the table; -1: there is none
    segs,       \* shared memory segments that exist
    vindex,     \* *vmap_index
    entry,      \* entry 0
    lsem,       \* the launch semaphore exists
    vp,         \* what a serving process does
    my,         \* its myindex
    local,      \* index 0 is in its vmapped_local_arr
    last,       \* history: what the process that filled entry 0 last copied into it, 0
                \* for nothing or when a kernel map has overrun into the shared memory
    lost,       \* history: a process was killed with the semaphore taken
    zeros       \* history: how often the counter was read as 0 since it was cleared

vmVars == <<pager, gsem, segs, vindex, entry, lsem, vp, my, local, last, lost, zeros>>
callVars == <<last, lost, zeros>>

Status == {"D_NOALLOC", "D_INIT", "D_READY", "D_MODIFIED", "D_MEMWAIT", "D_DEFERRED"}
Segments == {"table", "index"}
Values == 1..2
InMalloc == {"P", "read", "inc", "V", "creat"}
InSection == {"read", "inc", "V"}

VirtMemTypeOK ==
    /\ pager \in {"off", "setval", "table", "index", "init", "dead"}
    /\ gsem \in -1..1 /\ lsem \in BOOLEAN
    /\ segs \subseteq Segments
    /\ vindex \in Nat
    /\ entry \in [valid : BOOLEAN, dev : 0..2, swap : 0..2,
                  owner : Procs \cup {NoOwner}, status : Status]
    /\ vp \in [Procs -> {"out", "up", "stuck"} \cup InMalloc]
    /\ my \in [Procs -> Nat]
    /\ local \in [Procs -> BOOLEAN]
    /\ last \in {0} \cup Values
    /\ lost \in BOOLEAN /\ zeros \in Nat

NoEntry == [valid |-> FALSE, dev |-> 0, swap |-> 0,
            owner |-> NoOwner, status |-> "D_NOALLOC"]

VirtMemInit ==
    /\ pager = "off" /\ gsem = -1 /\ segs = {} /\ vindex = 0 /\ lsem = FALSE
    /\ entry = NoEntry
    /\ vp = [p \in Procs |-> "out"]
    /\ my = [p \in Procs |-> 0]
    /\ local = [p \in Procs |-> FALSE]
    /\ last = 0
    /\ lost = FALSE /\ zeros = 0

procState == <<vp, my, local>>

----------------------------------------------------------------------------
(* start_pager; it may be killed at any point, and is never restarted with *)
(* success because all three objects are created exclusively.              *)

PagerSem ==
    /\ pager = "off" /\ gsem = -1
    /\ gsem' = 0 /\ pager' = "setval"
    /\ UNCHANGED <<segs, vindex, entry, lsem, procState, callVars>>

PagerSetVal ==
    /\ pager = "setval"
    /\ gsem' = 1 /\ pager' = "table"
    /\ UNCHANGED <<segs, vindex, entry, lsem, procState, callVars>>

PagerShm(at, seg, next) ==
    /\ pager = at
    /\ segs' = segs \cup {seg} /\ pager' = next
    /\ UNCHANGED <<gsem, vindex, entry, lsem, procState, callVars>>
PagerTable == PagerShm("table", "table", "index")
PagerIndex == PagerShm("index", "index", "init")

\* The counter is set to 0, and is counted from there.
Cleared == vindex' = 0 /\ zeros' = 0
Counter == <<vindex, zeros>>

\* mem_map_init clears entry 0.  What follows gmt_table is gmt_index, so that the
\* counter is cleared as if it were valid of entry 1, or is null; it dies on the
\* next entry.  The counter is never set otherwise (new segments are zero), and
\* the threads that would answer paging requests are never started.
mem_map_init ==
    /\ pager = "init"
    /\ entry' = NoEntry
    /\ Cleared \/ UNCHANGED Counter
    /\ pager' = "dead"
    /\ last' = 0
    /\ UNCHANGED <<gsem, segs, lsem, procState, lost>>

PagerKilled ==
    /\ pager \notin {"off", "dead"}
    /\ pager' = "dead"
    /\ UNCHANGED <<gsem, segs, vindex, entry, lsem, procState, callVars>>

----------------------------------------------------------------------------
(* A serving process *)

\* kmap_init asks for less memory than it clears: what lies behind may be unused,
\* or be the segments that were attached just before.  Then any field of entry 0
\* may be cleared, and the counter.  Without its swap area an entry has no owner;
\* without the address on the device it works on in its swap area.
Overrun ==
    /\ \E valid \in {FALSE, entry.valid}, status \in {"D_NOALLOC", entry.status} :
         entry' \in {[entry EXCEPT !.valid = valid, !.status = status],
                    [NoEntry EXCEPT !.valid = valid, !.status = status]}
    /\ Cleared \/ UNCHANGED Counter
    /\ last' = 0

\* The process attaches both segments (it exits without them) and sets up its
\* kernel map.
CanAttach == segs = Segments
Attach(p) ==
    /\ vp[p] = "out" /\ CanAttach
    /\ vp' = [vp EXCEPT ![p] = "up"]
    /\ Overrun \/ UNCHANGED <<entry, Counter, last>>
    /\ UNCHANGED <<pager, gsem, segs, lsem, my, local, lost>>

\* The swap area of an entry is memory of the process that filled it.
Own(p) == entry.owner = p /\ local[p]

\* The end of a serving process, by exit or by a fault.  Its entry stays, the
\* memory it points to does not.
Gone(p) ==
    /\ vp' = [vp EXCEPT ![p] = "out"]
    /\ lost' = (lost \/ vp[p] \in InSection)
    /\ local' = [local EXCEPT ![p] = FALSE]
    /\ my' = [my EXCEPT ![p] = 0]
    /\ last' = IF Own(p) THEN 0 ELSE last
    /\ entry' = IF Own(p) THEN [entry EXCEPT !.dev = 0, !.swap = 0] ELSE entry
    /\ UNCHANGED <<pager, gsem, segs, Counter>>
Detach(p) == Gone(p) /\ UNCHANGED lsem

\* nvbackCudaMalloc_srv: the counter is read and incremented under the semaphore.
Malloc(p) ==
    /\ vp[p] = "up"
    /\ vindex < MaxIndex
    /\ vp' = [vp EXCEPT ![p] = "P"]
    /\ UNCHANGED <<pager, gsem, segs, vindex, entry, lsem, my, local, callVars>>

MallocNoP(p) ==
    /\ vp[p] = "P"
    /\ vp' = [vp EXCEPT ![p] = "read"]
    /\ UNCHANGED <<pager, gsem, segs, vindex, entry, lsem, my, local, callVars>>
MallocP(p) ==
    /\ vp[p] = "P" /\ gsem > 0
    /\ gsem' = gsem - 1
    /\ vp' = [vp EXCEPT ![p] = "read"]
    /\ UNCHANGED <<pager, segs, vindex, entry, lsem, my, local, callVars>>

MallocRead(p) ==
    /\ vp[p] = "read"
    /\ my' = [my EXCEPT ![p] = vindex]
    /\ zeros' = IF vindex = 0 THEN zeros + 1 ELSE zeros
    /\ vp' = [vp EXCEPT ![p] = "inc"]
    /\ UNCHANGED <<pager, gsem, segs, vindex, entry, lsem, local, last, lost>>

MallocInc(p) ==
    /\ vp[p] = "inc"
    /\ vindex' = vindex + 1
    /\ vp' = [vp EXCEPT ![p] = "V"]
    /\ UNCHANGED <<pager, gsem, segs, entry, lsem, my, local, callVars>>

MallocNoV(p) ==
    /\ vp[p] = "V"
    /\ vp' = [vp EXCEPT ![p] = "creat"]
    /\ UNCHANGED <<pager, gsem, segs, vindex, entry, lsem, my, local, callVars>>
MallocV(p) ==
    /\ vp[p] = "V"
    /\ gsem' = gsem + 1
    /\ vp' = [vp EXCEPT ![p] = "creat"]
    /\ UNCHANGED <<pager, segs, vindex, entry, lsem, my, local, callVars>>

\* mem_map_creat, then the index is noted.  Entry 0 is filled whether or not
\* cudaMalloc succeeds; valid of entry 1 is the counter.
mem_map_creat(p) ==
    /\ vp[p] = "creat" /\ my[p] \in {0, 1}
    /\ IF my[p] = 0
       THEN /\ \E ok \in BOOLEAN :
                 entry' = [valid |-> TRUE, dev |-> 0, swap |-> 0, owner |-> p,
                           status |-> IF ok THEN "D_INIT" ELSE "D_NOALLOC"]
            /\ last' = 0
            /\ UNCHANGED vindex
       ELSE vindex' = 1 /\ UNCHANGED <<entry, last>>
    /\ local' = [local EXCEPT ![p] = @ \/ my[p] = 0]
    /\ vp' = [vp EXCEPT ![p] = "up"] /\ my' = [my EXCEPT ![p] = 0]
    /\ UNCHANGED <<pager, gsem, segs, lsem, lost, zeros>>

\* Entry 2 and later: the process dies in mem_map_creat.
CreatDies(p) == vp[p] = "creat" /\ my[p] > 1 /\ Detach(p)

\* A copy always works on entry 0 (mem_map_find_entry finds nothing).  In a
\* process that did not fill it, its addresses are unmapped or are some other
\* memory of that process.
Resident == entry.status \in {"D_INIT", "D_READY", "D_MODIFIED"}

CopyH2DStatus == IF Resident THEN "D_READY"
                 ELSE IF entry.status = "D_DEFERRED" THEN "D_DEFERRED" ELSE "D_MEMWAIT"
\* The copy reaches the device in each of the resident states.
OnDeviceFirst == entry.status = "D_INIT"
OnDevice == Resident
CopyH2D(p, v) ==
    /\ vp[p] = "up" /\ entry.owner # NoOwner
    /\ entry' = [entry EXCEPT !.status = CopyH2DStatus,
                              !.swap = IF Own(p) THEN v ELSE @,
                              !.dev = IF Own(p) /\ OnDevice THEN v ELSE @]
    /\ last' = IF Own(p) THEN v ELSE last
    /\ UNCHANGED <<pager, gsem, segs, vindex, lsem, procState, lost, zeros>>

\* The states in which the swap area is brought up to date first
Synced == entry.status \in {"D_READY", "D_MODIFIED"}
SwapAfter(p) == IF Own(p) /\ Synced THEN entry.dev ELSE entry.swap
\* What the host gets, 0 for nothing
Brings(p) == IF Own(p) /\ entry.status \notin {"D_NOALLOC", "D_INIT"} THEN SwapAfter(p) ELSE 0

CopyD2H(p) ==
    /\ vp[p] = "up"
    /\ entry.owner # NoOwner \/ entry.status \in {"D_NOALLOC", "D_INIT"}
    /\ entry' = [entry EXCEPT !.status = IF Synced THEN "D_READY" ELSE @, !.swap = SwapAfter(p)]
    /\ UNCHANGED <<pager, gsem, segs, vindex, lsem, procState, callVars>>

\* No entry was ever filled, or it is another process's.
CopyDies(p) == vp[p] = "up" /\ ~Own(p) /\ Detach(p)

\* cudaFree finds no entry and changes nothing; cudaConfigureCall and
\* cudaSetupArgument fill the process's own kernel map, of which nothing is kept:
\* whether it has an argument is taken for an input of the launch.
Free(p) == vp[p] = "up" /\ UNCHANGED vmVars
SetupArgument(p) == vp[p] = "up" /\ UNCHANGED vmVars

\* nvbackCudaLaunch_srv creates the launch semaphore exclusively: from the
\* second launch on any process of the node it fails; a kernel that is not
\* registered fails too.
LaunchFails(p) ==
    /\ vp[p] = "up"
    /\ lsem' = TRUE
    /\ UNCHANGED <<pager, gsem, segs, vindex, entry, procState, callVars>>

\* The first launch of a registered kernel: gvirt_is_paging_required stores the
\* number of pages through a null pointer if none is needed.  Otherwise its
\* caller, whose pointers it never set, dies of them or goes on into
\* gvirt_page_in, which waits for ever for the pager to open its pipe (or, if
\* the scheduler's semaphore is gone, returns to gvirt_cuda_launch_index and its
\* loop over the first argument, which never advances).  The semaphore of the
\* launches stays taken.
PagingRequired(args) == args /\ entry.valid /\ entry.status \in {"D_MEMWAIT", "D_DEFERRED"}

LaunchDies(p) ==
    /\ vp[p] = "up" /\ ~lsem
    /\ lsem' = TRUE
    /\ Gone(p)

LaunchHangs(p) ==
    /\ vp[p] = "up" /\ ~lsem /\ \E args \in BOOLEAN : PagingRequired(args)
    /\ lsem' = TRUE
    /\ vp' = [vp EXCEPT ![p] = "stuck"]
    /\ UNCHANGED <<pager, gsem, segs, vindex, entry, my, local, callVars>>

----------------------------------------------------------------------------
PagerNext == PagerSem \/ PagerSetVal \/ PagerTable \/ PagerIndex \/ mem_map_init \/ PagerKilled

Allocates(p) ==
    MallocP(p) \/ MallocRead(p) \/ MallocInc(p) \/ MallocV(p) \/ mem_map_creat(p) \/ CreatDies(p)
Calls(p) ==
    \/ Malloc(p) \/ (\E v \in Values : CopyH2D(p, v)) \/ CopyD2H(p) \/ CopyDies(p)
    \/ Free(p) \/ SetupArgument(p) \/ LaunchFails(p) \/ LaunchDies(p) \/ LaunchHangs(p)

\* The client closes its connection between two calls, or the process is killed.
Ends(p) == vp[p] # "out" /\ Detach(p)

VirtMemNext ==
    \/ PagerNext
    \/ \E p \in Procs : Attach(p) \/ Allocates(p) \/ Calls(p) \/ Ends(p)

VirtMemSpec == VirtMemInit /\ [][VirtMemNext]_vmVars

\* A process in cudaMalloc runs, and semop serves its waiters in turn; no
\* process has to start or to end, and no client has to call.
VirtMemFairness == \A p \in Procs : WF_vmVars(Allocates(p)) /\ SF_vmVars(MallocP(p))

VirtMemFairSpec == VirtMemSpec /\ VirtMemFairness

----------------------------------------------------------------------------
(* Properties *)

\* Entry 0, the only one that is the table's own, is given out once: two calls
\* at once never read the same counter, and no call brings the counter back to
\* 0, whatever the order in which the processes note their indices.  It is given
\* out again only after mem_map_init or an overrun kernel map has cleared the
\* counter.
FirstEntryOnce == zeros =< 1

\* The process that filled entry 0 and no other reads back what it wrote last,
\* from the device or from the swap area, whether or not cudaMalloc succeeded,
\* and whatever copies other processes make through the same entry, unless the
\* kernel map of a process that started after it wrote has overrun into the
\* entry.  (The entry is no longer its own when mem_map_init comes after the
\* allocation: nothing keeps a serving process from attaching before it; nor when
\* a process takes index 0 after the counter was cleared.)
ReadsBack == \A p \in Procs : Own(p) /\ last # 0 => Brings(p) = last

\* Every cudaMalloc returns (or its process dies) however many processes
\* allocate at once, unless a process was killed with the semaphore taken:
\* P has no SEM_UNDO, so that stops the allocations of the node for good.
MallocReturns == \A p \in Procs : vp[p] \in InMalloc ~> (vp[p] \notin InMalloc \/ lost)
=============================================================================

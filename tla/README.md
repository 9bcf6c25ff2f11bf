# A verification of kidron: remote CUDA execution and its schedulers

Kidron runs the CUDA calls of an application on GPUs of other machines. A
library preloaded into the application (the *interposer*) catches the calls
and sends them over TCP to a *backend*, which has one process per connection
to execute them. A *global scheduler* tells an application which of the known
devices to use; on each machine an *L2 scheduler* (fair share, least attained
service, or the earlier CFS) decides which backend process runs on a GPU, and
a *pager* with a *virtual memory* layer is meant to move allocations in and out
of the device.

This directory models the control of that system in TLA+, checks it with TLC on
small instances, and proves with TLAPS, for every instance, the safety properties
of all components but the connection server.
Paths below are relative to `src/`.

## Inventory

| component | source | state | operations | status |
|---|---|---|---|---|
| remote procedure call | `remote/remote_api_wrapper.c`, `remote/remote_packet.c`, `backend/backend.c` | a connection per (thread, node), the current packet, the two socket streams | `l_do_cuda_rpc`, the `nvbackCuda*_rpc` wrappers, the loop of `backend_thread`, `pkt_execute` | `Rpc`, `RpcService` |
| connection server | `backend/backend.c` and its five earlier versions, `remote/connection.c` | the listening socket, the accepted sockets, who holds a copy of which | bind, accept, fork (twice), thread creation, close, wait | `Server` |
| global scheduler | `Global_Sched/global_sched.c`, the `get_next_device*` functions of `remote/remote_api_wrapper.c` | `BACKEND_DEVICES`, `DEV_RR`, `thread_count_per_device`, `DEVICE_ASSIGNED` of a thread | `CUDA_GET_DEVICE`, end of a connection, seven policies | `GlobalSched` |
| least-attained-service scheduler | `l2scheduler/las_scheduler.c`, the `las_` functions of `backend/libl2scheduler.c` | the table `Scheduler_Data`, a FIFO per listener and per process, a semaphore, `las_lock` | registration, deregistration, report of time, query of priority, the epochs of the control thread | `LasSched` |
| fair-share scheduler | `l2scheduler/fair_share_sched.c`, the `fs_` functions and signal handlers of `backend/libl2scheduler.c` | process table, `sched_index_mut`, pending and blocked signals, a semaphore | registration, deregistration, time slices | `FairShare` |
| CFS scheduler | `l2scheduler/cfs_scheduler.c`, `backend/libcfsscheduler.c` | process table, one real-time signal per process, a semaphore | `add_queue`, `rem_queue`, the round of the control thread | `CfsSched` |
| interposer stubs | `interposer/libci.c` | device tables, current device of a thread, `cuda_err` | every interposed function of the CUDA runtime | `Interposer` |
| fat-binary registry | `interposer/libci.c`, the `Register*_srv` handlers | the stack of handles, the table of host variables; `fatCInfoArr` of each backend process | register and unregister binaries, kernels, variables; launch; copies to and from symbols | `Registry` |
| packing | `interposer/libciutils.c` | a buffer and its count of entries | size, pack and unpack of each structure; the functions that free them | `Packing`, but for the freeing |
| GPU virtual memory, pager | `virtmem/cuda_vmem.c`, `l2scheduler/pager.c`, the `Malloc`, `Free`, `Memcpy`, `Launch` handlers | a table of allocations and a counter in shared memory, the kernel map of a process | create the table, attach, allocate, copy, free, launch | `VirtMem` (what is reachable) |
| configuration | `interposer/libciutils.c`, `interposer/libci.c` | nodes and their devices | `l_getLocalFromConfig`, counting devices | in `Interposer` |
| feedback policies | `remote/remote_api_wrapper.c` | tables of measured times | the pick | in `GlobalSched`, as compiled: without data |
| copies `_back`, `_orig`, `_3dec`; tests; samples; generated pages | | | | not modelled, see the end |

**Interactions.** The application thread calls a stub; the stub fills a packet and
calls a wrapper for the node of the thread's device (`Interposer`); the wrapper writes to
the socket of a connection and, for some methods, waits for the response (`Rpc`). Each
connection is accepted and given a process (`Server`), which executes calls from its own
registry (`Registry`) and the table of allocations that all processes of the machine
share (`VirtMem`). Structures full of pointers travel packed (`Packing`). The first
call of an application sets its device, for which it asks the global scheduler over the
same protocol (`GlobalSched`). A backend process calls the functions of the L2
scheduler from the handler of `SetDevice`, around each call and at its end; these write
to the FIFO of a listener thread and read from one of their own (`LasSched`,
`FairShare`, `CfsSched`: three builds).

Modules meet at narrow interfaces, so each abstracts its neighbours to all that they
may do: a stub of `Interposer` gets any result that `Rpc` allows, an RPC of `Registry`
is one step or a loss, and `LasSched` and `FairShare` take calls at any time.

**What is hard**, in short; `PROJECT.json` lists the hazards one by one, at their lines, with
the properties that cover them.

- *Framing and partial failure.* Nothing on the wire says which request a message
  belongs to, and the wrappers ignore what `l_do_cuda_rpc` returns.
- *Copies of descriptors.* Every fork duplicates sockets; a client sees the end of its
  connection only when the last copy is gone.
- *Races.* The number of devices is written without the lock that protects its use;
  registration with the L2 schedulers takes no lock; `cuda_err` is shared by all threads; the
  index of an allocation is read and incremented in two statements.
- *Signals.* Fair share and CFS put processes to sleep and wake them with signals, which
  may be blocked, lost, or sent to a process that does not sleep.
- *Start-up.* Nobody waits until a scheduler, a pager or a counted node is ready: a call that
  comes between two steps of their start may wait for ever.
- *Crashes.* No semaphore is taken with `SEM_UNDO`; a backend process takes its registry
  with it while the client keeps its own.
- *Agreement of independent walks.* Size, pack and unpack, and the tables of client
  and backend, are kept in step by nothing but symmetrical code.

## Modules

| module | models | notes |
|---|---|---|
| `RpcService` | what remote execution promises | abstract: no packets, streams or servers |
| `Rpc` | client thread, connections, server processes, network | refines `RpcService` by `ImplementsService` |
| `RpcProofs` | proofs about `Rpc` | requests, then responses and refinement |
| `Server` | six versions of the connection server | |
| `GlobalSched`, `GlobalSchedProofs` | `handle_req` threads and the policies | |
| `LasSched`, `FairShare`, `CfsSched` | the three L2 schedulers with their client halves | proofs in `LasSchedProofs`, `FairShareProofs`, `CfsSchedProofs` |
| `Interposer`, `Registry`, `Packing` | the client library and what it shares with the backend | proofs in `InterposerProofs`, `RegistryProofs`, `DataProofs` |
| `VirtMem` | allocation table, pager start-up | proofs in `DataProofs`, with those of `Packing`: what is put away comes back |
| `MC...` | instances for TLC | one for each module above |

An operator that is called a *wrong variant* in a comment is a plausible bug in
the definition that follows it; it is used by no specification. Substituted for
that definition it breaks a property, which shows that the property has force.

Each module has a type invariant (`TypeOK`, in `Server` and `VirtMem` with the name of
the module in front). All are proved but that of `Server`, which TLC finds to
hold on the instance of the module's run; the runs spend their properties on what could be wrong.

### Rpc

One application thread and, per connection, one server. Connections are
thread-specific in the code, so threads share nothing and one is enough.
`cpc` is where the thread is in `l_do_cuda_rpc` (idle, `put_hdr`, `put_pkt`,
`put_buf`, `get_hdr`, `get_pkt`, `get_buf`, exited), `ret` the `ret_ex_val` of its packet,
`rsp` the size in the response header. `spc` is where the server is in its loop,
`sres` what the handler left. `up` and `down` are the streams as sequences of
message parts. The fields `n` and `m` of a part are tags of the model that let the
properties say which call it belongs to; no guard of the code's actions reads
them, except that the server learns the method from the packet, as in the code.
`issued`, `executed` and `returned` are histories.

- `link` is `none`, `open` or `cut`. A cut connection delivers a prefix of what is in
  flight (`Drop`); `put` on it may succeed (data lost), fail (`PutFails`), or raise
  SIGPIPE (`PutKills`); `get` fails once the stream is empty.
- Buffers are abstracted to empty or not. `ReqSize`, `RspBuffer`, `HandlerRets` and
  `Outcomes` list per method what the wrappers send and what the handlers can leave, in
  the build with `PAGER`: for example the handler of `Malloc` never reports a failure,
  and a handler that cannot allocate its response leaves a size without a buffer.
- `Verdict` is the return value of the wrappers.
- `Execute` is a handler, and may never end: the fairness leaves it out. In the build with
  `PAGER` a handler may wait in `open` for a pager that is not there
  (`virtmem/cuda_vmem.c:293`), go round a loop that does not advance (370-380), or wait for the answer
  of an L2 scheduler (`backend/libl2scheduler.c:450-461`), in which case the server of the
  connection sleeps and the call of the client with it. `CallReturns` and `EventuallyExecuted` name
  this exception, a server that from some moment on is always in a handler.

### Server

`kind` chooses the version; a step belongs to one version or to all of them. `listen` and
`fds[c]` are the sets of processes that hold the listening and the accepted socket: a fork
adds the child to the sets of its parent (`Inherits`), an exit or a close removes it.
`backend.c` and `backend_MP.c` fork twice and wait for the middle process only;
`backend_orig.c` forks once; the other three start a thread. `AcceptFails`, `ForkFails`,
`SecondForkFails`, `ThreadCreateFails` are what these versions do when the system call
fails. A thread of `backend_14092012.c` whose connection was never assigned a device follows
a null pointer at its end and takes the process with it: `UnassignedEnds` for an accepted
connection, `NothingEnds` for the thread started after a failed `accept`. A killed server may be
started again; while processes of the earlier one hold the listening socket, or another
program holds the port, `bind` fails, and the result is ignored.

### GlobalSched

One thread per connection. Each of the accesses to shared data is a step: the
unlocked store of `BACKEND_DEVICES` (`Store`), the pick under the mutex (`PickRR`,
`PickRRDivides`, and `PickCheapest` for the other policies), the decrement
under the mutex at the end (`Close`, `CloseUnassigned`). The process dies of a division by zero
or of a NULL `DEVICE_ASSIGNED`. The shipped build calls `get_next_device_RR`; the other policies are
chosen by moving a comment, so `policy` is chosen in `Init` from the constant `Policies`. The cost
array is scaled to integers.

`BACKEND_DEVICES` is taken from the packet, and nothing compares it with the tables: a client may
count up to `MaxDevices` devices, the scheduler has counters for `MaxCounted` of them, and the
weighted policies have rows for `Weights`. A scan past the end of a table may find any value
there (`Cheapest`), a count past the end destroys what lies there (`PickOverruns`, `CloseOverruns`);
`wild` remembers it. `FittingClientsHarmless` says that this needs a client whose own devices do
not fit.

### LasSched

The build with `SCHED_LAS`. Per GPU a listener (`lpc`, `pcd`, `lidx`) and a control
thread (`kpc`, `minval`); per backend process its place in the loop (`ppc`). Since
`las_register_process` runs unlocked, every statement of it is a step that reads
`polling_thread_count` anew, and the increment may use a stale value. A FIFO holds
`FifoCap` messages; a writer waits while it is full. A process in `Mortal` may be
killed anywhere: it keeps the semaphore (no `SEM_UNDO`) and leaves the listener
waiting in `open` if it is to be answered.

A listener starts in two steps: it appends its line to the mapping file (`WriteMapping`), then
clears the `valid` flags and opens its FIFO (`Start`). `las_add_queue` does not wait for that
line. If there is no file yet it dies of `feof(NULL)` (`AddCrash`); if there is one without the
line of its GPU, it sends nothing and reads an answer for ever (`AddLost`), outside the semaphore,
so that only its own call is lost.

A slot keeps its `execution_time` when its process leaves, and `las_register_process` does not
reset it. `inherited` is what a process found in its slot: `ServiceCharged` says that it is
charged with that, and with exactly the time it reports itself. Two processes and three requests
do not free a slot and take it again in the run `las_table`; the theorem covers it.

The code does not survive everything intact. The history variable `broken`
records the circumstances it does not survive, and the properties say that
there are no others:

- `overlap`: two listeners in `las_register_process` at once;
- `reuse`: a slot that is in use is given to a new process (only after the table has wrapped);
- `wrap`: `polling_thread_count` became 0 again: while it is 0 no priorities are computed;
- `late start`: a listener cleared `valid` after processes had registered;
- `crash`: a process was killed inside a `las_` function.

### FairShare

The build with `SCHED_FAIR_SHARE`. Registration is a handshake over FIFOs under a
semaphore, and ends with a SIGALRM whose handler sleeps until SIGSCHED. Signals are
pending, blocked or delivered as the masks of the code say (`alarm`, `sched`, `asleep`): a
process blocks them while it executes a call, sends or receives; `signal_block_all` blocks
all of them in the scheduler.

As in LasSched a listener first writes its line of the mapping file (`WriteMapping`) and then starts.
`fs_add_queue` reads the file before it takes the semaphore: without a file it dies, without the line
it is at `lostP`, takes the semaphore and waits in it for ever (`lost`), and everybody behind it.
`SectionLeft` names this and the two other ways in which a process stays in the section.

**The first slice is the last.** The comments promise a slice to one process after the other
(`backend/libl2scheduler.c:98` and 110-111: "On timer expiry, this handler will be called again";
`l2scheduler/fair_share_sched.c:40-47` and 421-424). The code does something else. The control thread that
gave the slice waits in `sigwaitinfo` for a signal that stays pending elsewhere, and keeps
`sched_index_mut`, so that no thread gives another slice, on any GPU, and every other process that
registers sleeps for ever. This is a defect, not a promise that is kept; it is established by
the theorem `OneSliceEver`, for every instance, rather than by a run. What the code would do after the slice
is not reached by any step and is left out.

### CfsSched

The earlier scheduler, with processes that may be killed and whose ids may be given to new
ones. One signal is a toggle (`awake`, `pend`): its handler waits for the next one. The
control thread goes round the table while the listener changes it, without a lock, reading
`thid`, `process_id` and `signum` in the order of the code. Signals in delivery are bounded
by `MaxPend`, since a share lasts far longer than a delivery.

The scheduler starts in two steps, `Start` (`semget`) and `StartListener` (`mkfifo`, in the
listener thread). `add_queue` that runs between them gets the semaphore, finds no pipe, and waits for
an answer with the semaphore in its hands (`lost`). `QueueCallsReturn` names this window and each
circumstance in which a kill makes others wait: a semaphore nobody holds any more
(`PermitLost`), a listener in a handshake with the dead (`Deaf`), a process taken for a killed one
with the same id (`Mistaken`), and a process put to sleep in its own last share (`Stranded`). A kill
anywhere else is no excuse.

### Interposer

Every function of `libci.c` belongs to one of three kinds: forwarded over RPC, answered from
the tables, passed to the local CUDA library. A stub is several steps, because `cuda_err` is
shared: another thread may store between a stub's store and its return (`overtaken`), or
between `cudaSetDevice`'s call and its test (`split`). `l_getLocalFromConfig` finds the nodes and
the local one among the keys of the configuration; the tables of devices are built by
asking one node after the other, each of which may fail.

`rcudaGetDevice` takes any number the global scheduler sends (`Answers`), also one that is no
device of this application, because the scheduler counts with the number of another client. An entry of the
tables that was not filled is zero, so the thread then works with device 0 of node 0.
`chosen` says that the scheduler had answered with a known device when the thread's current device was
set. The tables are fixed arrays that nothing checks; the model assumes that they have room for the devices
of all nodes and for the answers (`InterposerAssumption`). `res` are the nodes where a thread has
allocated memory, `late` says that it set a device afterwards.

### Registry

The client keeps the handles of the binaries in a stack, of which all functions use the top; every
backend process keeps an array. `loader` is the thread in a constructor or destructor, which
goes through the nodes one RPC at a time. A backend process ends by the loss of its connection,
an unknown handle, a missing or full array, a binary of the old format, or the release of
a binary. `misordered` says that a binary was unloaded out of order, or by another thread.

A binary of CUDA 3.2 is packed in its own format and unpacked as one of CUDA 4
(`remote/remote_packet.c:259`). Either the process dies of it (`r__cudaRegisterFatBinary`) or it
registers what it has read under the handle the client keeps (`RegisterFatBinary`). A launch
then finds an entry with garbage behind it: `LaunchOutcome` and `CopyOutcome` are `garbage`, after
which the process may die or go on. A launch is examined only by a process that gets the
semaphore of the launches (`VirtMem`); one that does not changes nothing. An application that cannot connect
exits (`remote/remote_api_wrapper.c:571-572`), so that a connection is made by the first call or no
call is made at all.

### Packing

An object is a record of sections; `Sections` gives their order for each kind. One step of a
walk handles one section, in the order size, pack, unpack. A buffer is a sequence of
cells with widths, so that a walk that writes or reads one field too many is off by its bytes. Of a
string only the length counts; null is not the same as empty. `l_unpackDep` does not say where to go on
when there are no dependents; nothing is read after them.

### VirtMem

`vmap_table` is a pointer to one array and is indexed as if it were an array of pointers.
Only entry 0 is real. In the layout of the build the counter lies over entry 1,
entry 2 is no address, and index -1 of the local array reads 0, which is why every copy works
on entry 0. The model takes these three facts as the meaning of what C leaves
undefined.

The start of the pager is modelled up to `mem_map_init`, where it dies. `gmt_table` is
declared and indexed in the same way, so its loop either stores 0 into the counter or
meets a null pointer (`l2scheduler/pager.c:19-20`): both are allowed (`Cleared` or not). A process
that attaches sets up a kernel map, for which it clears more memory than it has; what lies behind
may be the shared segments, so that any part of entry 0, and the counter, may be cleared (`Overrun`).
The properties are about what holds in spite of that: `zeros` counts how often the counter was read as
0 since it was cleared last, and `last` is what the owner of entry 0 wrote since the last
overrun. Whether a kernel has arguments is an input of the launch.

## Runs

| run | instance | properties |
|---|---|---|
| `rpc_all` | all 22 methods, 1 connection, 2 calls, 3 parts in flight | `ResponseFits`, `OkWasExecuted`, `Framing`, `InOrderOnce`, `CallReturns`, `EventuallyExecuted`, `ImplementsService` |
| `rpc_data` | 6 methods, 2 calls | violated: `OkDeliversData` |
| `server` | 2 connections, 6 versions, 2 starts, 1 call each | `ClientAccepted`, `EndIsSeen` |
| `gsched` | 3 clients with 2 devices, 1 with 4, 1 without any that asks twice; 3 counters, 2 weights; 5 policies | `Balanced`, `CountsThreads`, `FittingClientsHarmless`, `PicksLeastLoaded` |
| `las_table` | 2 processes, 2 GPUs, 2 slots, 3 requests | `SlotOwned`, `ServiceCharged` |
| `las_live` | 2 processes, 1 GPU, 3 slots, 3 requests, one may be killed | `CallsReturn`, `SlotFreed`, `FavourFollowsService` |
| `fairshare` | 2 processes, 2 GPUs, 2 slots, 2 registrations | `Exclusive`, `Registered`, `SectionLeft` |
| `cfs` | 2 processes, one mortal with 1 reuse of an id, 2 signals | `TogglesInStep`, `ServedInTurn`, `QueueCallsReturn` |
| `interposer` | 2 threads, 2 nodes with 2 and 1 devices, tables of 5, answers 0, 1, 2 and 4; 10 functions of all kinds, 2 calls each | `TablesInverse`, `ErrorIsOwn`, `DeviceKnown`, `RoutedToBound`, `StaysWithMemory` |
| `registry` | 2 threads, 2 nodes, 3 binaries (1 in the old format, 1 with two kernels), room for 1 kernel, 3 loads or unloads | `RegistriesAgree`, `LaunchFound`, `SymbolFound` |
| `packing` | 802 objects: every section with null, empty and other entries, up to 2 of them | `WalksAgree`, `RoundTrip` |
| `virtmem` | 2 processes that may be killed and start again, counter up to 2 | `FirstEntryOnce`, `ReadsBack`, `MallocReturns` |

**Why the bounds are enough.** Two calls on a connection are the least at which
one call can be mistaken for another; three parts in flight let a whole request be in flight
before the server reads it. What the bounds of `Rpc` cut off is covered by the proofs,
which have no bounds. Two connections in `Server` are the least at which one connection's
process can hold a descriptor of the other, and two starts the least for a restart. Three
agreeing clients make the round robin go round their two devices; the one with more devices than
counters makes scans leave the tables, and the one without any makes the division fail; the third
counter is of a device that a wrong count would hand out. Two slots for two processes make a table wrap, and two GPUs
give two listeners, the number that can race; `FifoCap` 1 makes every writer wait. Two
signals for two processes make the CFS numbers wrap. Two threads suffice for each of the races
on `cuda_err`, which are between two. In `Interposer` answer 2 is a device only when the second node could be
counted, and 4 never is. In `Registry` a third binary with two kernels overflows arrays of one, and
three loads or unloads allow load, load, and unload in the wrong order.
In `Packing` two entries are the least for the order of entries, and for one to follow an
empty one. In `VirtMem` a counter up to 2 reaches entries 0, 1 and 2, which differ; all
later ones behave as 2.

**Finding.** `rpc_data`: when the connection breaks between the response packet and its
data, a copy to the host is reported as a success, because the wrappers ignore the return
value of `l_do_cuda_rpc`.

**Exceptions stated in the properties.** Many properties hold only with exceptions,
which are facts about the code a reader should know; each is in the comment at the property.
The most notable ones:

- `OkWasExecuted` leaves out `RegisterFatBinary`: `ret_ex_val` is a union preset to
  `cudaErrorUnknown`, which its wrapper (`remote/remote_api_wrapper.c:899`) takes for a handle when the
  call was lost.
- `CallReturns` and `EventuallyExecuted` leave out a call behind a handler that never returns.
- `CountsThreads` is about connections that ask for a device once; a second request leaks a
  count.
- `PicksLeastLoaded` is about clients that agree on the devices: the number of devices is that of
  whoever stored last, and a scan that starts past it misses some.
- `ServiceCharged`: a process begins with the time an earlier owner left in its slot.
- `CallsReturn`, `SectionLeft`, `QueueCallsReturn`: a process that asks before the scheduler is
  ready waits for ever, with the semaphore in the last two.
- `QueueCallsReturn`: a process that leaves in its own share is put to sleep for ever.
- `DeviceKnown`: an answer of the global scheduler that is no device of the application.
- `LaunchFound`, `SymbolFound`: what is found for a binary of the old format is garbage.
- `SymbolFound` leaves out binaries registered before an unload: unregistering one binary
  drops the table of host variables of all (`interposer/libci.c:2989`), although the comment
  at 1880-1882 relies on every variable being in it.
- `WalksAgree`, `RoundTrip`: an ELF entry of size zero after another
  entry, entries with an empty string, and the lists of debug entries and symbols.
- `ClientAccepted` leaves out a killed server, whose serving processes keep the port.
- `EndIsSeen`: two clients see no end and wait for an answer nobody can give, one whose thread could not be
  created (`backend/backend_MT.c:186` ignores it), and one in the backlog of a listening
  socket that has outlived its server.
- `ReadsBack` ends with a kernel map that overruns the entry, `FirstEntryOnce` counts from the last
  time the counter was cleared.

**Deadlock** is checked in the runs of `Rpc`, `GlobalSched`, `LasSched`, `Interposer`, `Registry`
and `Packing`; where the system may stop for good (the application or the scheduler process is
gone, the walk is done) the model has a step for it. `FairShare`, `CfsSched`,
`Server` and `VirtMem` say `CHECK_DEADLOCK FALSE`, because there the system really stops: the fair-share
scheduler after its only slice, the others when the server, the scheduler or the pager is down
and no client is left. Their liveness properties say who may not be left waiting.

**Fairness.** `Rpc`: weak fairness of the thread inside a call and of each server that is not in
a handler: the operating system schedules them, and a broken connection is noticed by both
ends. Nothing obliges the application to make calls, a handler to return, or the network to
break; a server that a GPU scheduler has put to sleep in a handler is one that does not return.
`LasSched`: strong fairness of each process inside the `las_` functions and of each
thread, because they compete for a System V semaphore, whose waiters are served
in order, and for `las_lock`, which control threads release at once.
`FairShare`: weak fairness of threads and processes that can go on. `CfsSched`: weak fairness of the two
threads and of signal handlers, strong fairness of a process in `add_queue` and `rem_queue`,
which runs only in its shares and waits for the semaphore; the listener thread, once created,
opens its pipe. `Server`: weak fairness of
the accepting process, of serving processes and threads, and of the kernel's reset of orphaned
connections. `VirtMem`: weak fairness of a process inside `cudaMalloc`, strong fairness of its
`semop`. In all of them requests, ends, kills and restarts need not come. `GlobalSched`, `Interposer`,
`Registry` and `Packing` are about safety only. All liveness properties allow for what the code has no answer
to, and say so.

## Proofs

A theorem holds for every value of the constants that its module's named assumption
allows: any number of processes, threads, connections, nodes, GPUs, slots and messages, and
any value of the bounds that the runs need. The assumptions (`RpcAssumption`,
`GlobalSchedAssumption`, `LasAssumption`, `FairShareAssumption`, `CfsAssumption`,
`InterposerAssumption`, `RegistryAssumption`, `VirtMemAssumption`, `PackingAssumption`) say what kind of value each
constant has and that the values for "none" are no processes; TLC evaluates them in every run.
Two theorems ask for more, in their statement: `FewThreads`, fewer connections than the counter of a
device can count (an `int` in the code).

| theorem | says |
|---|---|
| `RpcProofs!TypeCorrect` | `Spec => []TypeOK` |
| `RpcProofs!ExecutedInOrder` | `Spec => []InOrderOnce` |
| `RpcProofs!OkMeansExecuted` | `Spec => []OkWasExecuted` |
| `RpcProofs!ResponsesFit` | `Spec => []ResponseFits` |
| `RpcProofs!StreamsFramed` | `Spec => []Framing` |
| `RpcProofs!ServiceImplemented` | `Spec => ImplementsService` |
| `GlobalSchedProofs!RoundRobinBalanced` | `Spec => []Balanced` |
| `GlobalSchedProofs!RoundRobinKnown` | `Spec => [](policy = "RR" => KnownDevice)` |
| `GlobalSchedProofs!FittingHarmless` | `Spec => []FittingClientsHarmless`, every policy |
| `GlobalSchedProofs!CountersRight` | `Spec => []CountsThreads`, if `FewThreads` |
| `GlobalSchedProofs!LeastLoadedPicked` | `Spec => PicksLeastLoaded`, if `FewThreads` |
| `GlobalSchedProofs!GlobalTypeCorrect` | `Spec => []TypeOK` |
| `LasSchedProofs!LasInvariant`, `LasTypeCorrect` | `Spec => []LasInv`, `Spec => []TypeOK` |
| `LasSchedProofs!SlotsOwned` | `Spec => []SlotOwned` |
| `LasSchedProofs!ServiceIsCharged` | `Spec => []ServiceCharged` |
| `FairShareProofs!SectionExclusive` | `Spec => []Exclusive` |
| `FairShareProofs!OneSliceEver` | `Spec => []OneSlice`: the defect above, one process is ever given a slice |
| `FairShareProofs!TableInOrder` | `Spec => []TableInv` |
| `FairShareProofs!RegisteredOnce` | `Spec => []Registered` |
| `FairShareProofs!FairTypeCorrect` | `Spec => []TypeOK` |
| `CfsSchedProofs!CfsInvariant`, `CfsTypeCorrect` | `Spec => []CfsInv`, `Spec => []TypeOK` |
| `CfsSchedProofs!TogglesStayInStep` | `Spec => []TogglesInStep` |
| `CfsSchedProofs!OneProcessRuns` | `Spec => []OneRuns`: one listed process runs at a time |
| `CfsSchedProofs!SignalsHandedOutOnce` | `Spec => []SignalsOnce`: no signal number is used for two processes |
| `InterposerProofs!TablesAreInverse` | `Spec => []TablesInverse` |
| `InterposerProofs!OwnErrorReturned` | `Spec => []ErrorIsOwn` |
| `InterposerProofs!CurrentDeviceKnown` | `Spec => []DeviceKnown` |
| `InterposerProofs!CallsRouted` | `Spec => []RoutedToBound` |
| `InterposerProofs!StaysAtItsMemory` | `Spec => []StaysWithMemory` |
| `InterposerProofs!InterposerTypeCorrect` | `Spec => []TypeOK` |
| `RegistryProofs!RegistryInvariant` | `Spec => []IInv` |
| `RegistryProofs!StacksAgree` | `Spec => []RegistriesAgree` |
| `RegistryProofs!LaunchesFound` | `Spec => []LaunchFound` |
| `RegistryProofs!SymbolsFound` | `Spec => []SymbolFound` |
| `RegistryProofs!RegistryTypeCorrect` | `Spec => []TypeOK` |
| `DataProofs!VirtMemInvariant`, `VirtMemTypeCorrect` | `VirtMemSpec => []IInv`, `VirtMemSpec => []VirtMemTypeOK` |
| `DataProofs!FirstEntryGivenOnce` | `VirtMemSpec => []FirstEntryOnce` |
| `DataProofs!OwnerReadsBack` | `VirtMemSpec => []ReadsBack` |
| `DataProofs!PackingInvariant`, `PackingTypeCorrect` | `Spec => []PackInv`, `Spec => []TypeOK` |
| `DataProofs!PackingWalksAgree` | `Spec => []WalksAgree` |
| `DataProofs!PackingRoundTrip` | `Spec => []RoundTrip` |

**Requests.** `InOrderOnce` is not inductive: that the next call executed is the right
one depends on what is in the stream. `IInv` therefore says that the parts in `up` form
a chain: the first is the part the server reads next, each is followed by its
successor, and while the connection is open the last is followed by the part the
thread sends next. Each step takes from the head, appends at the end or, on a cut
connection, loses an end of the chain (`ChainTail`, `ChainAppend`, `ChainPrefix`).

**Responses.** `FullInv` adds the same for `down`, which can hold only the response to
the call the thread waits for (`DownInv`); what the server remembers of the last call
executed (`ResInv`); that while the connection is open every synchronous call but the
current one has been executed (`SyncInv`), which is why a response cannot answer an
earlier call; that the packet says `unknown` until a response packet arrives
(`RetInv`), which is why ignoring the return code is harmless for the other methods;
and that the calls which returned are those made (`HistInv`). The refinement follows:
a call is an `Issue`, `Execute` is a `Perform`, and each way to return is an `Answer`.

**Round robin.** `Round` says that the devices below `DEV_RR` have been handed out once more
than the others; a request that is about to pick finds the number of devices that the clients
agree on, since every store writes it. `Balanced` and `KnownDevice` ask only that the
clients that have asked agree; when they disagree, the unlocked `BACKEND_DEVICES` breaks both.

**The tables of the global scheduler.** `FittingHarmless` rests on `SoundInv`: while every client
that has asked fits the tables, `BACKEND_DEVICES` is a number of entries that exist, whoever stored it, and so are
`DEV_RR`, the start of a scan (also for the local device, which another client's number need
not cover) and every device assigned. The types need no such condition: they are about what a
counter that is left in the model's state can be (`GlobalTypeCorrect`).

**Counting policies.** `CountInv` adds to `CountsThreads` that a thread which is about to be
given a device for the first time has none, so that each increment and decrement adds or
removes one thread of `Bound(d)`; `FewThreads` keeps the additions from wrapping. The pick is proved
least by what `Cheapest` says of the devices scanned; that these are all devices of the client needs
clients that agree (`KnownInv`), which is a condition of `PicksLeastLoaded`.

**Least attained service.** `LasInv` has two parts. `TalkInv` holds in every state: a process
has at most one request that is written, served or answered (`AskOnce`), every message matches the
place of its sender (`MsgOk`), and a listener answers the process whose request it
read (`PcdOk`). Without it a second answer could reach a process that asks for its
priority, and it would be taken for an index. `OrderInv` holds while registrations are `Orderly`, that is,
unless `broken` has `overlap`, `reuse` or `late start`: one listener registers at
a time (`OneRegisters`), a process has one slot at most (`OneSlot`), what the listener has
written so far of a slot is there (`RegOk`), the answer on its way names that slot (`GrantOk`),
and of each process one report at most is on the way, ahead of its next request, and is what its
slot lacks of the time served, beyond what it held at the start (`NoteOk`). `SlotOwned` and `ServiceCharged` are
instances of it; the sum over the messages on the way has one term at most.

The types alone do not tell an index from a priority, since 0 is both: that the number which
`las_add_queue` returns was meant as one is part of `SlotsOwned`.

**Fair share.** `Exclusive`: the semaphore is 0 whenever a process is in a place between P and V,
and only a killed process can have left it so. `OneSlice`: the control thread that gave the
slice holds `sched_index_mut` and waits, so no other can give one, and only a given slice
rouses anyone. `Registered`: messages match the places of their senders (`MsgInv`), only processes
that were answered are in the table or get a signal (`PastInv`), and while registrations
do not overlap and there are slots for all, slots are filled in order, each by a process of its own
(`SeatInv`).

**CFS.** The property speaks of parity: a signal that is queued turns a process over, a signal
that is delivered does not (`Toggles`). `ToggleInv` is `TogglesInStep` for all processes that hold
a signal, listed or not. It needs that signal numbers are handed out once (`SignalInv`: the signal on its
way to a new process is later than every one in the table, with a process, or
with the control thread), so that the new process cannot be the one whose share is running,
and that a process has no signal before it is answered (`AskInv`). With it come two facts that
no run checks: at most one listed process runs (`OneRuns`), and no signal stands for two processes
(`SignalsOnce`), since an answer hands out a number later than all others.

**Interposer.** `TabInv` says how far the numbering of devices has come: the devices of
the nodes counted so far are the numbers from 0 on, in the order of the nodes, from lemmas
about the partial sums `Before`. `ErrInv` follows a thread's error from its store to its return.
`BoundInv` relates what the backend was told by `cudaSetDevice` to `CUR_DEV`, and `HomeInv`
the nodes of a thread's memory to where its calls go. The attempt to prove `DeviceKnown` found that an earlier
form of it, which asked whether the last `cudaSetDevice` was answered by the global scheduler, is
false with three calls: the last may be answered and then fail, so that the device of an earlier one,
which was not answered, stays. The history variable `chosen` now belongs to the
`cudaSetDevice` that set the current device.

**Registry.** `IInv` says what every array of a backend process must hold given the client's
stack and the call under way: the thread's rows that the node has heard of (`Held`), each with its
kernels and variables as far as they have been registered. A load or an unload goes through the
nodes one at a time, and each of its calls moves one node from before to after.
The proofs work on the stack as a sequence without repeated binaries. A process that survives a
binary of the old format is under the same invariant: its entry is there,
with garbage behind it. The types hold
whether unloads are in order or not: the entries of a process have handles of their own,
of which there is a fixed number (`EntriesOk`), and the binary being loaded has no variable
until `__cudaRegisterVar` (`BareInv`).

**Virtual memory.** `IInv` says that the semaphore is held from the read of the counter to its
increment (`SectionInv`), unless a process was killed in between (`lost`), which keeps everybody out for
ever. So between two reads as 0 the counter was cleared, or was incremented and stays positive
(`OnceInv`). What the owner of entry 0 wrote last is where the status of the entry says it is, on the
device or in the swap area (`DataInv`). An overrun may come at any start of a process and forgets `last`.

**Packing.** The theorems are about every structure of the types of `Structures`, with lists and
strings of any length. Size and buffer are sums and concatenations over lists, folds of the
community modules; what they do with one entry more (`TotalStep`, `FlatStep`) is proved
by induction in a form that speaks of a set of numbers in place of a predicate
(`SetInduction`, from the well-foundedness of `<`). From it follow that bytes add up over
concatenation (`BytesConcat`), and what a list whose entries take the same number of cells
writes (`Written`) and a reader at the place where it was written gets (`Reread`). For each section
`Good` puts this together: the size suffices, unless the elf entries are mixed, and whoever
reads the section where it begins reads it whole and stops where the next begins. `PackInv` lifts it
to the walks: the sections sized are counted, those written lie in the buffer one
behind the other, those read are what `Good` says, each read at the byte at which it was written.
`RoundTrip` adds where a reader of the list that arrives would stop, from lemmas about `Leading`.

Before its proof each of these invariants was checked by TLC on the instance of the module's run.

*Only model-checked:*

- liveness (`CallReturns`, `EventuallyExecuted`, `CallsReturn`, `SlotFreed`,
  `FavourFollowsService`, `SectionLeft`, `ServedInTurn`, `QueueCallsReturn`, `ClientAccepted`,
  `EndIsSeen`, `MallocReturns`), which needs fairness and `ENABLED`; `Server` has
  only such properties, so nothing of it is proved;
- the violation of `OkDeliversData`.

## Plan

Done: every module above with its run, and a proof of every safety property that a run checks
and the prover can reach. Left, in the order of worth:

1. An abstract specification of the interposer's tables (one finite map from handle to node),
   stated apart and shown to be implemented by `Interposer`.
2. The type invariant of `Server`, whose other properties are about liveness.
3. Step properties: that a fair-share slot once filled is only emptied.

## Not modelled

- *Superseded copies*, nearly half of the lines of C in the repository:
  `interposer/libci_{back,orig}.c`, `interposer/libciutils_{back,orig}.c`,
  `remote/remote_api_wrapper_{back,orig,3dec}.c`, `backend/scheduler.c`, and
  `Global_Sched/backend_*.c`, which are byte by byte those of `backend/`. They repeat the files that are modelled.
- *Tests, samples, printing functions* (`testLibci.c`, `testLibciutils.c`, `l_print*`), generated
  documentation.
- *Code nothing calls*: `__nvback_cudaRegisterFatBinary_srv` for the 3.2 format,
  `r__cudaUnregisterFatBinary2`; batches of more than one packet; the threads of the
  pager, which start after a call that does not return; `gvirt_page_out`.
- *The release of what was packed* (`freeFatBinary` and the like): `freeFatBinary` frees some fields twice,
  and the server calls it for structures of CUDA 4, which are smaller; in `Registry` this is a
  release of which the process may die.
- *What the fair-share scheduler does after its first slice*: no execution reaches it.
- *Feedback*: with `L2_FEEDBACK_ENABLED` the backend would ask the L2 scheduler for measurements
  and the policies would weigh them in floating point; the option is not defined.
- *Data*: the contents of buffers and of device memory, beyond what `ReadsBack` tells apart.
- *A peer that vanishes without its connection being closed*: `recv` has no timeout, so the call would not
  return; the models assume that a broken connection is noticed.
- `setpriority`, logging, the loops over partial `send` and `recv`.

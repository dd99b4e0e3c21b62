# A TLA+ verification of the Borked3DS kernel, run loop and network room

Borked3DS emulates the Nintendo 3DS. Its kernel is not emulated but
reimplemented in C++ ("HLE"): threads, a priority scheduler per emulated core,
mutexes, semaphores, events, timers, address arbiters and the supervisor calls
(SVCs) that operate on them, IPC, handles and memory, in
`src/src/core/hle/kernel`. Around it run the event timing and the loop over the
emulated cores (`src/src/core`), and a multiplayer room over a real network
(`src/src/network`). This directory holds models of these parts, the TLC
configurations that check them on small instances, and TLAPS proofs of facts
that hold for every instance. Paths below are relative to
`src/src/core/hle/kernel` unless they start with another directory.

## 1. The system

| Part | State it keeps | Operations | Hard behaviour |
|---|---|---|---|
| Scheduler (`thread.cpp`) | status, nominal and current priority and wait data of each thread; `thread_list`, `current_thread`, `ready_queue`, `unscheduled_ready_queue` of each core | create, stop, sleep, resume, set and boost priorities, pop, switch, reschedule | who runs after each change; threads ended in the middle of a wait; timeouts against signals |
| Ready queue (`common/thread_queue_list.h`) | a FIFO per priority level, levels chained once used | push, pop, move, remove, prepare | a level that is not linked is invisible; a level looked up with an old priority |
| Wait objects (`wait_object.cpp`) | `waiting_threads` of each object | add, remove, wake all that are ready | waking one thread changes who else is ready |
| Mutex (`mutex.cpp`) | `lock_count`, `holding_thread`, `priority`; `held_mutexes` and `pending_mutexes` of threads | acquire, release, abandon, inherit priority | recursive locking, hand-over, owners that die, stale cached priorities |
| Semaphore, event, timer | `available_count`; `signaled`, reset type; interval | acquire, release / signal, clear / set, cancel, fire | one-shot and pulse resets inside the wakeup loop |
| Address arbiter (`address_arbiter.cpp`) | its own list of waiting threads | wait, signal n or all, time out | a list beside the statuses it has to agree with |
| SVCs (`svc.cpp`) | none | check arguments, call the above, ask for a reschedule | atomic under the HLE lock; calls nested several deep |
| Processes (`process.cpp`, `resource_limit.cpp`) | status, TLS slots, limits | create, run, terminate | threads of a process on several cores |
| Core timing (`core/core_timing.cpp`) | for each core a heap of events, a queue filled by other threads, the ticks executed, the slice and what is left of it | schedule, unschedule, advance, set the next slice, read the clock | a core reads and shortens the slice of another in the middle of it; events that are cancelled while they are in the other queue |
| Run loop (`core/core.cpp`) | running core, the clock of the fastest core | catch up late cores, start a common slice, advance, reschedule and run each | a core that falls behind, or sleeps past an event another core scheduled for it |
| IPC (`*_session.cpp`, `*_port.cpp`, `hle_ipc.cpp`, `svc.cpp`) | sessions and their two ends, pending requests, the client being served, limits of ports | connect, accept, send, reply and receive, close; suspend the client in an HLE handler, work on a host thread | a request whose session, client or server goes away; work that ends after its client did |
| Handle table (`handle_table.cpp`) | objects, generations and the free list threaded through them | create, duplicate, close, look up, clear | a slot used again; generations that wrap |
| Handles in messages (`ipc.cpp`, `hle_ipc.cpp`) | the handles and objects of a request | copy, move, both ways | an object taken from one table before it is in the other |
| Memory (`process.cpp`, `vm_manager.cpp`, `memory.cpp`, `shared_memory.cpp`) | areas of each address space, the FCRAM regions, holdings and counters of each process, thread-local storage slots | allocate, free, alias, protect, share, map blocks, end a process | two books of the same page that must agree; splitting and merging of areas; several steps of which a later one fails |
| Concurrency helpers (`common/*queue.h`, `common/thread.h`) | ring buffers, barriers | push, pop, sync | real host threads |
| Network (`network/room.cpp`, `room_member.cpp`) | members, addresses, states | join, leave, broadcast | real messages |
| Services, video, audio, CPU, front ends | very much | very many | data, I/O, generated code |

How they interact. A guest thread runs on a core until its slice ends or
something calls `PrepareReschedule`. An SVC takes the HLE lock and runs to its
end, so SVCs are atomic to each other; inside one, kernel functions call each
other deeply (`Thread::Stop` wakes joiners, each of which may acquire a mutex,
which boosts a priority, which moves a thread in a ready queue, and so on).
Timeouts and timers come from the event queue, between slices. After its slice,
and at the start of every turn of the loop, each core is rescheduled. Host
threads take part at two places: an HLE handler may work on one and wake its
client through the thread-safe event queue, and the room and its members have
threads of their own. The network is a separate system; it meets the kernel
only through data packets.

What makes each part correct is what the properties of section 4 say: no
wakeup is lost, no thread is on a list it should not be on, mutexes have one
living owner, the ready queue agrees with the statuses, the best thread runs,
waits report what happened, and nothing is left waiting for ever; no event is
lost, early or out of order; a request is answered once and to its sender; a
handle names one object; a page has one holder; room and clients agree on who
is in.

`PROJECT.json` lists every component with what is and is not modelled, and
every hazard of the code at its line.

## 2. Modules

| Module | Models | Runs |
|---|---|---|
| `ThreadQueueList` | `Common::ThreadQueueList`, as operators on a record of linked levels and a FIFO per level; level chaining is kept because it decides what a pop can see | those of `MCKernelSync` |
| `KernelCore` | the state of threads and objects, and the pieces of kernel code that run inside one call: 15 actions, one per function or per turn of a loop | |
| `KernelSync` | the entry points: one action per SVC, the two timing events, the creation of a main thread, `Reschedule`; the specification | |
| `RecursiveLock` | abstract: what a mutex promises, in four actions | |
| `CoreTiming` | `Core::Timing` and `Timing::Timer`, one operator per function | those of `MCRunLoop` |
| `RunLoop` | `System::RunLoop`, what guests, kernel and callbacks do to the timers, host threads | |
| `EventSchedule` | abstract: a set of events to come | |
| `KernelIPC` | ports, sessions, requests, replies, HLE handlers that suspend or go on elsewhere, the end of the client process | those of `MCKernelIPC` |
| `RequestChannel` | abstract: the way of one request | |
| `HandleTable` | `Kernel::HandleTable`, as operators on a record | those of `MCHandlePassing` |
| `HandlePassing` | the tables of processes, SVCs on handles, handles in messages | |
| `AddressSpace` | `VMManager`, as operators on a set of areas | those of `MCProcessMemory` |
| `ProcessMemory` | FCRAM, heap, linear heap, aliases, shared memory, thread-local storage, limits, over the life of processes | |
| `PageMap` | abstract: which page belongs to whom and is mapped where | |
| `Room` | `Network::Room` and `RoomMember`, with ENet between them | those of `MCRoom` |
| `MC*` | constants of the runs | |
| `KernelInvariant` | the inductive invariants of `KernelSync`: definitions only | |
| `KernelSync_proofs` | lemmas about the ready queue's operations; types, and that holders and lock counts agree; the stack of calls, cores and the threads they run, timeouts, dead threads | |
| `KernelLocks_proofs` | locks and lists of waiting threads; `RecursiveLock` is implemented; ready queues and the choice of the next thread | |
| `KernelWakeups_proofs` | lost wakeups, outcomes of waits, arbiters, assertions | |
| `KernelIPC_proofs` | types, requests, sessions; `RequestChannel` is implemented | |
| `RunLoop_proofs` | types, clocks, slices, lockstep, order of events; `EventSchedule` is implemented | |
| `HandlePassing_proofs` | tables, the list of empty slots, generations; descriptors of any number of handles | |
| `ProcessMemory_proofs` | operations on areas page by page, address spaces, thread-local storage, blocks | |
| `Room_proofs` | members, connections, what is under way in the queues and the views of the clients | |

How they compose. `KernelSync`, `KernelIPC` and `ProcessMemory` each extend the
module below them. `RunLoop` extends `CoreTiming` and takes the rest of the
kernel as a guest that schedules and cancels whatever it likes at whatever
moment code of a core runs. `KernelSync` takes the converse view: an event may
fire at any time after it was scheduled, on its core, once, unless it was
cancelled. `ImplementsSchedule` justifies this (with one exception that
`stale_wakeup` shows, see 4.3). `KernelIPC` has its own small thread state,
because a client or a server thread in it is in one of six statuses and mutexes
and priorities play no part. `HandlePassing` has the handles that
`KernelIPC` and `KernelSync` take as identities.

### 2.1 Threads and synchronisation: `KernelCore`, `KernelSync`

The kernel's functions call each other from inside loops over lists that those
calls change. The variable `work` is the stack of the code that is still to
run; its head is the innermost call or loop. As long as it is not empty, only
the head can take a step (every entry point requires `Quiet`, the empty stack),
so a call is atomic to the rest of the system, as under the HLE lock, and none
of its parts can be left out. Invariants about a state the guest can see
therefore say `Quiet => ...`; the others hold between any two steps of kernel
code. Each frame names the C++ function or loop it stands for:

| Frame / action | Code |
|---|---|
| `WakeupAll`, `HighestPriorityReady`, `ReadyToRun` | `WaitObject::WakeupAllWaitingThreads`, `GetHighestPriorityReadyThread`, and the pulse reset of `Event` and `Timer` |
| `Acquire` | `Acquire` of every class of object |
| `AddWaiting`, `RemoveWaiting` | `AddWaitingThread`, `RemoveWaitingThread` of `WaitObject` and `Mutex`, over a list of objects |
| `Callback` | `SVC_SyncCallback::WakeUp`, `AddressArbiter::WakeUp` |
| `Resume`, `Stop` | `Thread::ResumeFromWait`, `Thread::Stop` |
| `UpdateMutexes` | the loop over `pending_mutexes` in `SetThreadPriority` |
| `ReleaseMutexes` | `ReleaseThreadMutexes` |
| `TerminateThreads` | `ThreadManager::TerminateProcessThreads` |
| `ResumeArbitrated` | `ResumeAllThreads`, `ResumeHighestPriorityThread` |
| `BoostStarved`, `PopNext`, `Requeue`, `SwitchContext` | the parts of `ThreadManager::Reschedule` |

An `ASSERT` that fails, a null pointer that is followed or a table lookup that
throws sets `fault` to the message and stops the system. `Faults` lists them
all. The build is a release build: `DEBUG_ASSERT` is empty in it
(`common/assert.h:57-63`), so the code goes on where one would fail. That
concerns `ResumeFromWait` on a thread that is running or dead
(`thread.cpp:303-310`: it returns) and a supervisor call by a thread whose
process has exited (`svc.cpp:2374`: the call is made).

`TerminateProcess` ends all threads of a process and stops the core that calls
it. If another core is running a thread of the process, nothing stops that one:
the thread is `Dead` and remains `current_thread`, and the core runs it in the
same turn (`core.cpp:209-227`; `PrepareReschedule`, `core.cpp:527-530`, stops
the running core only). The constant `TerminatesRunning` says whether guests do
this. The runs have it `FALSE`, and the theorems that need it say so
(`Orderly`); section 4.3 says what happens with `TRUE`. The guard that
`TerminateProcess` gets with `FALSE` is about every core that was not told to
stop; that includes terminations after which the other core would have been
rescheduled before its thread made another call, which would do no harm.

Free choices in the model are: what the guest program calls; which due
event fires and when; which cores are rescheduled when; which starved threads
are boosted; the iteration order of sets ordered by address; whether the main
thread of a process starts at once or sleeps first (`SetupMainThread`,
`MakeSleeper`; a setting in the code).

Variables have the names of the C++ members. `CoreOf`, `OwnerOf`, `ResetType`
and `MaxCount` are members that never change, so they are constants. Three
variables are not members: `outcome` is the R0 of a sleeping thread (what its
wait will return), `acquired` is a history variable (what was acquired for it),
and `cpu` is the core whose code or event runs. `halted` is the set of cores
that were told to stop running guest code (`PrepareReschedule`).

Abstractions: time has no numbers (a timeout is zero, finite or forever), any
core may run or be rescheduled at any time (the order of the code, and more, so
safety holds for the code's order as well). Guest memory, registers, names and
the return values of SVCs except that of a wait are left out. The word an
arbiter tests is left open: the waiting types wait, or nothing happens. Objects
exist from the start and are never destroyed. Threads are created once.
Integers are unbounded; the counts of the runs stay far from 2^31.
`hle_notifier` and the shutdown in `ExitProcess` are not modelled.

### 2.2 Timing and the run loop: `CoreTiming`, `RunLoop`

`RunLoop` is the C++ function cut where the guest, a callback or a host thread
can come in between: `loop`, `step` and `core` say which of its loops runs,
where in its body and for which core; its locals have their own names. Every
core has `event_queue` (a heap in the code, here a set with `Before` and
`Front`), `ts_queue` (events that did not come from the emulation thread),
`slice_length`, `downcount`, `executed_ticks`, `is_timer_sane`. `Execute` is
guest code that takes cycles, at most `Overshoot` more than its slice has;
`GuestCall` is an SVC and `CallbackReturns` the callback of an event, and both
may schedule on any core, also into the past, and cancel. `HostReadsClock` and
`HostPushes` are a thread-safe call of a host thread: it reads the clock of a
core that may be running, without a lock, and pushes later. `RacyTicks` has the
values it can get when it reads each of the three members before or after its
update by one function of the core's thread: `Advance` moves what was executed
from two members to the third, `ForceExceptionCheck` (`core_timing.cpp:193-194`)
takes the same number off two, and `SetNextSlice` (`242-250`) sets two that are
zero one after the other. It has more than these, since it does not look at
which of them runs, and does not have mixtures of members over several such
functions, for a host thread that is suspended between two reads.

Not modelled: the lock of the queue during save states, `downcount_hack`, the
counter of idle cycles, scaling of the clock, the GDB stub and the signals
(shutdown, reset, save, load) that end the loop.

### 2.3 IPC: `KernelIPC`

One action per path through an SVC: `Connect`, `AcceptSession`, `SendToServer`,
`SendToHandler` (answered at once), `SendAndSleep` (`SleepClientThread` with or
without timeout, `RunAsync`), `Reply`, `ReplyAndReceive`, `ReplyAndWait`,
closing either end, `TerminateClients` and `DestroyProcess`; and what comes
later by itself: `AsyncDone`, `ServiceSignals`, `WakeupFires`, `Dispatch`. A
session has `client` and `server` ends that exist or not (`created`, `client`,
`server`, and `DropUnreferenced` for shared pointers), the queue
`pending_requesting_threads`, and `currently_handling`. `asked` is history: what
a thread asked last.

Abstractions: one handle per end of a session (several are in `HandlePassing`);
`ReplyAndReceive` takes any ready object, not the first of the list, and a
signal wakes any waiter, not the best; sessions without a port
(`CreateSession`), `WaitSynchronization` on sessions, errors of the translation
and the end of the server process are not modelled.

### 2.4 Handles: `HandleTable`, `HandlePassing`

`HandleTable` is one operator per function; the free list is threaded through
`generations` as in the code, and `FreeList` follows it. `recent` is history:
the handles issued last. `HandlePassing` translates a descriptor handle by
handle, with `Take` (a move closes), `Look` and `Give` in the code's order.
Messages that would make an emulator with a full table stop (`R_ASSERT`) are
left out, as are the pseudo handles of the current thread and process. The
handles of the model are the words that `Create` makes. `GetSlot` shifts a word
by 15 bits and cuts the result to 16 (`handle_table.cpp:21`), so a word that
differs from a handle in bit 31 alone names the same slot; no handle has this
bit, and no guest of the model invents one. A message to a service
may have the null handle in it, which stands for no object (`hle_ipc.cpp:188`).
`Lost` asks of each handle that was valid when the message was sent whether its object
arrived. A handle that was not may name something when its turn comes: a process
that sends to itself can name the handle that the same message is about to
create.

### 2.5 Memory: `AddressSpace`, `ProcessMemory`

`AddressSpace` works on a set of areas with the code's `SplitVMA`, `CarveVMA`,
`MergeAdjacent`, `UnmapRange`, `ReprotectRange` and `ChangeMemoryState`, each
built from the ones below it. The last three are one loop in the code, written
three times, and one operator here, `Walk`: it changes an area, merges it with
its neighbours, and goes on behind the area that results, whatever that took in. `ProcessMemory` has one action per memory
operation of a process (`HeapAllocate`, `HeapFree`, `LinearAllocate`,
`LinearFree`, `Map`, `Unmap`, `Protect`), of shared memory (`CreateAutomatic`,
`CreateFromHeap`, `MapBlock`, `UnmapBlock`, `DestroyBlock`), and of the life of
threads and processes (`Run`, `CreateThread`, `ExitThread`, `TerminateProcess`,
`DestroyProcess`). A call that fails and changes nothing is left out; one that
fails and leaves something behind is an action or part of one. A process that
goes away takes blocks with it that nobody else names; the destructor of a block
settles with the block's owner, which may be another process that lives, so that
`DestroyProcess` changes the books and areas of others as well (`Settled`; bound:
at most one such block for each other owner).

Guests can break the books, and loading can fail. `Misuse` names nine ways, each a guard that only
applies if the name is not in the set: giving back memory that is lent or that
others see (`frees_lent`, `closes_mapped`, `ends_lending`), unmapping what was
not mapped as a pair (`unmaps_unpaired`), unmapping as a block of shared memory
something that is not one (`unmaps_other`: `SharedMemory::Unmap` does not verify
what is there, as its comment says), mapping anywhere (`maps_anywhere`),
lending a block whose memory is not there (`lends_unready`), more threads than
the base region has pages (`exhausts_base`), and starting a process when there
is not the memory for its code (`loads_short`: `process.cpp:230-245` does not
look at the result of `HeapAllocate`, and the process runs without). With
`Misuse = {}` the guest gives
back what it got, as software that runs on a console does; section 4.3 says
what each of them breaks.

Abstractions: one page stands for code and stack; the code segment is loaded at
once; `LinearAllocate` chooses its address; privileged mapping between
processes, I/O mappings, memory of applets, `is_locked` and the contents of
pages are not modelled. The null process of the constants is an identity that
does not exist at the moment. `MapBlock` does not map a block that came from a heap at
address zero, which `shared_memory.cpp:157-183` would let a guest do if that page
is free.

### 2.6 Network: `Room`

The server's `ServerLoop` handles one event at a time (`ServerStep`): a join
request, a game name, chat, kick and ban, unban, a disconnection. `Destroy`
closes the room. A client is a user thread (`Join`, `CouldNotConnect`,
`Connected`, `Send`, `Leave`, `LeaveReturns`) and a loop thread (`EnterLoop`,
`ReceiveEvent`, `SendPackets`, `Disconnect`) that share `state` and `send_list`.
ENet is external: per peer a queue each way (`up`, `down`), in order and without
loss until the connection breaks. `LoseLink` cuts both queues anywhere, and
each side sees a disconnection in its place. A peer is used again when both
ends are through with it.

Abstractions: nickname, address, game and user name are members of small sets;
password, version and the nickname's characters are one flag, `fit`; the
console ID is the client itself; answers that are only shown to the user,
status messages, the query of the ban list, relayed Wi-Fi packets and the
verification of users are left out; `Connected` merges starting the loop thread
with sending the join request and game info (before the loop sends anything);
`Join` in a session leaves it first; a closed room is not opened again.

The definitions marked "Faulty:" are not part of the specifications. Each is a
plausible mistake in the definition that follows it; `PROJECT.json` ("mutants")
names the property that notices it.

## 3. Plan

Done: everything in the table of section 2; for `KernelSync`, `KernelIPC`,
`RunLoop`, `HandlePassing` and `Room` the safety properties of the runs and the
three refinements are proved, and for `ProcessMemory` that the areas of an
address space tile it and that the books balance, with the exceptions of 5.10
(section 5). Left, in order:

1. Proof of the refinement of `PageMap` by `ProcessMemory`.
2. `MutexPriorityIsBestWaiter` for one mutex, and what the code's inheritance
   does promise along a chain of mutexes.
3. Two server threads on one session: which requests can then be missed (see
   4.3), and what of `RequestChannel` is left.
4. `ThreadQueueChain`: the linked levels of `ThreadQueueList` as pointers,
   refining the set of levels used here.
5. `BoundedQueue`: the bounded queue of `common` under the memory order of the
   code; the barrier.
6. `KernelSync` and `RunLoop` together, for timed waits that end in bounded
   time.

## 4. What is checked

### 4.1 Runs

Constants that give a class no objects remove that class from the instance.

| Run | Instance | Properties | States |
|---|---|---|---|
| `mutexes` | 1 core, 3 threads with 3 priorities, 1 mutex, priorities set to 0 and 3, starvation boost | `TypeOK`, `MutexPriorityIsBestWaiter`, `ReadyQueueExact` | 2.4 M |
| `signals` | 1 core, 3 threads, one-shot event, semaphore with one slot, waits for either or both, arbiter with one address | `NoAssertionFails`, `NoLostWakeup`, `OutcomeTruthful`, `NoStaleTimeout`, `ArbiterListsMirror` | 1.8 M |
| `termination` | 2 cores, 2 processes, shared mutex locked up to twice, waits for it, for a thread's end or for both, one process terminated while the other core runs none of its threads | `NoLostWakeup`, `ListsAndLocks`, `ImplementsLock`, `DeadStayDead` | 1.7 M |
| `scheduling` | 2 cores, pulse timer, starvation boost, one thread the plugin loader withholds | `DispatchesBest`, `OnlyRunningThreadsExecute`, `PromptPreemption` | 1.4 M |
| `progress` | 1 core, 3 threads, 1 mutex, fairness | `KernelReturns`, `TimedWaitsEnd`, `CoresDispatch` | 26 k |
| `timing` | 2 cores, 1 kind of event, slices of 2, overshoot 1, delays 0 and 2, 2 events, 1 host thread, until both cores have reached tick 2 | `TypeOK`, `SlicesFit`, `StepsOfTime`, `ImplementsSchedule` | 4.0 M |
| `ipc` | 2 client threads, 1 server thread, 2 sessions to a port of 2, 2 to a service of 1, fairness | `TypeOK`, `NoAssertionFails`, `NoLostRequest`, `ImplementsChannel`, `HandlersAnswer` | 95 k |
| `handles` | 2 processes, 2 objects, tables of 2 slots, 2 generations, descriptors of up to 2 handles | `TablesSound`, `NothingLostInTransfer`, `HandlesStable` | 39 k |
| `memory` | 2 processes, 2 threads, 2 blocks, 3 pages of application memory, 2 of base memory, heap of 2 pages, 2 permissions | `TypeOK`, `AreasTile`, `Accounting`, `ImplementsPageMap` | 61 k |
| `room` | 2 clients (1 moderator), 2 slots, 2 nicknames, 2 addresses, 3 moves of users, 1 chat or order, 1 broken connection, with and without a ban from the start, fairness | `MembersSound`, `ViewsConverge`, `ListsArriveFirst`, `JoinedIsMember`, `AgreesInTheEnd` | 180 k |
| `stale_wakeup` | 2 client threads, 1 service, the process may end during asynchronous work | `WakeupFindsThread`, violated | 0.1 k to the violation |
| `unmerged` | 1 process, 4 pages of application memory, heap of 3 pages, 2 permissions | `MergeableAreMerged`, violated | 1 k to the violation |

Several properties are conjunctions of named parts: `ListsAndLocks` is
`MutexOwnership` and `WaitListsMirror`; `SlicesFit` is `SliceStopsAtNextEvent`,
`CoresStayTogether`, `NextEventInFuture`; `StepsOfTime` is
`OnlyExecutionTakesTime` and `SharedSlotInOrder`; `TablesSound` is typing,
`FreeListExact` and `StaleHandlesInvalid`; `Accounting` is `FcramConserved`,
`BooksBalance`, `TlsSlotsExact` and that no assertion fails; `MembersSound` is
typing, `MembersDistinct`, `MembersConnected`, `BannedAreOut`;
`ListsArriveFirst` is `ChatFromListed` and that no assertion fails.

What they show:

- Waking threads. `NoLostWakeup`: after any call, no sleeping thread could be
  satisfied. It is the converse of acquiring only what is available
  (`NoAssertionFails`), and both are at risk because a thread that waits for
  all objects is on several lists, and each thread that wakes takes objects
  away from the rest. `WaitListsMirror`: the lists of the objects and those of
  the threads agree, also after threads ended.
- Timeouts. `OutcomeTruthful` relates the result of a wait to what it acquired
  when the timeout and the signal race. `NoStaleTimeout`: no pending timeout
  can hit a thread that runs (and could sleep again) or is dead.
- Mutexes. `MutexOwnership`, `MutexPriorityIsBestWaiter`, and `ImplementsLock`:
  every step of the kernel is a step of `RecursiveLock` or leaves its state
  alone, so a lock changes hands only through being free.
- Scheduling. `ReadyQueueExact` relates statuses, priorities, queue levels and
  the level chain. `DispatchesBest` is about the two pops and the set-aside
  loop. `OnlyRunningThreadsExecute` and `PromptPreemption` say that whoever
  changes who should run has told the core to stop. `PromptPreemption` is about
  the step in which a thread of the running core comes to be ready and better
  than the one that runs there: the core is told to stop in that step. It is
  checked with two cores and says nothing of a thread of the other one.
  `PrepareReschedule` stops the core that runs (`core.cpp:527-530`), so a
  thread that a call on core 0 makes ready on core 1 waits until core 1 is
  rescheduled, which may be the rest of its slice. Nor is the core told to stop
  when its own `Reschedule` boosts starved threads or decides whom to dispatch,
  when the first thread of a process is created (`thread.cpp:436-470`), when
  the plugin loader lets a thread be scheduled again (the property does not
  look at `can_schedule`), and when the priority of a mutex changes that of its
  holder (the instance has no mutex).
- Timing. A slice never reaches past an event of its core, however the event
  got there; a core is ahead of another by at most a slice, the tolerated delay
  and one overshoot for each of the other cores (`MaxLead`; one overshoot in all
  is not enough from three cores on, see 5.5); the clock moves only while a core executes. `ImplementsSchedule`:
  to the outside the heap, the queues of other threads and the loop are a set of
  events that fire once, in order, not early, unless cancelled. In the run events
  of all three origins fire (the core's own, another core's, a host thread's),
  with each delay, and an event of a host thread together with one of the core.
- IPC. `ImplementsChannel`: a request is taken once, answered to its sender, or
  lost because an end of its session or its thread went away, in any order of
  requests, replies, closing and termination. `NoLostRequest`: the server does
  not sleep on a request. `HandlersAnswer`: requests to services end.
- Handles. The free list in the generations loses no slot; a closed handle
  stays closed until all generations were used; no step but closing and moving
  changes what a handle names; an object sent arrives.
- Memory. The areas of a process hold every page once, and free areas are merged,
  so that a search for room finds it; every page of FCRAM has one holder; counters agree with holdings. `ImplementsPageMap` says page by
  page what each call may do: nothing moves, only free memory is given, and
  memory that is given back is not seen by anyone any more.
- Room. The members' lists converge to the room's; nobody who is banned is in;
  what a member hears refers to what it was told before; a client that believes
  it is in is, or is about to hear otherwise; in the end both sides agree.
- Liveness. `KernelReturns` (the nested loops end), `TimedWaitsEnd`,
  `CoresDispatch`, `HandlersAnswer`, `AgreesInTheEnd`.

Deadlock checking is off in five runs, because the system may really stop: when
every process has ended or was terminated (`termination`), when the loop has
reached the bound of time (`timing`), when every thread of the client waits for
a server that waits or has closed its session, or when the process is gone
(`ipc`, `stale_wakeup`), and when users have made all their moves (`room`).

### 4.2 Bounds and fairness

Threads: three are the least that has a holder, a waiter that wakes and one that
does not, and with three priorities a better, a middle and a worse one. One
object of each kind, or two of different kinds, is enough for the interference
in the wakeup loop, because a loop runs over one object and the effects on
others go through the threads that wait for both. `MaxLockCount` bounds
recursive locking, `MayWaitFor` being its guard. `ThreadPrioLowest = 3` stands
for 63 and `BoostFloor` for 40. A thread sleeps and wakes any number of times.

Termination: `TerminatesRunning = FALSE`, for the reason given in 2.1 and 4.3.

Timing: two events are the least that can be out of order or share a time. The
delays 0 and 2 with slices of 2 and an overshoot of 1 give events that are due
at once, in the middle of a slice that was already set, at its end, and late. A
host thread's event may arrive between any two steps. `MaxTime` bounds the
number of turns of the loop, not of steps inside a turn. With 2 both cores get
past the first slice and the event of a host thread, which is at least two slices
away from the clock it read, can fire; with 1 it could not, nor could
one with delay 2. Events are not told apart by what they carry; two values of it
were run with `MaxTime = 1`. `TimersKeepSchedule` covers all bounds.

IPC: two clients make a request pending while another is handled; a service that
takes one session makes the limit of a port bind. The state space is complete:
there is no bound on the number of requests. Handles: tables of two slots fill
up, and three generation numbers (0 is never used) wrap after two creations.
Memory: three pages are the least that fragment (a page in use between two free
ones), and two processes with one block have memory lent and its owner ended. With one
block only, a guest may unmap anything without harm; it takes a second one to
lend the same addresses twice (`unmaps_other`, 4.3).
The run with heap 3 and one permission passes too. Room: three moves of users
include joining twice, or leaving and joining while the room handles the first
departure; with four moves the safety properties were checked as well.

Fairness is assumed by three runs.

- `progress`: kernel code that started goes on (`WF(KernelStep)`): it is
  ordinary sequential code. Every turn of `RunLoop` calls `Advance` and
  `Reschedule` for every core, however many SVCs the guest made in between;
  since an SVC of another core may be in progress at any given moment,
  `Reschedule(c)` and the delivery of a due wakeup event are enabled again and
  again rather than continuously, hence strong fairness. Nothing is assumed of
  the guest program: a thread may compute for ever and never call.
- `ipc`: weak fairness of `Progress(t)`: host code that works for a request
  ends, a wakeup event fires, and a service signals the event it let a thread
  wait for. The last is a promise of the services, which are not modelled.
  Nothing is assumed of clients and servers, so requests to servers may stay
  unanswered.
- `room`: weak fairness of the room's thread for each peer (`ServerStep`), of a
  user's call that has begun (`UserReturns`) and of the client's loop
  (`LoopStep`): they are loops of host threads that poll the network. Users and
  the network do what they like within `MaxMoves`, `MaxSent` and `MaxDown`.

### 4.3 Where code and documentation disagree, and what the models exclude

`stale_wakeup` has TLC find what the code does not keep: `Thread::Stop` cancels
"any outstanding wakeup events" (`thread.cpp:89`), but `UnscheduleEvent` does
not search the queue into which the host thread of an asynchronous request
pushes the wakeup. When the process ends during such work, the wakeup fires for
a thread that is gone, and the lookup by its ID throws before the test for an
invalid thread is reached. The other runs of IPC let the process end only when
no such work is in progress (`TerminateDuringAsync`).

`unmerged` has TLC find two neighbouring areas alike and not merged, although
"no two similar and adjacent regions exist that have not been merged"
(`vm_manager.h:109`). The loops over a range go on with the area behind the one
that was just changed and merged (`vm_manager.cpp:167`, `198`, `227`). If the
merge took in an area of the range that already had the new permissions, that
area is passed over, and with it the look at whether it fits what comes after the
range. Take three pages of a heap, the first for reading and writing and the
others for reading only, and give the first two reading only: the second page is
split off the third, merged into the first, and never compared with the third.
The pages are right, as `ImplementsPageMap` says, and free areas are always merged
(`AreasTile`), because a range that becomes free has no free area in it to pass
over. What goes wrong is that memory of one kind looks like two areas to
`QueryMemory`. The heap of two pages in `memory` has no room for it.

Seen in the models, and not run on their own:

- `SwitchContext` resets the current priority to the nominal one
  (`thread.cpp:161`), so an inherited priority lasts only until the holder is
  dispatched (against `thread.h:205`). The boost of starved threads is a maximum
  with 40 (`thread.cpp:485`), which makes a thread that is better than 40 worse
  (against `thread.h:146`). A wait for all that names a one-shot event twice
  fails the assertion at `event.cpp:40`. A thread that waits for its own end is
  woken by its own `Stop` after it was marked dead (`wait_object.cpp:56`); the
  constant `SelfJoin` excludes it.
- A thread stopped while it waits on an arbiter stays on the arbiter's list, so
  an arbiter shared with another process fails the assertion at
  `address_arbiter.cpp:36` later (this is why `ArbiterListsMirror` is checked
  without termination). A process can be terminated twice through an open
  handle, which fails `process.cpp:120`. `Semaphore::Release` accepts negative
  counts. `MutexPriorityIsBestWaiter` holds for one mutex; inheritance along a
  chain of mutexes is not transitive in the code.
- `TerminateProcess` of a process that another core runs a thread of leaves that
  thread current (2.1). Its next call violates the assertion of `svc.cpp:2374`,
  "Running threads from exiting processes", which only a debug build has; in a
  release build the call is made. With `TerminatesRunning = TRUE` the instance
  of `termination` violates `DeadStayDead` (the dead thread sleeps, and
  `thread.cpp:206` or the wait overwrites `Dead`), `ListsAndLocks` and
  `ImplementsLock` (it waits for a free mutex and becomes its dead holder);
  `NoLostWakeup` holds there too.
- With two server threads on one session `NoLostRequest` fails: a reply without
  objects to wait for frees the session and wakes nobody (`svc.cpp:971-1004`
  against `server_session.cpp:63`). So does `ImplementsChannel`: one thread
  closes the handle while the other waits for the session, and the request that
  wakes the other is taken and lost with the session in the same step. Clients of a session whose server end is
  closed stay in `WaitIPC` for ever (the comment at `server_session.cpp:43` says
  so). Pending requests are served last in, first out.
- A descriptor that moves two handles closes neither (`ipc.cpp:83` and
  `hle_ipc.cpp:191` compare the whole word, which includes the number).
- Guests that break the books (`Misuse`): `frees_lent`, `closes_mapped`,
  `ends_lending` and, with `HEAP_PAGES = 3` and `MAX_ADDRESS = 11`,
  `unmaps_unpaired` violate `ImplementsPageMap`; `frees_lent` violates
  `Accounting` too, as do `maps_anywhere` (the assertion of `process.cpp:396`),
  `lends_unready` (the null block of `shared_memory.cpp:37`) and `exhausts_base`
  (`CreateThread` without a page for thread-local storage leaves the thread
  counted). `loads_short` violates none of the properties; it was run with two pages of
  application memory and without the check for deadlock, because two processes that
  have ended can then hold on to each other's blocks for ever. With two blocks `unmaps_other` violates `ImplementsPageMap`: the
  owner unmaps memory it has lent (`shared_memory.cpp:199-203`), gets other
  memory at those addresses and lends it as well, and the end of the first
  block gives it permission to free what the second one still lends. The five
  that are not named with `Accounting` do not break the books (5.9).
  `ResourceLimit::Reserve` never refuses.
- `Leave` does not return if the loop thread sets the state to joined after
  `Leave` set it to idle (`room_member.cpp:682-684`, `186-191`): the assumption
  that a user's call returns covers the cases where the code lets it. A client
  whose connection breaks before it was answered stays in "joining"
  (`room_member.cpp:241-246`). `send_list` survives from one session to the
  next.

## 5. What is proved

TLAPS proves the following for all values of the constants that satisfy the
named assumptions of the modules: any number of threads, cores, objects,
sessions and priorities, any delays and slices. `CoreAssumption`,
`KindsAssumption`, `SyncAssumption`, `IPCAssumption`, `TimingAssumption`,
`LoopAssumption`, `TableAssumption`, `PassingAssumption` and `RoomAssumption` say
that counts and priorities are in range, that a thread has one core and one
process, and that identities of different kinds differ (also that a callback's
name is no arbiter's, and the null thread is neither a thread nor a session).
Those of the memory modules (`MaxAddressAssumption`, `PermissionsAssumption`,
`MisuseAssumption`, `BoundsAssumption`, `TlsAssumption`, `NullAssumption`) say that sizes are numbers, that there are
finitely many threads and room for a page of thread-local storage for each, and
that the null process, thread and block are none. A theorem that needs more says so in its statement.

The run-checked properties that are proved, and where:

| Property | Theorem | Needs |
|---|---|---|
| `TypeOK` of `KernelSync` | `TypeCorrect` | |
| `OnlyRunningThreadsExecute` | `RunningThreadsExecute` | `Orderly` |
| `NoStaleTimeout` | `TimeoutsCorrect` | |
| `DeadStayDead` | `DeadForGood` | `Orderly` |
| `ListsAndLocks` | `ListsAndLocksCorrect` | `Orderly` |
| `ImplementsLock` | `MutexesAreLocks` | `Orderly` |
| `ReadyQueueExact` | `ReadyQueuesExact` | `Orderly` |
| `DispatchesBest` | `BestDispatched` | `Orderly` |
| `PromptPreemption` | `BetterThreadsPreempt` | `Orderly`, `Mutexes = {}` |
| `NoLostWakeup` | `NoWakeupIsLost` | `Orderly` |
| `OutcomeTruthful` | `OutcomesTruthful` | `Orderly` |
| `ArbiterListsMirror` | `ArbiterListsExact` | `Terminable = {}` |
| `NoAssertionFails` of `KernelSync` | `NoAssertionEverFails` | `Terminable = {}`, `ProperWaits` |
| `TypeOK` of `KernelIPC` | `IPCTypeCorrect` | |
| `NoAssertionFails` of `KernelIPC` | `NoStrayWakeup` | `~TerminateDuringAsync` |
| `NoLostRequest` | `NoRequestIsLost` | `SingleServer` |
| `ImplementsChannel` | `SessionsAreChannels` | `SingleServer` |
| `TypeOK` of `RunLoop` | `LoopTypeCorrect` | |
| `SlicesFit` | `SlicesFitAlways` | |
| `StepsOfTime` | `TimeAndOrder` | |
| `ImplementsSchedule` | `TimersKeepSchedule` | |
| `TablesSound` | `TablesStaySound` | |
| `NothingLostInTransfer` | `NoObjectLost` | |
| `HandlesStable` | `HandlesStayStable` | |
| `AreasTile` | `AreasAlwaysTile` | |
| `Accounting` | `BooksAlwaysBalance` | `InOrder` |
| `TypeOK` of `ProcessMemory` | `MemoryTypeCorrect` | `InOrder` |
| `MembersSound` | `MembersStaySound` | `OwnAddressesOnly` |
| `ViewsConverge` | `MembersKnowEachOther` | |
| `ListsArriveFirst` | `ListsComeFirst` | |
| `JoinedIsMember` | `JoinedAreMembers` | |

The hypotheses are where the code needs them, and each theorem is about the
instances of the run that checks its property. `Orderly`: no process is terminated
while another core runs a thread of it (`TerminatesRunning` is `FALSE`, or
there is one core, or no process can be terminated); without it a thread that is dead
can make calls, TLC finds `DeadStayDead`, `ListsAndLocks` and `ImplementsLock`
violated (4.3), and the invariants the other five rest on do not hold.
`Terminable = {}`: no process is terminated by another one, so that
no dead thread stays on the list of an arbiter (4.3). `ProperWaits`: no thread
waits for its own end and no wait for objects names one twice; both fail an
assertion (4.3). `~TerminateDuringAsync`: what `stale_wakeup` shows does not
happen. `SingleServer`: at most one server thread; TLC finds both properties
violated with two (4.3). `InOrder`: guests free nothing that is lent, make
aliases in the heap only, lend only memory that is ready, and start no thread
when the base region is full; TLC finds `Accounting` violated with any one of
these four allowed (4.3). `OwnAddressesOnly`: no two clients share an address. A
ban adds all addresses of its target and removes the target only
(`room.cpp:461-520`), so another member behind the same address would stay.
Without the hypothesis, everything but this is `MembersStayDistinct`, and that
no banned address gets in is `BannedAreRefused`.

### 5.1 Kernel: the stack of calls

Between two steps of kernel code almost nothing that a guest could observe
holds: a thread is off one list and not yet on the other, a mutex is free and
its holder's list still names it. The invariants therefore say how far the
stack `work` explains what is broken at the moment. They are in
`KernelInvariant`; TLC checked them on the instances of the runs before they
were proved. `Nested` says which frame can be under which (`Stop` only under
the loop that ends a process, nothing but joins of ending threads under a
`WakeupAll`, and so on) and is what all other parts rest on: a call can
interrupt another one only where `Beneath` allows. When the stack is empty the
excuses are gone and what is left is the property of the run. The proofs have
one lemma for each of the 15 steps of kernel code and each entry point.

- Types (`KernelSync_proofs`). `TypeOK` is inductive as it stands. The parts with
  content: a minimum of priorities is a priority (`MinNat`, from the
  well-foundedness of finite sets under inclusion), what is popped or picked
  from a list is a thread, what is pushed on the stack is a frame, a release
  leaves a lock count at zero or more, and no operation on a ready queue leaves
  its levels. `HoldersCorrect` (`HolderIffLocked`): a mutex has a holder exactly
  while it is locked, in every state.
- Cores (`KernelSync_proofs`). `CoreInv`: a core has, queues and picks its own
  threads; one that was not told to stop and is not in `Reschedule` runs a
  `Running` thread or one of an exited process; whoever is to be stopped is of
  such a process or ends itself (`StopsJustified`). Of an exited process
  (`ExitInv`) every thread has ended or is about to, and a core whose current
  thread is of that process was told to stop, or is the one that is ending the threads.
  This needs `Orderly`, and is why such a thread makes no call. `DeadStayDead`
  follows, since only sleeping threads are resumed and only a running one can go to
  sleep. `TimeoutsOfSleepers` needs none of it. `BetterThreadsPreempt` goes through
  the steps that change a status or a priority: without mutexes those are
  `Resume` and the SVCs, which stop the running core, the end of a thread, which
  makes none ready, and the boost and dispatch of a core, which concern threads
  of that core only (`BoostsOwn`).
- Locks (`KernelLocks_proofs`). `LockInv`: `held_mutexes` is what a thread holds,
  or the loop of `ReleaseThreadMutexes` has still to release exactly the rest;
  threads acquire only while they are alive (under `Orderly`). `WaitInv`: a thread on an object's
  list has the object on its own, and the other way round unless it is just
  being added or removed; `pending_mutexes` is exact at all times. Refinement of
  `RecursiveLock` maps each step to acquiring, releasing, the end of the holder
  or a stutter.
- Queues (`KernelLocks_proofs`, second part). `LevelsExact`: each level lists, once, the
  ready threads of that current priority but for those `Reschedule` has in its
  hands. `LevelsLinked`: the levels of a thread's current and nominal priority
  are on the chain, which is what makes it visible to a pop when a boost ends.
  `PicksBest` is `DispatchesBest` from the moment of the pick, with the threads
  that `PopNext` set aside.
- Wakeups (`KernelWakeups_proofs`). `WakeupsPending`: a thread that could take
  what it waits for is about to be resumed, or the list of one of the objects
  is still to be gone through. `WakesResume`: whoever has been chosen is
  resumed by a frame further down. `OutcomeInv` follows a wait from its start
  to the dispatch through `Callback`, `Acquire` and `Resume`. `ArbiterInv` holds
  also with termination, for the threads of live processes. `CallsSound`: an
  object that is about to be acquired is available, a thread that is told of a
  signal still sleeps on objects, one that is resumed sleeps or is ready. Since
  a step of one frame may invalidate what a frame below it relies on, `Sound`
  says what is apart: an object is acquired once per wakeup, and threads that
  leave their lists while others are woken are dead.

### 5.2 IPC

`KernelIPC_proofs`. `Counts`: the number of sessions of a port agrees with those
that exist and stays within the limit. `ThreadsInv` ties the status of a thread
to the wakeups that are under way for it (`WakeupOf`), to the request it made
(`RequestOf`) and that to the lists of its session (`RequestsOf`); this is what
shows that a timer, an async section or a signal finds the wait it was meant
for (`NoStrayWakeup`). `SessionsInv` keeps sessions that are named alive:
`DropUnreferenced` ends no session that a handle, a queue, a handler or a wait
holds. `NoRequestIsLost` adds that a thread that sleeps on a session has nothing
to take from it, and `SessionsAreChannels` maps each action to the steps of
`RequestChannel`, one request at a time.

### 5.3 Timers: clocks and slices

`RunLoop_proofs`. `Located` relates `loop`, `step`, `core` and the locals of
`RunLoop`. `Sanity` says when a timer is sane and whose slice is over; with it
`GetTicks` does not move in any step but `Execute` and `IdleCore`
(`ClocksStep`), although `Advance` moves cycles from the slice to
`executed_ticks` and `ForceExceptionCheck` shortens both `slice_length` and
`downcount`. `NothingDue`: after `Advance` the remaining events are in the
future, so that the assertion of `GetMaxSliceLength` holds when the loop asks.
`SlicesBounded`: a slice that is not used up ends at the core's first event or
before.

### 5.4 Timers: events

`Ids` (`EventsOrdered`): identities are distinct over all queues, and in each queue
`fifo_order` agrees with the order of scheduling for events that came the same
way; `MoveEvents` keeps this because it renumbers in the order of `ts_queue`.
It gives `SharedSlotInOrder`, and that the refinement to `EventSchedule` maps
two events never to one.

### 5.5 Timers: the cores stay together

`LockstepCorrect`. After a round each core ran a slice that is no longer than
what the core before it used, so lags add up: a core that overshoots lets the
next run as long and overshoot again, and a core that catches up may pass the
one it follows. The invariant `Spread` says that the cores can be ranked, each
with a rank of its own, such that none is behind any other by more than
`MAX_SLICE_LENGTH + MIN_DELAY` and one overshoot per rank. While one core
catches up alone, a second ranking, with that core at rank 0, is ready for the
case that it passes the others (`RanksWhenOneRuns`); after a round of all cores
the ranking is by distance from the one that leads (`RanksWhenAllRan`). It
follows that `CoresStayTogether` holds with one overshoot for each of the other
cores. The bound with a single overshoot, which two cores keep, is violated by
three: TLC finds a run, and finds none with the bound as it is now, which three
cores reach.

### 5.6 Handles

`HandlePassing_proofs`. `TableInv` says of a table that its empty slots are
`s[1], ..., s[n]` in the order of the list (`Chained`): each once, the first in
`next_free_slot`, and each but the last with the next in place of its
generation. `Create` takes the first off, `Close` puts one in front, and since
the slot that is closed is not on the list, `n` was below `MAX_COUNT`
(`SomeSlotInUse`, by counting). That `FreeList` is this `s`
(`FreeListOfChain`) is `FreeListExact`. `InSequence`: generations are issued one
after the other and wrap to 1, so of the handles remembered the i-th is that many
generations old; a slot that gets the generation of a handle given up is
possible only for the oldest, which is forgotten at that moment (`NextIsNew`).
This is what keeps stale handles invalid, and what a generation that does not
move would break.

A descriptor of any number of handles is a function defined one argument after
the other. Such a definition is a `CHOOSE`; that there is a function to choose
is `Iteration`, and `UpTo` is induction up to a number, from the
well-foundedness of finite sets under inclusion. The invariant along the
descriptor (`Arrived`) is that all handles of all processes still name what they
named, and that what was given so far names what was sent; a descriptor that
closes has one handle only (`Closes`), so no handle of a message is closed
before it is looked up. `NoObjectLost` and `HandlesStayStable` follow for any
number of processes, slots, generations and handles in a message, also for a
process that sends to itself.

### 5.7 Rooms

`Room_proofs`. What a client knows, what is in its queue and who is in the room
only make sense together, so `RoomInv` is about all three. `Links` says that
the ends of a connection agree: if the server is through with it, or will be
when it reads the end of what the client sent, the queue to the client ends
with a disconnection, and the other way round. Everything that ends a connection
(`HangUp`, `Dismiss`, `HandleClientDisconnection`, `LoseLink`, `Destroy`) has to
keep this, with any part of a queue lost. `Ends`: a peer that a client has is
the client's alone. `Owned`: the requests to join that are under way on a
connection, still in `send_list` from an earlier session or already granted,
are all of one client, which is why a connection is never given two members
(`MembersInv`), although nothing in `HandleJoinRequest` compares connections.
`Views` is about the list that the client will have after the n-th message of
its queue (`Latest`): after the last one it is the room's, unless the client is
to be told that it is out; before each chat message it has the sender; before
the news of success it is not empty. Each kind of change of a queue (appended,
cut off, taken from, told of its end) has a lemma that it keeps `ViewSound`,
and each action is made of those.

### 5.8 Memory

`ProcessMemory_proofs`. `AreasTile` holds whatever the guest does (every
`Misuse`), and needs no book to balance. An address space is seen page by page:
`Page` is what backs a page, its permissions and state, and `Bounds` are the
bases of the areas. Splitting and merging have lemmas that say what they do to
both; mapping, unmapping and the loops have lemmas that say which pages they
take or free, and that the areas still tile the space (`Tiled`) with the free
ones merged (`FreeMerged`).

Merging puts one area in the place of two (`OneForTwo`) and changes no page;
`FreeMergedBut` is what holds while an area has changed and was not merged with
its neighbours yet. The loops of `UnmapRange`, `ReprotectRange` and
`ChangeMemoryState` go on behind the area that results (`Onward`), so they can
pass over an area that was just merged into it (the finding of 4.3). `Underway`
therefore does not say what the loop has done to each page, only that the space
is tiled and merged, that free pages stay free, and that no loop but that of
`UnmapRange` frees one.

What is left to show is that the operations are called on ranges that exist. A
heap, linear heap or alias that is mapped must not take in a page that another
part of the space relies on. `MemoryInv` therefore says that the page behind
the heap (`HEAP_VADDR_END`, of the shared memory page) is always free, so heap
and linear heap never become one area and no loop runs from one to the other;
that nothing is mapped behind the pages of thread-local storage a process has;
that each slot in use is a thread's (`SlotsOwned`), so that there are no more
pages than threads (`TlsRoom`) and the next one fits; and that the blocks of
shared memory have sizes that fit where they can be mapped (`BlockFits`). What
goes over the areas of a range or the blocks of an allocation is a function
defined one step after the other, as in 5.6 (`Iteration`, `UpTo`); the areas in
ascending order are found by their rank.

### 5.9 Memory: the books

Also in `ProcessMemory_proofs`. `Accounting` says that each page of FCRAM has one
holder, that `memory_used` and the limit agree with what is held, and that slots
of thread-local storage belong to one thread each; `BooksInv` is the invariant.
Its parts:

- `Parted`: the free blocks, the processes and the blocks of shared memory hold
  every page, each once. Whatever a call does with memory is a move of a set of
  pages from one holder to another (`ProcessMoves`, `BlockMoves`, `ClosesParted`).
- `ProcessHolds`. `Accounting` alone is not inductive: `HeapFree` frees what
  backs a range of addresses, and takes the size of the range off the books.
  That the two agree needs `Backed`: each page of the heap that is the process's
  own (`Private`, `Aliased` or `Locked`) and each of the linear heap is backed by
  a page that the process holds, no two by the same one, and in the linear heap
  by the page that belongs to the address. Operations that map no new memory
  can only lose such pages (`Shrunk`), which is what makes most of them simple;
  `WithMemory` gives each its place (`Seated`).
- `BlockHolds`: an automatic block holds as many pages as it says, one of the
  heap none. `Closes` is what `DestroyBlock` and `DestroyProcess` have in common:
  some blocks go, some processes go, and the owners that are left are no longer
  charged.
- `NumbersInv` and `TlsInv`: the sums. The limit on blocks counts at least those
  whose owner exists; it may count more, because blocks whose owner is gone are
  never given back (`shared_memory.cpp:29-33`).

The invariant was found in proving it, and the model was wrong on the way: in
its first form `DestroyProcess` settled only with the process that ended, and
the lemma for it could not be proved, because blocks of other owners that are
closed with its handles have to be returned to those owners.

`InOrder` is all that is needed: guests may unmap what does not belong together
or is no shared memory, close blocks that are mapped, end while they lend and be
loaded without their code, and the books still balance, although other processes then see memory that is
free.

### 5.10 Only model-checked

- Liveness (`KernelReturns`, `TimedWaitsEnd`, `CoresDispatch`, `HandlersAnswer`,
  `AgreesInTheEnd`): fairness and `ENABLED` are beyond this prover.
- `ImplementsPageMap`: the books are the part of it that says who holds a page.
  The rest, that no page is freed while somebody still sees it, needs to know of
  each alias and each mapping what it belongs to.
- `MutexPriorityIsBestWaiter`, which holds only where there is one mutex (4.3).

## 6. Not modelled

See "components" in `PROJECT.json`; what is left out of a modelled part stands
under "abstractions" in section 2. Instruction execution, rendering, audio, file
systems, front ends, save states and vendored code are data, I/O or generated
code, with little control of the kind a state machine clarifies; they are by far
most of the repository's lines (resource tables, vendored libraries, shader
compilers, renderers). The HLE services are several hundred commands, each
mostly data; those of APT and the DSP pipes have state machines that could be
added on top of `KernelIPC`.

------------------------------ MODULE KernelSync ------------------------------
(***************************************************************************)
(* The entry points of the HLE kernel's threading and synchronisation: the *)
(* SVCs a guest thread calls (core/hle/kernel/svc.cpp), the two timing     *)
(* events (thread wakeup, timer), the main thread of a process, and        *)
(* ThreadManager::Reschedule.  The guest program is any sequence of these  *)
(* calls by the threads that hold a core.                                  *)
(***************************************************************************)
EXTENDS KernelCore

CONSTANTS
    MainThread,         \* the main thread of each process
    InitialPriority,    \* the priority each thread is created with
    SetPriorities,      \* what SetThreadPriority may be called with
    InitialCount,       \* Semaphore::available_count at creation
    ReleaseCounts,      \* what ReleaseSemaphore may be called with
    WaitLists,          \* the handle lists WaitSynchronizationN is called with
    SelfJoin,           \* may a thread wait for its own end
    Timeouts,           \* the nanoseconds of waits: zero, finite, forever
    ArbitrateCounts,    \* the value of a signalling ArbitrateAddress
    Terminable,         \* the processes that may be terminated
    TerminatesRunning,  \* may one be, while another core runs a thread of it
    Pluggable,          \* the threads whose can_schedule the plugin loader sets
    MaxLockCount        \* bound on recursive locking

ASSUME SyncAssumption ==
    /\ MainThread \in [Processes -> Threads]
    /\ \A p \in Processes : OwnerOf[MainThread[p]] = p
    /\ InitialPriority \in [Threads -> Priorities]
    /\ SetPriorities \subseteq Priorities
    /\ InitialCount \in [Semaphores -> Int]
    /\ \A s \in Semaphores : InitialCount[s] <= MaxCount[s]
    /\ ReleaseCounts \subseteq Int
    /\ WaitLists \subseteq Seq(Objects)
    /\ SelfJoin \in BOOLEAN
    /\ Timeouts \subseteq {"zero", "finite", "forever"}
    /\ ArbitrateCounts \subseteq Nat \cup {-1}
    /\ Terminable \subseteq Processes
    /\ TerminatesRunning \in BOOLEAN
    /\ Pluggable \subseteq Threads
    /\ MaxLockCount \in Nat \ {0}

Init ==
    /\ status = [t \in Threads |-> "Free"]
    /\ nominal_priority = InitialPriority
    /\ current_priority = InitialPriority
    /\ can_schedule = [t \in Threads |-> TRUE]
    /\ wait_objects = [t \in Threads |-> <<>>]
    /\ held_mutexes = [t \in Threads |-> {}]
    /\ pending_mutexes = [t \in Threads |-> {}]
    /\ wakeup_callback = [t \in Threads |-> "none"]
    /\ wait_address = [t \in Threads |-> 0]
    /\ waiting_threads = [o \in Objects |-> <<>>]
    /\ lock_count = [m \in Mutexes |-> 0]
    /\ holding_thread = [m \in Mutexes |-> NoThread]
    /\ mutex_priority = [m \in Mutexes |-> 0]
    /\ available_count = InitialCount
    /\ signaled = [e \in Signals |-> FALSE]
    /\ periodic = [e \in Timers |-> FALSE]
    /\ arb_waiting = [a \in Arbiters |-> <<>>]
    /\ thread_list = {}
    /\ current_thread = [c \in Cores |-> NoThread]
    /\ ready_queue = [c \in Cores |-> EmptyList(Priorities)]
    /\ unscheduled_ready_queue = <<>>
    /\ wakeup_events = {}
    /\ timer_events = {}
    /\ cpu = 0
    /\ halted = {}
    /\ exited = {}
    /\ outcome = [t \in Threads |-> "none"]
    /\ acquired = [t \in Threads |-> {}]
    /\ work = <<>>
    /\ fault = NoFault

Quiet == work = <<>> /\ fault = NoFault

(* Core c executes guest code of its current thread t, which calls an SVC. *)
(* CallSVC does not look whether t is dead: its DEBUG_ASSERT is empty.     *)
Svc(c, t) ==
    /\ Quiet
    /\ c \notin halted
    /\ t = current_thread[c]
    /\ t # NoThread
    /\ cpu' = c

(* Thread::WakeAfterDelay: -1 waits forever.                               *)
WakeAfterDelay(t, timeout) ==
    wakeup_events' = IF timeout = "forever" THEN wakeup_events
                                            ELSE wakeup_events \cup {t}

(***************************************************************************)
(* Waiting.                                                                *)
(***************************************************************************)
(* The wait can be satisfied without sleeping, by acquiring the objects os.*)
Grants(t, os) ==
    /\ work' = [i \in 1..Len(os) |-> Acquire(os[i], t)]
    /\ UNCHANGED <<status, wait_objects, wakeup_callback, outcome, wakeup_events, halted>>

(* The thread goes to sleep on the objects os.                             *)
Sleeps(c, t, os, newStatus, timeout) ==
    /\ timeout # "zero"
    /\ status' = [status EXCEPT ![t] = newStatus]
    /\ wait_objects' = [wait_objects EXCEPT ![t] = os]
    /\ work' = <<AddWaiting(t, os)>>
    /\ WakeAfterDelay(t, timeout)
    /\ wakeup_callback' = [wakeup_callback EXCEPT ![t] = "sync"]
    /\ outcome' = [outcome EXCEPT ![t] = "Timeout"]
    /\ PrepareReschedule(c)

(* What a guest thread may pass: handles of threads that exist, its own    *)
(* only if SelfJoin; and recursive locking stays within the model's bound. *)
MayWaitFor(t, os) ==
    /\ \A x \in Threads \cap Range(os) : status[x] # "Free" /\ (x = t => SelfJoin)
    /\ \A m \in Mutexes \cap Range(os) :
          holding_thread[m] = t => lock_count[m] < MaxLockCount

(* WaitSynchronization1, and WaitSynchronizationN without wait_all: the    *)
(* first available object is taken.                                        *)
WaitSynchronizationAny(c, t, os, timeout) ==
    LET available == {i \in 1..Len(os) : ~ShouldWait(os[i], t)}
    IN  /\ Svc(c, t)
        /\ MayWaitFor(t, os)
        /\ IF available # {}
           THEN Grants(t, <<os[Min(available)]>>)
           ELSE Sleeps(c, t, os, "WaitSynchAny", timeout)
        /\ UNCHANGED <<mutex_priority, prioVars, ownVars, waiting_threads, pending_mutexes,
                       countVars, timer_events, periodic, runVars, lifeVars, arbVars,
                       setupVars, acquired, fault>>

(* WaitSynchronizationN with wait_all: all the objects or none.            *)
WaitSynchronizationAll(c, t, os, timeout) ==
    /\ Svc(c, t)
    /\ MayWaitFor(t, os)
    /\ IF \A o \in Range(os) : ~ShouldWait(o, t)
       THEN Grants(t, os)
       ELSE Sleeps(c, t, os, "WaitSynchAll", timeout)
    /\ UNCHANGED <<mutex_priority, prioVars, ownVars, waiting_threads, pending_mutexes,
                   countVars, timer_events, periodic, runVars, lifeVars, arbVars,
                   setupVars, acquired, fault>>

(* SleepThread: a zero sleep with no ready thread returns at once.         *)
SleepThread(c, t, timeout) ==
    /\ Svc(c, t)
    /\ timeout = "zero" => get_first(ready_queue[c]) # NoThread
    /\ status' = [status EXCEPT ![t] = "WaitSleep"]
    /\ WakeAfterDelay(t, timeout)
    /\ PrepareReschedule(c)
    /\ UNCHANGED <<mutex_priority, prioVars, ownVars, waitVars, countVars, timer_events,
                   periodic, runVars, lifeVars, arbVars, setupVars, replyVars, work, fault>>

(***************************************************************************)
(* Signalling.                                                             *)
(***************************************************************************)
(* Faulty: anyone may release.                                             *)
ReleaseByAnyone(c, t, m) ==
    /\ Svc(c, t)
    /\ lock_count' = [lock_count EXCEPT ![m] = @ - 1]
    /\ work' = <<WakeupAll(m)>>
    /\ UNCHANGED <<status, mutex_priority, held_mutexes, holding_thread, prioVars, halted,
                   waitVars, countVars, timeVars, runVars, lifeVars, arbVars, setupVars,
                   replyVars, fault>>

(* Mutex::Release by the holder.  Any other caller gets an error and       *)
(* changes nothing.                                                        *)
ReleaseMutex(c, t, m) ==
    /\ Svc(c, t)
    /\ holding_thread[m] = t
    /\ lock_count[m] > 0
    /\ lock_count' = [lock_count EXCEPT ![m] = @ - 1]
    /\ IF lock_count[m] = 1
       THEN /\ held_mutexes' = [held_mutexes EXCEPT ![t] = @ \ {m}]
            /\ BoostPriority(t, BestPriority(t, held_mutexes'[t], mutex_priority))
            /\ holding_thread' = [holding_thread EXCEPT ![m] = NoThread]
            /\ work' = <<WakeupAll(m)>>
            /\ PrepareReschedule(c)
       ELSE UNCHANGED <<held_mutexes, prioVars, holding_thread, work, halted>>
    /\ UNCHANGED <<status, mutex_priority, waitVars, countVars, timeVars, runVars, lifeVars,
                   arbVars, setupVars, replyVars, fault>>

(* Semaphore::Release; the count may be any s32.                           *)
ReleaseSemaphore(c, t, s, count) ==
    /\ Svc(c, t)
    /\ MaxCount[s] >= count + available_count[s]
    /\ available_count' = [available_count EXCEPT ![s] = @ + count]
    /\ work' = <<WakeupAll(s)>>
    /\ UNCHANGED <<status, mutex_priority, prioVars, ownVars, waitVars, signaled, timeVars,
                   runVars, halted, lifeVars, arbVars, setupVars, replyVars, fault>>

(* Event::Signal.                                                          *)
SignalEvent(c, t, e) ==
    /\ Svc(c, t)
    /\ signaled' = [signaled EXCEPT ![e] = TRUE]
    /\ work' = <<WakeupAll(e)>>
    /\ UNCHANGED <<status, mutex_priority, prioVars, ownVars, waitVars, available_count,
                   timeVars, runVars, halted, lifeVars, arbVars, setupVars, replyVars, fault>>

(* ClearEvent and ClearTimer.                                              *)
ClearSignal(c, t, e) ==
    /\ Svc(c, t)
    /\ signaled' = [signaled EXCEPT ![e] = FALSE]
    /\ UNCHANGED <<status, mutex_priority, prioVars, ownVars, waitVars, available_count,
                   timeVars, runVars, halted, lifeVars, arbVars, setupVars, replyVars, work,
                   fault>>

(* Timer::Set: the pending event is dropped; without an initial delay the  *)
(* timer fires at once, and is armed again only if it has an interval.     *)
SetTimer(c, t, e, delayed, interval) ==
    /\ Svc(c, t)
    /\ periodic' = [periodic EXCEPT ![e] = interval]
    /\ timer_events' = IF delayed \/ interval THEN timer_events \cup {e}
                                              ELSE timer_events \ {e}
    /\ signaled' = IF delayed THEN signaled ELSE [signaled EXCEPT ![e] = TRUE]
    /\ work' = IF delayed THEN <<>> ELSE <<WakeupAll(e)>>
    /\ UNCHANGED <<status, mutex_priority, prioVars, ownVars, waitVars, available_count,
                   wakeup_events, runVars, halted, lifeVars, arbVars, setupVars, replyVars,
                   fault>>

(* Timer::Cancel.                                                          *)
CancelTimer(c, t, e) ==
    /\ Svc(c, t)
    /\ timer_events' = timer_events \ {e}
    /\ UNCHANGED <<status, mutex_priority, prioVars, ownVars, waitVars, countVars,
                   wakeup_events, periodic, runVars, halted, lifeVars, arbVars, setupVars,
                   replyVars, work, fault>>

(***************************************************************************)
(* Threads and processes.                                                  *)
(***************************************************************************)
(* KernelSystem::CreateThread for a thread made ready at once.             *)
MakeThread(t) ==
    /\ status[t] = "Free"
    /\ status' = [status EXCEPT ![t] = "Ready"]
    /\ thread_list' = thread_list \cup {t}
    /\ ready_queue' = [ready_queue EXCEPT ![CoreOf[t]] =
          push_back(prepare(@, InitialPriority[t]), InitialPriority[t], t)]
    /\ UNCHANGED <<mutex_priority, current_priority, ownVars, waitVars, countVars, timeVars,
                   runVars, exited, arbVars, setupVars, replyVars, work, fault>>

(* SVC CreateThread: a thread of the caller's process.                     *)
CreateThread(c, t, new) ==
    /\ Svc(c, t)
    /\ OwnerOf[new] = OwnerOf[t]
    /\ MakeThread(new)
    /\ PrepareReschedule(c)

(* CreateThread for a main thread with a delayed start: it sleeps first.   *)
MakeSleeper(t) ==
    /\ status[t] = "Free"
    /\ status' = [status EXCEPT ![t] = "WaitSleep"]
    /\ thread_list' = thread_list \cup {t}
    /\ ready_queue' = [ready_queue EXCEPT ![CoreOf[t]] = prepare(@, InitialPriority[t])]
    /\ wakeup_events' = wakeup_events \cup {t}
    /\ UNCHANGED <<mutex_priority, current_priority, ownVars, waitVars, countVars,
                   timer_events, periodic, runVars, exited, arbVars, setupVars, replyVars,
                   work, fault>>

(* SetupMainThread, when a process is loaded; the start is delayed or not. *)
SetupMainThread(p) ==
    /\ Quiet
    /\ p \notin exited
    /\ MakeThread(MainThread[p]) \/ MakeSleeper(MainThread[p])
    /\ UNCHANGED cpuVars

(* SVC ExitThread.                                                         *)
ExitThread(c, t) ==
    /\ Svc(c, t)
    /\ work' = <<Stop(t)>>
    /\ PrepareReschedule(c)
    /\ UNCHANGED <<status, mutex_priority, prioVars, ownVars, waitVars, countVars, timeVars,
                   runVars, lifeVars, arbVars, setupVars, replyVars, fault>>

(* SVC SetThreadPriority on any thread x that has a handle: SetPriority,   *)
(* then UpdatePriority, then the mutexes x waits for.                      *)
SetThreadPriority(c, t, x, p) ==
    LET q == CoreOf[x]
        best == Min({p} \cup {mutex_priority[m] : m \in held_mutexes[x]})
    IN  /\ Svc(c, t)
        /\ status[x] # "Free"
        /\ nominal_priority' = [nominal_priority EXCEPT ![x] = p]
        /\ current_priority' = [current_priority EXCEPT ![x] = best]
        /\ ready_queue' = [ready_queue EXCEPT ![q] =
              IF status[x] = "Ready"
              THEN move(move(@, x, current_priority[x], p), x, p, best)
              ELSE prepare(prepare(@, p), best)]
        /\ work' = <<UpdateMutexes(pending_mutexes[x])>>
        /\ PrepareReschedule(c)
        /\ UNCHANGED <<status, mutex_priority, ownVars, waitVars, countVars, timeVars, runVars,
                       lifeVars, arbVars, can_schedule, replyVars, fault>>

(* KernelSystem::TerminateProcess (ExitProcess is the case p = t's own):   *)
(* core by core.  A process terminates once.  It does not stop the other   *)
(* cores: one that runs a thread of the process goes on with it until it is*)
(* rescheduled, unless the guest sees to it that none does.                *)
TerminateProcess(c, t, p) ==
    /\ Svc(c, t)
    /\ TerminatesRunning \/ \A d \in Cores \ (halted \cup {c}) :
          current_thread[d] # NoThread => OwnerOf[current_thread[d]] # p
    /\ IF p \in exited
       THEN /\ fault' = "Process has already exited"
            /\ UNCHANGED <<exited, work>>
       ELSE /\ exited' = exited \cup {p}
            /\ work' = [i \in 1..NumCores |-> TerminateThreads(i - 1, p)]
            /\ UNCHANGED fault
    /\ UNCHANGED <<status, mutex_priority, prioVars, ownVars, waitVars, countVars, timeVars,
                   runVars, halted, thread_list, arbVars, setupVars, replyVars>>

(* ControlProcess, PROCESSOP_SCHEDULE_THREADS_WITHOUT_TLS_MAGIC: the       *)
(* plugin loader stops or restarts the other threads of a process.         *)
ScheduleThreads(c, t, p, may) ==
    LET others == {x \in Pluggable \cap thread_list : OwnerOf[x] = p /\ x # t}
    IN  /\ Svc(c, t)
        /\ can_schedule' = [x \in Threads |-> IF x \in others THEN may ELSE can_schedule[x]]
        /\ UNCHANGED <<status, mutex_priority, prioVars, ownVars, waitVars, countVars,
                       timeVars, runVars, halted, lifeVars, arbVars, nominal_priority,
                       replyVars, work, fault>>

(***************************************************************************)
(* Address arbiters.                                                       *)
(***************************************************************************)
(* ArbitrateAddress, ArbitrationType::Signal.                              *)
ArbitrateSignal(c, t, a, addr, count) ==
    /\ Svc(c, t)
    /\ work' = <<ResumeArbitrated(a, addr, count)>>
    /\ PrepareReschedule(c)
    /\ UNCHANGED <<status, mutex_priority, prioVars, ownVars, waitVars, countVars, timeVars,
                   runVars, lifeVars, arbVars, setupVars, replyVars, fault>>

(* The four waiting types, when the word at the address is below the given *)
(* value (otherwise nothing happens but the reschedule).  The word itself  *)
(* is guest memory and left out.  A wait with a timeout of -1 sets the     *)
(* callback too; nothing calls it and ResumeFromWait resets it.            *)
ArbitrateWait(c, t, a, addr, timeout) ==
    /\ Svc(c, t)
    /\ wakeup_callback' = IF timeout = "forever" THEN wakeup_callback
                          ELSE [wakeup_callback EXCEPT ![t] = a]
    /\ WakeAfterDelay(t, timeout)
    /\ wait_address' = [wait_address EXCEPT ![t] = addr]
    /\ status' = [status EXCEPT ![t] = "WaitArb"]
    /\ arb_waiting' = [arb_waiting EXCEPT ![a] = Append(@, t)]
    /\ PrepareReschedule(c)
    /\ UNCHANGED <<mutex_priority, prioVars, ownVars, waitVars, countVars, timer_events,
                   periodic, runVars, lifeVars, setupVars, outcome, acquired, work, fault>>

(***************************************************************************)
(* Timing events and rescheduling.                                         *)
(***************************************************************************)
(* Faulty: a thread whose wait times out is not resumed.                   *)
WakeupCallsNoResume(t) ==
    IF status[t] \in WaitingOnObjects \cup {"WaitArb"}
    THEN <<Callback(t, "Timeout"), RemoveWaiting(t)>>
    ELSE <<Resume(t)>>

(* What the wakeup event of t does.                                        *)
WakeupCalls(t) ==
    IF status[t] \in WaitingOnObjects \cup {"WaitArb"}
    THEN <<Callback(t, "Timeout"), RemoveWaiting(t), Resume(t)>>
    ELSE <<Resume(t)>>

(* ThreadManager::ThreadWakeupCallback.  The table lookup throws for a     *)
(* thread that was stopped.                                                *)
ThreadWakeupCallback(t) ==
    /\ Quiet
    /\ t \in wakeup_events
    /\ wakeup_events' = wakeup_events \ {t}
    /\ cpu' = CoreOf[t]
    /\ IF t \notin thread_list
       THEN fault' = "wakeup_callback_table.at" /\ UNCHANGED work
       ELSE work' = WakeupCalls(t) /\ UNCHANGED fault
    /\ UNCHANGED <<status, mutex_priority, prioVars, ownVars, waitVars, countVars, timer_events,
                   periodic, runVars, halted, lifeVars, arbVars, setupVars, replyVars>>

(* TimerManager::TimerCallback and Timer::Signal, in the Advance of core c *)
(* where the timer was set; an interval arms the timer again.              *)
TimerCallback(c, e) ==
    /\ Quiet
    /\ e \in timer_events
    /\ cpu' = c
    /\ signaled' = [signaled EXCEPT ![e] = TRUE]
    /\ timer_events' = IF periodic[e] THEN timer_events ELSE timer_events \ {e}
    /\ work' = <<WakeupAll(e)>>
    /\ UNCHANGED <<status, mutex_priority, prioVars, ownVars, waitVars, available_count,
                   wakeup_events, periodic, runVars, halted, lifeVars, arbVars, setupVars,
                   replyVars, fault>>

(* ThreadManager::Reschedule, which the run loop calls before each slice   *)
(* of a core and after any PrepareReschedule.                              *)
Reschedule(c) ==
    /\ Quiet
    /\ halted' = halted \ {c}
    /\ \E starved \in SUBSET {t \in thread_list : CoreOf[t] = c /\ status[t] = "Ready"} :
          /\ ~PriorityBoost => starved = {}
          /\ work' = <<BoostStarved(c, starved), PopNext(c)>>
    /\ UNCHANGED <<status, mutex_priority, prioVars, ownVars, waitVars, countVars, timeVars,
                   runVars, cpu, lifeVars, arbVars, setupVars, replyVars, fault>>

WaitSvc(c, t) ==
    \/ \E os \in WaitLists, timeout \in Timeouts :
          \/ WaitSynchronizationAny(c, t, os, timeout)
          \/ WaitSynchronizationAll(c, t, os, timeout)
    \/ \E timeout \in Timeouts : SleepThread(c, t, timeout)
    \/ \E a \in Arbiters, addr \in Addresses, timeout \in Timeouts :
          ArbitrateWait(c, t, a, addr, timeout)

SignalSvc(c, t) ==
    \/ \E m \in Mutexes : ReleaseMutex(c, t, m)
    \/ \E s \in Semaphores, count \in ReleaseCounts : ReleaseSemaphore(c, t, s, count)
    \/ \E e \in Events : SignalEvent(c, t, e)
    \/ \E e \in Signals : ClearSignal(c, t, e)
    \/ \E e \in Timers, delayed, interval \in BOOLEAN : SetTimer(c, t, e, delayed, interval)
    \/ \E e \in Timers : CancelTimer(c, t, e)
    \/ \E a \in Arbiters, addr \in Addresses, count \in ArbitrateCounts :
          ArbitrateSignal(c, t, a, addr, count)

ThreadSvc(c, t) ==
    \/ \E new \in Threads : CreateThread(c, t, new)
    \/ ExitThread(c, t)
    \/ \E x \in Threads, p \in SetPriorities : SetThreadPriority(c, t, x, p)
    \/ \E p \in Terminable : TerminateProcess(c, t, p)
    \/ \E p \in Processes, may \in BOOLEAN : ScheduleThreads(c, t, p, may)

Next ==
    \/ KernelStep
    \/ \E p \in Processes : SetupMainThread(p)
    \/ \E c \in Cores :
          \/ \E t \in Threads : WaitSvc(c, t) \/ SignalSvc(c, t) \/ ThreadSvc(c, t)
          \/ Reschedule(c)
          \/ \E e \in Timers : TimerCallback(c, e)
    \/ \E t \in Threads : ThreadWakeupCallback(t)

Spec == Init /\ [][Next]_vars

(* The kernel code runs on; the run loop reschedules every core and        *)
(* delivers every due event in each of its turns, however many SVCs are    *)
(* called in between.  Nothing is assumed of the guest program.            *)
Fairness ==
    /\ WF_vars(KernelStep)
    /\ \A c \in Cores : SF_vars(Reschedule(c))
    /\ \A t \in Threads : SF_vars(ThreadWakeupCallback(t))

FairSpec == Spec /\ Fairness

(***************************************************************************)
(* Properties.                                                             *)
(***************************************************************************)
TypeOK ==
    /\ status \in [Threads -> Status]
    /\ nominal_priority \in [Threads -> Priorities]
    /\ current_priority \in [Threads -> Priorities]
    /\ can_schedule \in [Threads -> BOOLEAN]
    /\ wait_objects \in [Threads -> Seq(Objects)]
    /\ held_mutexes \in [Threads -> SUBSET Mutexes]
    /\ pending_mutexes \in [Threads -> SUBSET Mutexes]
    /\ wakeup_callback \in [Threads -> {"none", "sync"} \cup Arbiters]
    /\ wait_address \in [Threads -> Addresses \cup {0}]
    /\ waiting_threads \in [Objects -> Seq(Threads)]
    /\ lock_count \in [Mutexes -> Nat]
    /\ holding_thread \in [Mutexes -> Threads \cup {NoThread}]
    /\ mutex_priority \in [Mutexes -> Priorities]
    /\ available_count \in [Semaphores -> Int]
    /\ signaled \in [Signals -> BOOLEAN]
    /\ periodic \in [Timers -> BOOLEAN]
    /\ arb_waiting \in [Arbiters -> Seq(Threads)]
    /\ thread_list \subseteq Threads
    /\ current_thread \in [Cores -> Threads \cup {NoThread}]
    /\ ready_queue \in [Cores -> Lists(Priorities, Threads)]
    /\ unscheduled_ready_queue \in Seq(Threads)
    /\ wakeup_events \subseteq Threads
    /\ timer_events \subseteq Timers
    /\ cpu \in Cores
    /\ halted \subseteq Cores
    /\ exited \subseteq Processes
    /\ outcome \in [Threads -> {"none"} \cup Reasons]
    /\ acquired \in [Threads -> SUBSET Objects]
    /\ work \in Seq(Frames)
    /\ fault \in Faults

(* No ASSERT of the kernel fails, whatever the guest calls: no object is   *)
(* acquired that is not available (mutex.cpp:59), no thread on a waiting   *)
(* list is not waiting (wait_object.cpp:57), none wakes twice              *)
(* (thread.cpp:297), only ready threads are dispatched (thread.cpp:144).   *)
NoAssertionFails == fault = NoFault

(* A mutex has a holder exactly while it is locked, between any two steps  *)
(* of the kernel code (mutex.cpp Acquire, Release, ReleaseThreadMutexes).  *)
HolderIffLocked ==
    \A m \in Mutexes : lock_count[m] > 0 <=> holding_thread[m] # NoThread

(* Once the kernel is done, moreover, held_mutexes of a thread lists what  *)
(* it holds and nothing else, and a holder is alive: a mutex held by a     *)
(* thread that has ended could never be released (Thread::Stop).           *)
MutexOwnership ==
    Quiet =>
      /\ HolderIffLocked
      /\ \A t \in Threads : held_mutexes[t] = {m \in Mutexes : holding_thread[m] = t}
      /\ \A m \in Mutexes : holding_thread[m] # NoThread =>
            status[holding_thread[m]] \notin {"Free", "Dead"}

(* The thread could take what it sleeps on right now.                      *)
CouldWake(t) ==
    LET os == Range(wait_objects[t])
    IN  \/ status[t] = "WaitSynchAny" /\ \E o \in os : ~ShouldWait(o, t)
        \/ status[t] = "WaitSynchAll" /\ \A o \in os : ~ShouldWait(o, t)

(* WakeupAllWaitingThreads leaves no thread asleep whose wait is satisfied,*)
(* whichever object became available and whoever took it first.            *)
NoLostWakeup == Quiet => \A t \in Threads : ~CouldWake(t)

(* Waiting lists, wait_objects and pending_mutexes mirror each other, and  *)
(* only a thread that waits for objects is on a list, once.                *)
WaitListsMirror ==
    Quiet =>
      /\ \A o \in Objects :
            /\ Range(waiting_threads[o]) = {t \in Threads : o \in Range(wait_objects[t])}
            /\ IsInjective(waiting_threads[o])
      /\ \A t \in Threads :
            /\ wait_objects[t] # <<>> => status[t] \in WaitingOnObjects
            /\ pending_mutexes[t] = Mutexes \cap Range(wait_objects[t])

(* Who holds and who waits, on both sides of each relation: a thread that  *)
(* ends, is woken or times out leaves none of them behind.                 *)
ListsAndLocks == MutexOwnership /\ WaitListsMirror

(* Each ready thread is once on its core's queue, at the level of its      *)
(* current priority, which is linked, so that a pop can see it; no other   *)
(* thread is on any level of any core.                                     *)
ReadyQueueExact ==
    Quiet => \A c \in Cores, p \in Priorities :
      LET level == ready_queue[c].level[p]
      IN  /\ Range(level) = {t \in Threads : /\ status[t] = "Ready"
                                            /\ CoreOf[t] = c
                                            /\ current_priority[t] = p}
          /\ IsInjective(level)
          /\ level # <<>> => p \in ready_queue[c].linked

(* A timeout is pending only for a thread that still sleeps or has just    *)
(* been woken: a thread that runs or is dead will not be hit by one.       *)
NoStaleTimeout ==
    Quiet => \A t \in wakeup_events : status[t] \in WaitingStatus \cup {"Ready"}

(* A wait that returns ResultTimeout has taken nothing, one that returns   *)
(* success has taken something, also when the timeout and the signal race. *)
OutcomeTruthful ==
    Quiet => \A t \in Threads : status[t] = "Ready" =>
        (outcome[t] = "Signal" <=> acquired[t] # {})

(* A core executes guest code only of a thread that is Running: whatever   *)
(* takes that status away has told the core to stop (PrepareReschedule).   *)
OnlyRunningThreadsExecute ==
    Quiet => \A c \in Cores \ halted :
        current_thread[c] # NoThread => IsRunning(current_thread[c])

(* t is ready and better than the thread that runs on its core.            *)
Outruns(t) ==
    LET running == current_thread[CoreOf[t]]
    IN  /\ status[t] = "Ready"
        /\ IsRunning(running)
        /\ current_priority[t] < current_priority[running]

(* The boost of starved threads or the dispatch of core c's own Reschedule.*)
Reordering(c) ==
    work # <<>> /\ top.op \in {"BoostStarved", "SwitchContext"} /\ top.core = c

(* When a thread of the running core comes to be ready and better than the *)
(* one that runs there, the core is told to stop in the same step, unless  *)
(* its own rescheduling decided so or the thread is a process's first      *)
(* (without mutexes, whose priorities move those of others).  Another      *)
(* core is not told: PrepareReschedule stops the running one only.         *)
PromptPreemption ==
    [][\A t \in Threads : ~Outruns(t) /\ Outruns(t)' /\ CoreOf[t] = cpu' =>
          \/ cpu' \in halted'
          \/ Reordering(cpu)
          \/ status[t] = "Free" /\ t \in Range(MainThread)]_vars

(* The priority of a mutex is the best of its waiters' (mutex.h:44-48).    *)
MutexPriorityIsBestWaiter ==
    Quiet => \A m \in Mutexes :
        holding_thread[m] # NoThread /\ waiting_threads[m] # <<>> =>
            mutex_priority[m] =
                Min({current_priority[t] : t \in Range(waiting_threads[m])})

(* The mutexes implement recursive locks.                                  *)
Lock == INSTANCE RecursiveLock WITH
            Locks <- Mutexes, Owners <- Threads, NoOwner <- NoThread,
            owner <- holding_thread, depth <- lock_count,
            dead <- {t \in Threads : status[t] = "Dead"}
ImplementsLock == Lock!Spec

(* An arbiter lists exactly the threads that wait for an address, once.    *)
ArbiterListsMirror ==
    Quiet =>
      /\ UNION {Range(arb_waiting[a]) : a \in Arbiters} =
            {t \in Threads : status[t] = "WaitArb"}
      /\ \A a \in Arbiters : IsInjective(arb_waiting[a])

(* SwitchContext is given the best of the schedulable threads: no ready    *)
(* one is better, and the running one is replaced only by a better one.    *)
DispatchesBest ==
    work # <<>> /\ top.op = "SwitchContext" =>
      LET old == current_thread[top.core]
          rivals == {t \in Threads : /\ CoreOf[t] = top.core
                                     /\ status[t] = "Ready"
                                     /\ can_schedule[t]}
      IN  IF top.next = NoThread
          THEN rivals = {} /\ ~IsRunning(old)
          ELSE /\ \A t \in rivals : current_priority[top.next] <= current_priority[t]
               /\ IsRunning(old) /\ top.next # old =>
                     current_priority[top.next] < current_priority[old]

(* A thread that is dead stays dead.                                       *)
DeadStayDead ==
    [][\A t \in Threads : status[t] = "Dead" => status'[t] = "Dead"]_vars

(* The loops of the kernel end: each wakeup takes a thread off the list,   *)
(* each release a mutex off the holder's set.                              *)
KernelReturns == (work # <<>>) ~> (work = <<>>)

(* A wait with a timeout ends, by a signal or by the timeout.              *)
TimedWaitsEnd ==
    \A t \in Threads : (t \in wakeup_events) ~> (status[t] \notin WaitingStatus)

(* A core with a ready thread that may be scheduled gets to run one.       *)
CoresDispatch ==
    \A c \in Cores :
        (\E t \in Threads : CoreOf[t] = c /\ status[t] = "Ready" /\ can_schedule[t])
            ~> IsRunning(current_thread[c])
=============================================================================

------------------------------ MODULE KernelCore ------------------------------
(***************************************************************************)
(* The state of the HLE kernel's threads and wait objects, and the pieces  *)
(* of kernel code that run to completion inside one SVC, one timing event  *)
(* or one reschedule (core/hle/kernel: thread, wait_object, mutex,         *)
(* semaphore, event, timer, address_arbiter).                              *)
(*                                                                         *)
(* The kernel code contains loops that call each other (waking a thread    *)
(* acquires a mutex, which changes a priority, which moves a thread in the *)
(* ready queue; stopping a thread releases mutexes, each of which wakes    *)
(* waiters).  The variable work is the stack of the code still to run: its *)
(* head is the innermost call or loop.  While work is not empty only its   *)
(* head can take a step, so an SVC and everything it calls stay atomic to  *)
(* the rest of the system, as they are under the HLE lock; no step of a    *)
(* call may be skipped.  KernelSync.tla adds the entry points (SVCs,       *)
(* events, Reschedule) and the specification.                              *)
(***************************************************************************)
EXTENDS ThreadQueueList, FiniteSets

CONSTANTS
    Threads,            \* identities of the threads ever created
    NumCores,           \* emulated ARM11 cores
    Processes,
    Mutexes, Semaphores, Events, Timers, Arbiters, Addresses,
    ThreadPrioLowest,   \* thread.h: 63; 0 is the best priority
    BoostFloor,         \* thread.cpp PriorityBoostStarvedThreads: 40
    CoreOf,             \* Thread::core_id
    OwnerOf,            \* Thread::owner_process
    ResetType,          \* of events and timers
    MaxCount,           \* Semaphore::max_count
    PriorityBoost       \* Settings::values.priority_boost

Cores == 0..(NumCores - 1)
Priorities == 0..ThreadPrioLowest
Signals == Events \cup Timers
Objects == Threads \cup Mutexes \cup Semaphores \cup Signals

ASSUME CoreAssumption ==
    /\ NumCores \in Nat \ {0}
    /\ ThreadPrioLowest \in Nat \ {0}
    /\ BoostFloor \in Priorities
    /\ CoreOf \in [Threads -> Cores]
    /\ OwnerOf \in [Threads -> Processes]
    /\ ResetType \in [Signals -> {"OneShot", "Sticky", "Pulse"}]
    /\ MaxCount \in [Semaphores -> Int]
    /\ PriorityBoost \in BOOLEAN
    /\ NoThread \notin Threads

(* The identities of different kinds of objects differ.                    *)
ASSUME KindsAssumption ==
    /\ Threads \cap (Mutexes \cup Semaphores \cup Signals) = {}
    /\ Mutexes \cap (Semaphores \cup Signals) = {}
    /\ Semaphores \cap Signals = {}
    /\ Events \cap Timers = {}
    /\ {"none", "sync"} \cap Arbiters = {}

VARIABLES
    \* class Thread
    status, nominal_priority, current_priority, can_schedule,
    wait_objects, held_mutexes, pending_mutexes, wakeup_callback, wait_address,
    \* class WaitObject and its subclasses
    waiting_threads, lock_count, holding_thread, mutex_priority,
    available_count, signaled, periodic,
    \* class AddressArbiter
    arb_waiting,
    \* class ThreadManager, one per core
    thread_list, current_thread, ready_queue, unscheduled_ready_queue,
    \* events in Core::Timing: threads to wake, timers to fire
    wakeup_events, timer_events,
    \* the core whose code or events run, the cores told to leave Run()
    cpu, halted,
    \* processes that TerminateProcess has marked Exited
    exited,
    \* what the last wait of a thread returned (R0), and a history variable:
    \* the objects acquired for the thread by that wait
    outcome, acquired,
    \* the kernel code still to run, and the assertion that failed, if any
    work, fault

prioVars  == <<current_priority, ready_queue>>
ownVars   == <<lock_count, holding_thread, held_mutexes>>
waitVars  == <<waiting_threads, wait_objects, pending_mutexes>>
countVars == <<available_count, signaled>>
timeVars  == <<wakeup_events, timer_events, periodic>>
runVars   == <<current_thread, unscheduled_ready_queue>>
cpuVars   == <<cpu, halted>>
lifeVars  == <<thread_list, exited>>
arbVars   == <<arb_waiting, wait_address>>
setupVars == <<nominal_priority, can_schedule>>
replyVars == <<wakeup_callback, outcome, acquired>>

systemVars == <<status, mutex_priority, prioVars, ownVars, waitVars, countVars,
                timeVars, runVars, cpuVars, lifeVars, arbVars, setupVars,
                replyVars, work>>
vars == <<systemVars, fault>>

(***************************************************************************)
(* Statuses, frames of the work stack, faults.                             *)
(***************************************************************************)
WaitingOnObjects == {"WaitSynchAny", "WaitSynchAll"}
WaitingStatus == WaitingOnObjects \cup {"WaitSleep", "WaitArb"}

(* "Free" is a thread that has not been created.                           *)
Status == WaitingStatus \cup {"Free", "Dormant", "Ready", "Running", "Dead"}

Reasons == {"Signal", "Timeout"}

(* The loop of WaitObject::WakeupAllWaitingThreads on o.                   *)
WakeupAll(o) == [op |-> "WakeupAll", object |-> o]
(* The call o.Acquire(t).                                                  *)
Acquire(o, t) == [op |-> "Acquire", object |-> o, thread |-> t]
(* t's wakeup_callback with the given reason.                              *)
Callback(t, r) == [op |-> "Callback", thread |-> t, reason |-> r]
(* The loop that adds t to the waiting threads of each object of os.       *)
AddWaiting(t, os) == [op |-> "AddWaiting", thread |-> t, objects |-> os]
(* The loop that takes t off the list of each of its wait_objects.         *)
RemoveWaiting(t) == [op |-> "RemoveWaiting", thread |-> t]
(* Thread::ResumeFromWait.                                                 *)
Resume(t) == [op |-> "Resume", thread |-> t]
(* Faulty: the pending mutexes keep their priority.                        *)
UpdateNoMutex(ms) == [op |-> "UpdateMutexes", mutexes |-> {}]

(* The loop over pending mutexes, ms being those still to be updated.      *)
UpdateMutexes(ms) == [op |-> "UpdateMutexes", mutexes |-> ms]
(* Thread::Stop.                                                           *)
Stop(t) == [op |-> "Stop", thread |-> t]
(* Faulty: the loop does not move on.                                      *)
ReleaseForever(t, ms) ==
    [op |-> "ReleaseMutexes", thread |-> t, mutexes |-> held_mutexes[t]]

(* The loop of ReleaseThreadMutexes, ms being those still to be released.  *)
ReleaseMutexes(t, ms) == [op |-> "ReleaseMutexes", thread |-> t, mutexes |-> ms]
(* ThreadManager::TerminateProcessThreads on core c.                       *)
TerminateThreads(c, p) == [op |-> "TerminateThreads", core |-> c, process |-> p]
(* The loop of AddressArbiter that wakes n waiters of addr (-1: all).      *)
ResumeArbitrated(a, addr, n) ==
    [op |-> "ResumeArbitrated", arbiter |-> a, address |-> addr, count |-> n]
(* PriorityBoostStarvedThreads, ts being the starved threads left.         *)
BoostStarved(c, ts) == [op |-> "BoostStarved", core |-> c, threads |-> ts]
(* The three parts of ThreadManager::Reschedule: the popping loop, the     *)
(* loop that puts unschedulable threads back, SwitchContext.               *)
PopNext(c) == [op |-> "PopNext", core |-> c]
Requeue(c, n) == [op |-> "Requeue", core |-> c, next |-> n]
SwitchContext(c, n) == [op |-> "SwitchContext", core |-> c, next |-> n]

Frames ==
    [op : {"WakeupAll"}, object : Objects]
    \cup [op : {"Acquire"}, object : Objects, thread : Threads]
    \cup [op : {"Callback"}, thread : Threads, reason : Reasons]
    \cup [op : {"AddWaiting"}, thread : Threads, objects : Seq(Objects)]
    \cup [op : {"RemoveWaiting", "Resume", "Stop"}, thread : Threads]
    \cup [op : {"UpdateMutexes"}, mutexes : SUBSET Mutexes]
    \cup [op : {"ReleaseMutexes"}, thread : Threads, mutexes : SUBSET Mutexes]
    \cup [op : {"TerminateThreads"}, core : Cores, process : Processes]
    \cup [op : {"ResumeArbitrated"}, arbiter : Arbiters, address : Addresses, count : Int]
    \cup [op : {"BoostStarved"}, core : Cores, threads : SUBSET Threads]
    \cup [op : {"PopNext"}, core : Cores]
    \cup [op : {"Requeue", "SwitchContext"}, core : Cores, next : Threads \cup {NoThread}]

(* The assertions and null accesses the kernel may run into.               *)
NoFault == "none"
Faults == {NoFault,
    "object unavailable!", "Inconsistent thread statuses in waiting_threads",
    "arbiter woken by a signal", "Thread is waking up while waiting for objects",
    "wakeup_callback == nullptr",
    "Inconsistent AddressArbiter state", "null thread", "null level",
    "Thread must be ready to become running.",
    "Process has already exited", "wakeup_callback_table.at"}

(* ASSERT crashes the emulator.  This is a release build, where            *)
(* DEBUG_ASSERT is empty (common/assert.h:57-63) and the code goes on.     *)
Fail(assertion) == fault' = assertion /\ UNCHANGED systemVars

(* The head of the stack is a frame of this kind.                          *)
Runs(op) == /\ fault = NoFault
            /\ work # <<>>
            /\ Head(work).op = op
top == Head(work)

Return == work' = Tail(work)

(* Faulty: the core runs on.                                               *)
RunsOn(c) == UNCHANGED halted

(* PrepareReschedule: core c, the running one, leaves its Run() loop.      *)
PrepareReschedule(c) == halted' = halted \cup {c}

(* Faulty: the pending timeout is forgotten.                               *)
KeepWakeup(t) == UNCHANGED wakeup_events

(* UnscheduleEvent for the thread wakeup event of t.                       *)
CancelWakeup(t) == wakeup_events' = wakeup_events \ {t}

(***************************************************************************)
(* Priorities (thread.cpp, mutex.cpp).                                     *)
(***************************************************************************)
(* The best of t's own priority and the priorities of the mutexes in ms.   *)
BestPriority(t, ms, priority) ==
    Min({nominal_priority[t]} \cup {priority[m] : m \in ms})

(* Faulty: a ready thread stays on the level of its old priority.          *)
RequeuedNever(t, p) == [ready_queue EXCEPT ![CoreOf[t]] = prepare(@, p)]

(* The ready queue of t's core once t's priority is p.                     *)
Requeued(t, p) ==
    [ready_queue EXCEPT ![CoreOf[t]] =
        IF status[t] = "Ready" THEN move(@, t, current_priority[t], p)
                               ELSE prepare(@, p)]

BoostPriority(t, p) ==
    /\ current_priority' = [current_priority EXCEPT ![t] = p]
    /\ ready_queue' = Requeued(t, p)

(* Mutex::UpdatePriority of m, its waiting threads being ws.               *)
UpdateMutexPriority(m, ws) ==
    LET best == Min({ThreadPrioLowest} \cup {current_priority[t] : t \in Range(ws)})
        t == holding_thread[m]
    IN  IF t = NoThread \/ best = mutex_priority[m]
        THEN UNCHANGED <<mutex_priority, prioVars>>
        ELSE /\ mutex_priority' = [mutex_priority EXCEPT ![m] = best]
             /\ BoostPriority(t, BestPriority(t, held_mutexes[t], mutex_priority'))

(* SetThreadPriority's loop over the pending mutexes of the thread.  The   *)
(* flat_set is ordered by address; any order is allowed here.              *)
UpdateMutexesStep ==
    /\ Runs("UpdateMutexes")
    /\ IF top.mutexes = {}
       THEN /\ Return
            /\ UNCHANGED <<mutex_priority, prioVars>>
       ELSE \E m \in top.mutexes :
            /\ UpdateMutexPriority(m, waiting_threads[m])
            /\ work' = <<UpdateMutexes(top.mutexes \ {m})>> \o Tail(work)
    /\ UNCHANGED <<status, ownVars, waitVars, countVars, timeVars, runVars, cpuVars,
                   lifeVars, arbVars, setupVars, replyVars, fault>>

(***************************************************************************)
(* Wait objects.                                                           *)
(***************************************************************************)
(* Faulty: a mutex locked once is still available.                         *)
ShouldWaitOffByOne(o, t) ==
    \/ o \in Threads /\ status[o] # "Dead"
    \/ o \in Mutexes /\ lock_count[o] > 1 /\ holding_thread[o] # t
    \/ o \in Semaphores /\ available_count[o] <= 0
    \/ o \in Signals /\ ~signaled[o]

(* ShouldWait of each class.                                               *)
ShouldWait(o, t) ==
    \/ o \in Threads /\ status[o] # "Dead"
    \/ o \in Mutexes /\ lock_count[o] > 0 /\ holding_thread[o] # t
    \/ o \in Semaphores /\ available_count[o] <= 0
    \/ o \in Signals /\ ~signaled[o]

(* Mutex::Acquire: the first acquisition makes t the holder.               *)
AcquireMutex(m, t) ==
    /\ lock_count' = [lock_count EXCEPT ![m] = @ + 1]
    /\ IF lock_count[m] = 0
       THEN /\ mutex_priority' = [mutex_priority EXCEPT ![m] = current_priority[t]]
            /\ held_mutexes' = [held_mutexes EXCEPT ![t] = @ \cup {m}]
            /\ holding_thread' = [holding_thread EXCEPT ![m] = t]
            /\ BoostPriority(t, BestPriority(t, held_mutexes'[t], mutex_priority'))
            /\ PrepareReschedule(cpu)
       ELSE UNCHANGED <<mutex_priority, held_mutexes, holding_thread, prioVars, halted>>

(* o.Acquire(t).  Every class but Semaphore asserts that t need not wait;  *)
(* a one-shot event or timer is consumed.                                  *)
AcquireStep ==
    /\ Runs("Acquire")
    /\ LET o == top.object
           t == top.thread
       IN  IF o \notin Semaphores /\ ShouldWait(o, t)
           THEN Fail("object unavailable!")
           ELSE /\ IF o \in Mutexes
                   THEN AcquireMutex(o, t)
                   ELSE UNCHANGED <<mutex_priority, ownVars, prioVars, halted>>
                /\ available_count' =
                      IF o \in Semaphores /\ available_count[o] > 0
                      THEN [available_count EXCEPT ![o] = @ - 1]
                      ELSE available_count
                /\ signaled' = IF o \in Signals /\ ResetType[o] = "OneShot"
                               THEN [signaled EXCEPT ![o] = FALSE]
                               ELSE signaled
                /\ acquired' = IF status[t] \in WaitingOnObjects
                               THEN [acquired EXCEPT ![t] = @ \cup {o}]
                               ELSE acquired
                /\ Return
                /\ UNCHANGED <<status, waitVars, timeVars, runVars, cpu, lifeVars,
                               arbVars, setupVars, wakeup_callback, outcome, fault>>

(* WaitObject::AddWaitingThread and Mutex::AddWaitingThread, for each      *)
(* object of the list.                                                     *)
AddWaitingStep ==
    /\ Runs("AddWaiting")
    /\ LET t == top.thread
           os == top.objects
           o == Head(os)
           ws == IF t \in Range(waiting_threads[o])
                 THEN waiting_threads[o]
                 ELSE Append(waiting_threads[o], t)
       IN  IF os = <<>>
           THEN /\ Return
                /\ UNCHANGED <<waiting_threads, pending_mutexes, mutex_priority, prioVars>>
           ELSE /\ waiting_threads' = [waiting_threads EXCEPT ![o] = ws]
                /\ pending_mutexes' = [pending_mutexes EXCEPT ![t] = @ \cup ({o} \cap Mutexes)]
                /\ IF o \in Mutexes
                   THEN UpdateMutexPriority(o, ws)
                   ELSE UNCHANGED <<mutex_priority, prioVars>>
                /\ work' = <<AddWaiting(t, Tail(os))>> \o Tail(work)
    /\ UNCHANGED <<status, wait_objects, ownVars, countVars, timeVars, runVars, cpuVars,
                   lifeVars, arbVars, setupVars, replyVars, fault>>

(* WaitObject::RemoveWaitingThread and Mutex::RemoveWaitingThread, for     *)
(* each of the wait objects of the thread.  wait_objects is cleared after  *)
(* the loop; it shrinks here with the loop's progress, and nothing reads   *)
(* it in between.                                                          *)
RemoveWaitingStep ==
    /\ Runs("RemoveWaiting")
    /\ LET t == top.thread
           o == Head(wait_objects[t])
           ws == Erase(waiting_threads[o], t)
       IN  IF wait_objects[t] = <<>>
           THEN /\ Return
                /\ UNCHANGED <<waitVars, mutex_priority, prioVars>>
           ELSE /\ waiting_threads' = [waiting_threads EXCEPT ![o] = ws]
                /\ wait_objects' = [wait_objects EXCEPT ![t] = Tail(@)]
                /\ pending_mutexes' = [pending_mutexes EXCEPT ![t] = @ \ {o}]
                /\ IF o \in Mutexes
                   THEN UpdateMutexPriority(o, ws)
                   ELSE UNCHANGED <<mutex_priority, prioVars>>
                /\ UNCHANGED work
    /\ UNCHANGED <<status, ownVars, countVars, timeVars, runVars, cpuVars, lifeVars,
                   arbVars, setupVars, replyVars, fault>>

(* Faulty: the other objects of a wait for all are not looked at.          *)
ReadyToRunOne(o, t) == ~ShouldWait(o, t)

(* GetHighestPriorityReadyThread: t could take o now.                      *)
ReadyToRun(o, t) ==
    /\ ~ShouldWait(o, t)
    /\ status[t] = "WaitSynchAll" =>
          \A x \in Range(wait_objects[t]) : ~ShouldWait(x, t)

(* Faulty: only the first of the list is considered.                       *)
FirstIfReady(o) ==
    LET ws == waiting_threads[o]
    IN  IF ws # <<>> /\ ReadyToRun(o, Head(ws)) THEN Head(ws) ELSE NoThread

(* Strictly best priority wins, the first of the list among equals.        *)
HighestPriorityReady(o) ==
    LET ws == waiting_threads[o]
        ready == {i \in 1..Len(ws) : ReadyToRun(o, ws[i])}
        best == Min({current_priority[ws[i]] : i \in ready})
    IN  IF ready = {} THEN NoThread
        ELSE ws[Min({i \in ready : current_priority[ws[i]] = best})]

(* Faulty: a wait for any object acquires nothing.                         *)
TakenIfAll(o, t) == IF status[t] = "WaitSynchAll" THEN wait_objects[t] ELSE <<>>

(* What t acquires when o wakes it.                                        *)
Taken(o, t) == IF status[t] = "WaitSynchAll" THEN wait_objects[t] ELSE <<o>>

(* One turn of WaitObject::WakeupAllWaitingThreads, or its end, where      *)
(* Event and Timer reset a pulse.                                          *)
WakeupAllStep ==
    /\ Runs("WakeupAll")
    /\ LET o == top.object
           t == HighestPriorityReady(o)
           taken == Taken(o, t)
       IN  IF \E x \in Range(waiting_threads[o]) : status[x] \notin WaitingOnObjects
           THEN Fail("Inconsistent thread statuses in waiting_threads")
           ELSE /\ IF t = NoThread
                   THEN /\ signaled' = IF o \in Signals /\ ResetType[o] = "Pulse"
                                       THEN [signaled EXCEPT ![o] = FALSE]
                                       ELSE signaled
                        /\ Return
                   ELSE /\ work' = [i \in 1..Len(taken) |-> Acquire(taken[i], t)]
                                   \o <<Callback(t, "Signal"), RemoveWaiting(t), Resume(t)>>
                                   \o work
                        /\ UNCHANGED signaled
                /\ UNCHANGED <<status, mutex_priority, prioVars, ownVars, waitVars,
                               available_count, timeVars, runVars, cpuVars, lifeVars,
                               arbVars, setupVars, replyVars, fault>>

(***************************************************************************)
(* Wakeups and the end of threads.                                         *)
(***************************************************************************)
(* SVC_SyncCallback::WakeUp writes the result of the wait;                 *)
(* AddressArbiter::WakeUp expects a timeout and forgets the thread.        *)
CallbackStep ==
    /\ Runs("Callback")
    /\ LET t == top.thread
           callback == wakeup_callback[t]
       IN  IF callback \in Arbiters /\ top.reason # "Timeout"
           THEN Fail("arbiter woken by a signal")
           ELSE /\ outcome' = IF callback = "sync"
                              THEN [outcome EXCEPT ![t] = top.reason]
                              ELSE outcome
                /\ arb_waiting' = IF callback \in Arbiters
                                  THEN [arb_waiting EXCEPT ![callback] = Erase(@, t)]
                                  ELSE arb_waiting
                /\ Return
                /\ UNCHANGED <<status, mutex_priority, prioVars, ownVars, waitVars,
                               countVars, timeVars, runVars, cpuVars, lifeVars,
                               wait_address, setupVars, wakeup_callback, acquired, fault>>

(* Thread::ResumeFromWait.  A thread that is ready, runs or is dead is left*)
(* alone.                                                                  *)
ResumeStep ==
    /\ Runs("Resume")
    /\ LET t == top.thread
       IN  CASE wait_objects[t] # <<>> ->
                Fail("Thread is waking up while waiting for objects")
             [] status[t] = "Ready" /\ wakeup_callback[t] # "none" ->
                Fail("wakeup_callback == nullptr")
             [] OTHER ->
                /\ IF status[t] \in {"Ready", "Running", "Dead", "Free"}
                   THEN UNCHANGED <<status, wakeup_callback, ready_queue, halted>>
                   ELSE /\ wakeup_callback' = [wakeup_callback EXCEPT ![t] = "none"]
                        /\ ready_queue' = [ready_queue EXCEPT
                              ![CoreOf[t]] = push_back(@, current_priority[t], t)]
                        /\ status' = [status EXCEPT ![t] = "Ready"]
                        /\ PrepareReschedule(cpu)
                /\ Return
                /\ UNCHANGED <<mutex_priority, current_priority, ownVars, waitVars,
                               countVars, timeVars, runVars, cpu, lifeVars, arbVars,
                               setupVars, outcome, acquired, fault>>

(* Faulty: the thread stays on the waiting lists.                          *)
StopCallsNoRemove(t) == <<WakeupAll(t), ReleaseMutexes(t, held_mutexes[t])>>

(* Waiters on the thread itself wake first; then it leaves the objects it  *)
(* waited for; then its mutexes are released.                              *)
StopCalls(t) == <<WakeupAll(t), RemoveWaiting(t), ReleaseMutexes(t, held_mutexes[t])>>

(* Thread::Stop, and the erasure from thread_list that follows each call.  *)
StopStep ==
    /\ Runs("Stop")
    /\ LET t == top.thread
       IN  /\ CancelWakeup(t)
           /\ ready_queue' = [ready_queue EXCEPT ![CoreOf[t]] =
                 IF status[t] = "Ready" THEN remove(@, current_priority[t], t) ELSE @]
           /\ status' = [status EXCEPT ![t] = "Dead"]
           /\ thread_list' = thread_list \ {t}
           /\ work' = StopCalls(t) \o Tail(work)
    /\ UNCHANGED <<mutex_priority, current_priority, ownVars, waitVars, countVars,
                   timer_events, periodic, runVars, cpuVars, exited, arbVars, setupVars,
                   replyVars, fault>>

(* ReleaseThreadMutexes.  held_mutexes is ordered by address; any order is *)
(* allowed here.  It is cleared after the last one.                        *)
ReleaseMutexesStep ==
    /\ Runs("ReleaseMutexes")
    /\ LET t == top.thread
       IN  IF top.mutexes = {}
           THEN /\ held_mutexes' = [held_mutexes EXCEPT ![t] = {}]
                /\ Return
                /\ UNCHANGED <<lock_count, holding_thread>>
           ELSE \E m \in top.mutexes :
                /\ lock_count' = [lock_count EXCEPT ![m] = 0]
                /\ holding_thread' = [holding_thread EXCEPT ![m] = NoThread]
                /\ work' = <<WakeupAll(m), ReleaseMutexes(t, top.mutexes \ {m})>>
                           \o Tail(work)
                /\ UNCHANGED held_mutexes
    /\ UNCHANGED <<status, mutex_priority, prioVars, waitVars, countVars, timeVars,
                   runVars, cpuVars, lifeVars, arbVars, setupVars, replyVars, fault>>

(* TerminateProcessThreads: every thread of the process on the core, its   *)
(* current thread last.  thread_list is in creation order; any order is    *)
(* allowed here.                                                           *)
TerminateThreadsStep ==
    /\ Runs("TerminateThreads")
    /\ LET c == top.core
           p == top.process
           last == current_thread[c]
           others == {t \in thread_list : CoreOf[t] = c /\ OwnerOf[t] = p /\ t # last}
       IN  \/ /\ \E t \in others : work' = <<Stop(t)>> \o work
              /\ UNCHANGED halted
           \/ /\ others = {}
              /\ IF last # NoThread /\ OwnerOf[last] = p
                 THEN /\ work' = <<Stop(last)>> \o Tail(work)
                      /\ PrepareReschedule(cpu)
                 ELSE /\ Return
                      /\ UNCHANGED halted
    /\ UNCHANGED <<status, mutex_priority, prioVars, ownVars, waitVars, countVars, timeVars,
                   runVars, cpu, lifeVars, arbVars, setupVars, replyVars, fault>>

(* AddressArbiter::ResumeAllThreads (count -1) and the loop over           *)
(* ResumeHighestPriorityThread: the best priority first, the first of the  *)
(* list among equals.  The partition of the list by address keeps the      *)
(* order of the threads of one address, which is all that is read later.   *)
ResumeArbitratedStep ==
    /\ Runs("ResumeArbitrated")
    /\ LET a == top.arbiter
           ts == arb_waiting[a]
           there == {i \in 1..Len(ts) : wait_address[ts[i]] = top.address}
           best == Min({current_priority[ts[i]] : i \in there})
           next == IF top.count = -1
                   THEN Min(there)
                   ELSE Min({i \in there : current_priority[ts[i]] = best})
       IN  IF top.count # 0 /\ \E i \in 1..Len(ts) : status[ts[i]] # "WaitArb"
           THEN Fail("Inconsistent AddressArbiter state")
           ELSE /\ IF top.count = 0 \/ there = {}
                   THEN /\ Return
                        /\ UNCHANGED arb_waiting
                   ELSE /\ arb_waiting' = [arb_waiting EXCEPT ![a] = RemoveAt(ts, next)]
                        /\ work' = <<Resume(ts[next]),
                                     [top EXCEPT !.count = IF @ = -1 THEN -1 ELSE @ - 1]>>
                                   \o Tail(work)
                /\ UNCHANGED <<status, mutex_priority, prioVars, ownVars, waitVars,
                               countVars, timeVars, runVars, cpuVars, lifeVars,
                               wait_address, setupVars, replyVars, fault>>

(***************************************************************************)
(* Scheduling (thread.cpp).                                                *)
(***************************************************************************)
(* PriorityBoostStarvedThreads.  Which ready threads have waited long      *)
(* enough is left open, and so is their order.  get_first() is dereferenced*)
(* without a test.                                                         *)
BoostStarvedStep ==
    /\ Runs("BoostStarved")
    /\ LET first == get_first(ready_queue[top.core])
       IN  IF top.threads # {} /\ first = NoThread
           THEN Fail("null thread")
           ELSE /\ IF top.threads = {}
                   THEN /\ Return
                        /\ UNCHANGED prioVars
                   ELSE \E t \in top.threads :
                        /\ BoostPriority(t, Max({current_priority[first], BoostFloor}))
                        /\ work' = <<BoostStarved(top.core, top.threads \ {t})>> \o Tail(work)
                /\ UNCHANGED <<status, mutex_priority, ownVars, waitVars, countVars, timeVars,
                               runVars, cpuVars, lifeVars, arbVars, setupVars, replyVars, fault>>

(* Faulty: a thread that gave the core up counts as running.               *)
IsRunningOrNot(t) == t # NoThread

IsRunning(t) == t # NoThread /\ status[t] = "Running"

(* The loop of PopNextReadyThread: a thread that may not be scheduled is   *)
(* set aside, and the search goes on.  A running thread gives way only to  *)
(* a strictly better one; pop_first_better stops at a linked level no      *)
(* better than the thread's and runs off the chain if there is none.       *)
PopNextStep ==
    /\ Runs("PopNext")
    /\ LET c == top.core
           old == current_thread[c]
           levels == IF IsRunning(old)
                     THEN OccupiedBelow(ready_queue[c], current_priority[old])
                     ELSE Occupied(ready_queue[c])
           next == front(ready_queue[c], levels)
       IN  IF /\ IsRunning(old)
              /\ levels = {}
              /\ \A p \in ready_queue[c].linked : p < current_priority[old]
           THEN Fail("null level")
           ELSE /\ ready_queue' = [ready_queue EXCEPT ![c] = pop(@, levels)]
                /\ IF next # NoThread /\ ~can_schedule[next]
                   THEN /\ unscheduled_ready_queue' = Append(unscheduled_ready_queue, next)
                        /\ UNCHANGED work
                   ELSE /\ work' = <<Requeue(c, IF next = NoThread /\ IsRunning(old)
                                                THEN old ELSE next)>> \o Tail(work)
                        /\ UNCHANGED unscheduled_ready_queue
                /\ UNCHANGED <<status, mutex_priority, current_priority, ownVars, waitVars,
                               countVars, timeVars, current_thread, cpuVars, lifeVars,
                               arbVars, setupVars, replyVars, fault>>

(* The threads set aside go back to the end of their level, last first.    *)
RequeueStep ==
    /\ Runs("Requeue")
    /\ LET c == top.core
           t == Last(unscheduled_ready_queue)
       IN  IF unscheduled_ready_queue = <<>>
           THEN /\ work' = <<SwitchContext(c, top.next)>> \o Tail(work)
                /\ UNCHANGED <<ready_queue, unscheduled_ready_queue>>
           ELSE /\ ready_queue' = [ready_queue EXCEPT
                     ![c] = push_back(@, current_priority[t], t)]
                /\ unscheduled_ready_queue' = Front(unscheduled_ready_queue)
                /\ UNCHANGED work
    /\ UNCHANGED <<status, mutex_priority, current_priority, ownVars, waitVars, countVars,
                   timeVars, current_thread, cpuVars, lifeVars, arbVars, setupVars,
                   replyVars, fault>>

(* SwitchContext: a thread that still runs goes to the front of its level; *)
(* the new one loses its pending timeout and gets its nominal priority     *)
(* back.  Its R0 is now the program's: outcome and acquired start afresh.  *)
SwitchContextStep ==
    /\ Runs("SwitchContext")
    /\ LET c == top.core
           old == current_thread[c]
           new == top.next
           queue == IF IsRunning(old)
                    THEN push_front(ready_queue[c], current_priority[old], old)
                    ELSE ready_queue[c]
           saved == IF IsRunning(old) THEN [status EXCEPT ![old] = "Ready"] ELSE status
       IN  IF new = NoThread
           THEN /\ current_thread' = [current_thread EXCEPT ![c] = NoThread]
                /\ status' = saved
                /\ ready_queue' = [ready_queue EXCEPT ![c] = queue]
                /\ Return
                /\ UNCHANGED <<current_priority, wakeup_events, outcome, acquired, fault>>
           ELSE IF saved[new] # "Ready"
           THEN /\ fault' = "Thread must be ready to become running."
                /\ UNCHANGED <<current_thread, status, ready_queue, current_priority,
                               wakeup_events, outcome, acquired, work>>
           ELSE /\ current_thread' = [current_thread EXCEPT ![c] = new]
                /\ status' = [saved EXCEPT ![new] = "Running"]
                /\ ready_queue' = [ready_queue EXCEPT
                     ![c] = remove(queue, current_priority[new], new)]
                /\ current_priority' = [current_priority EXCEPT ![new] = nominal_priority[new]]
                /\ CancelWakeup(new)
                /\ outcome' = [outcome EXCEPT ![new] = "none"]
                /\ acquired' = [acquired EXCEPT ![new] = {}]
                /\ Return
                /\ UNCHANGED fault
    /\ UNCHANGED <<mutex_priority, ownVars, waitVars, countVars, timer_events, periodic,
                   unscheduled_ready_queue, cpuVars, lifeVars, arbVars, setupVars,
                   wakeup_callback>>

KernelStep ==
    \/ UpdateMutexesStep
    \/ AcquireStep
    \/ AddWaitingStep
    \/ RemoveWaitingStep
    \/ WakeupAllStep
    \/ CallbackStep
    \/ ResumeStep
    \/ StopStep
    \/ ReleaseMutexesStep
    \/ TerminateThreadsStep
    \/ ResumeArbitratedStep
    \/ BoostStarvedStep
    \/ PopNextStep
    \/ RequeueStep
    \/ SwitchContextStep
=============================================================================

-------------------------- MODULE KernelWakeups_proofs --------------------------
(***************************************************************************)
(* Wakeups: no thread sleeps on through what it waits for, what a wait     *)
(* returns is what it has taken, whichever of a signal and a timeout comes *)
(* first, and no assertion of the kernel fails.                            *)
(***************************************************************************)
EXTENDS KernelLocks_proofs

(***************************************************************************)
(* FIRST PART: wakeups, outcomes, address arbiters.                        *)
(***************************************************************************)

USE DEF prioVars, ownVars, waitVars, countVars, timeVars, runVars, cpuVars, lifeVars, arbVars,
        setupVars, replyVars

(* SwitchContext only makes one thread of a core give way to another.      *)
LEMMA SwitchedStatus ==
    ASSUME TypeOK, Nested(work), SwitchContextStep, fault' = NoFault, NEW t \in Threads
    PROVE  \/ status'[t] = status[t]
           \/ status[t] \in {"Ready", "Running"} /\ status'[t] \in {"Ready", "Running"}
<1>1. CASE t = top.next
  <2>1. t # NoThread
    BY CoreAssumption
  <2>2. status'[t] = "Running" /\ (status[t] = "Ready" \/ IsRunning(t))
    BY <1>1, <2>1, SwitchContextThreads
  <2> QED
    BY <2>2 DEF IsRunning
<1>2. CASE t # top.next
  <2>1. PICK old : status'[t] = IF t = old /\ IsRunning(old) THEN "Ready" ELSE status[t]
    BY <1>2, SwitchContextThreads
  <2> QED
    BY <2>1 DEF IsRunning
<1> QED
  BY <1>1, <1>2

(***************************************************************************)
(* Who goes to sleep.                                                      *)
(***************************************************************************)
(* Only the calling thread of an SVC and a thread made with a delayed      *)
(* start do: whoever other code leaves asleep has been asleep.             *)
LEMMA AsleepBefore ==
    ASSUME TypeOK, Nested(work), CoreInv, [Next]_vars, ~Entry, NEW t \in Threads,
           status'[t] \in WaitingStatus
    PROVE  status[t] = status'[t]
<1> SUFFICES ASSUME status'[t] # status[t]
             PROVE  FALSE
  OBVIOUS
<1>0. status \in [Threads -> Status]
  BY DEF TypeOK
<1>1. ASSUME NEW x \in Threads, NEW s, status' = [status EXCEPT ![x] = s], s \notin WaitingStatus
      PROVE  FALSE
  BY <1>0, <1>1
<1>2. "Ready" \notin WaitingStatus /\ "Dead" \notin WaitingStatus /\ "Running" \notin WaitingStatus
  BY DEF WaitingStatus, WaitingOnObjects
<1>3. ~OtherStep
  BY <1>1, <1>2, OtherStepThreads DEF Boosts, Resumes, Stops
<1>4. ~(SwitchContextStep /\ fault' = NoFault)
  <2> SUFFICES ASSUME SwitchContextStep, fault' = NoFault
               PROVE  FALSE
    OBVIOUS
  <2>1. t # NoThread
    BY CoreAssumption
  <2> QED
    BY <1>2, <2>1, SwitchContextThreads
<1>5. ~(BoostStarvedStep \/ PopNextStep \/ RequeueStep \/ (\E c \in Cores : Reschedule(c)))
  BY DEF BoostStarvedStep, PopNextStep, RequeueStep, Reschedule, Fail, systemVars
<1>6. ~ UNCHANGED systemVars
  BY DEF systemVars
<1> QED
  BY <1>3, <1>4, <1>5, <1>6, NextCases

(* ResumeFromWait leaves no one asleep.                                    *)
LEMMA ResumeEndsSleep ==
    ASSUME TypeOK, Nested(work), OtherStep, NEW t \in Threads, top = Resume(t)
    PROVE  status'[t] \notin WaitingStatus
<1>1. KernelStep /\ top.op = "Resume" /\ top.thread = t /\ fault' = NoFault
  BY DEF OtherStep, Resume
<1>2. ResumeStep
  BY <1>1, StepOfTop
<1>3. \/ status[t] \in {"Ready", "Running", "Dead", "Free"} /\ status' = status
      \/ status' = [status EXCEPT ![t] = "Ready"]
  BY <1>1, <1>2 DEF ResumeStep, Fail, NoFault
<1>4. WaitingStatus \cap {"Ready", "Running", "Dead", "Free"} = {}
  BY DEF WaitingStatus, WaitingOnObjects
<1> QED
  BY <1>3, <1>4 DEF TypeOK

LEMMA ResumeStays ==
    ASSUME TypeOK, Nested(work), OtherStep, NEW t \in Threads, Resume(t) \in Stacked,
           status'[t] \in WaitingStatus
    PROVE  Resume(t) \in Stacked'
<1>1. top # Resume(t)
  BY ResumeEndsSleep
<1> QED
  BY <1>1, OtherStepCases, UnderStays

(***************************************************************************)
(* Whoever is on the way to be woken will be.                              *)
(***************************************************************************)
LEMMA OtherWakesResume ==
    ASSUME TypeOK, Nested(work), CoreInv, WakesResume, [Next]_vars, OtherStep, ~Entry
    PROVE  WakesResume'
<1> SUFFICES ASSUME NEW f \in Stacked', f.op \in {"Acquire", "Callback", "RemoveWaiting"},
                    status'[f.thread] \in WaitingStatus
             PROVE  Resume(f.thread) \in Stacked'
  BY DEF WakesResume
<1>0. "Ready" \notin WaitingStatus /\ "Dead" \notin WaitingStatus
  BY DEF WaitingStatus, WaitingOnObjects
<1>1. CASE f \in Stacked
  <2>1. PICK t \in Threads : t = f.thread
    BY <1>1, StackedThreads
  <2>2. status[t] = status'[t]
    BY <2>1, AsleepBefore
  <2>3. Resume(t) \in Stacked
    BY <1>1, <2>1, <2>2 DEF WakesResume
  <2> QED
    BY <1>0, <2>1, <2>3, ResumeStays
<1>2. CASE f \notin Stacked
  <2>1. CASE WakeupAllStep
    <3>1. PICK t : t = HighestPriorityReady(top.object)
      OBVIOUS
    <3>2. /\ t \in Threads
          /\ f \in {Acquire(x, t) : x \in Range(Taken(top.object, t))}
                   \cup {Callback(t, "Signal"), RemoveWaiting(t), Resume(t)}
      BY <1>2, <2>1, <3>1, OtherCalls, TopOfStep DEF Resume
    <3>3. f.thread = t
      BY <3>2 DEF Acquire, Callback, RemoveWaiting, Resume
    <3>4. t # NoThread /\ fault' = NoFault
      BY <3>2, CoreAssumption DEF OtherStep
    <3> QED
      BY <2>1, <3>1, <3>3, <3>4, WakeupAllStack
  <2>2. CASE StopStep
    <3>1. PICK t \in Threads : t = top.thread
      BY <2>2, OtherStepCases, StackedThreads, TopOfStep
    <3>2. status'[t] = "Dead"
      BY <2>2, <3>1 DEF StopStep, TypeOK
    <3>3. f.thread = t
      BY <1>2, <2>2, <3>1, OtherCalls, TopOfStep DEF WakeupAll, RemoveWaiting, ReleaseMutexes
    <3> QED
      BY <1>0, <3>2, <3>3
  <2>3. CASE ~WakeupAllStep /\ ~StopStep
    BY <1>2, <2>3, OtherCalls DEF Resume
  <2> QED
    BY <2>1, <2>2, <2>3
<1> QED
  BY <1>1, <1>2

LEMMA EntryWakesResume ==
    ASSUME TypeOK, Nested(work), CoreInv, [Next]_vars, Entry
    PROVE  WakesResume'
<1> SUFFICES ASSUME NEW f \in Stacked', f.op \in {"Acquire", "Callback", "RemoveWaiting"},
                    status'[f.thread] \in WaitingStatus
             PROVE  Resume(f.thread) \in Stacked'
  BY DEF WakesResume
<1>1. CASE f.op = "Acquire"
  <2>1. PICK c \in Cores, t \in Threads, os \in Seq(Objects) :
           Svc(c, t) /\ Grants(t, os) /\ f.thread = t
    BY <1>1, EntryCalls
  <2>2. status'[t] = "Running"
    BY <2>1, CallerRuns DEF CoreInv, Grants
  <2> QED
    BY <2>1, <2>2 DEF WaitingStatus, WaitingOnObjects
<1>2. CASE f.op \in {"Callback", "RemoveWaiting"}
  <2>1. PICK t \in Threads : ThreadWakeupCallback(t) /\ Stacked' = Range(WakeupCalls(t))
    BY <1>2, EntryCalls
  <2>2. \/ Stacked' = {}
        \/ Stacked' = {Resume(t)}
        \/ Stacked' = {Callback(t, "Timeout"), RemoveWaiting(t), Resume(t)}
    BY <2>1, ThreadWakeupCallbackStack
  <2> QED
    BY <1>2, <2>2 DEF Callback, RemoveWaiting, Resume
<1> QED
  BY <1>1, <1>2

LEMMA WakesResumeNext ==
    ASSUME TypeOK, Nested(work), CoreInv, WakesResume, [Next]_vars
    PROVE  WakesResume'
<1>1. CASE Entry
  BY <1>1, EntryWakesResume
<1>2. CASE OtherStep /\ ~Entry
  BY <1>2, OtherWakesResume
<1>3. CASE Scheduling
  BY <1>3, SchedulingStacks DEF WakesResume, SchedulingOps
<1>4. CASE UNCHANGED systemVars
  BY <1>4 DEF systemVars, WakesResume, Stacked
<1> QED
  BY <1>1, <1>2, <1>3, <1>4, NextCases DEF Scheduling

(***************************************************************************)
(* Whatever makes an object available goes through its waiting list.       *)
(***************************************************************************)
(* One call is all there is.                                               *)
LEMMA Wakes ==
    ASSUME NEW o \in Objects, work' = <<WakeupAll(o)>>
    PROVE  WakeupAll(o) \in Stacked'
BY FrameType, OneCallStack

LEMMA OtherAvailable ==
    ASSUME TypeOK, Nested(work), CoreInv, [Next]_vars, OtherStep,
           NEW o \in Objects, NEW t \in Threads, ShouldWait(o, t), ~ShouldWait(o, t)'
    PROVE  WakeupAll(o) \in Stacked'
<1>0. fault' = NoFault /\ top \in Stacked /\ top \in Frames
  BY OtherStepCases
<1>1. CASE o \in Threads /\ status[o] # "Dead"
  <2>1. status'[o] = "Dead"
    BY <1>1 DEF ShouldWait
  <2>2. StopStep /\ top.thread = o
    BY <1>1, <2>1, AliveStays
  <2> QED
    BY <2>2, StopStack
<1>2. CASE o \in Mutexes /\ lock_count[o] > 0 /\ holding_thread[o] # t
  <2>1. ~(lock_count'[o] > 0 /\ holding_thread'[o] # t)
    BY <1>2 DEF ShouldWait
  <2>2. CASE ReleaseMutexesStep
    <3>1. top.mutexes # {}
      BY <1>2, <2>1, <2>2 DEF ReleaseMutexesStep
    <3>2. PICK m \in top.mutexes :
             /\ lock_count' = [lock_count EXCEPT ![m] = 0]
             /\ holding_thread' = [holding_thread EXCEPT ![m] = NoThread]
             /\ Stacked' = {WakeupAll(m), ReleaseMutexes(top.thread, top.mutexes \ {m})} \cup Under
      BY <2>2, <3>1, ReleaseMutexesStack
    <3>3. m = o
      BY <1>2, <2>1, <3>2 DEF TypeOK
    <3> QED
      BY <3>2, <3>3
  <2>3. CASE AcquireStep
    <3>1. CASE UNCHANGED <<lock_count, holding_thread>>
      BY <1>2, <2>1, <3>1
    <3>2. CASE AcquireMutex(top.object, top.thread)
      <4>1. /\ lock_count' = [lock_count EXCEPT ![top.object] = @ + 1]
            /\ \/ lock_count[top.object] = 0
                  /\ holding_thread' = [holding_thread EXCEPT ![top.object] = top.thread]
               \/ holding_thread' = holding_thread
        BY <3>2 DEF AcquireMutex
      <4>2. lock_count \in [Mutexes -> Nat] /\ holding_thread \in [Mutexes -> Threads \cup {NoThread}]
        BY DEF TypeOK
      <4>3. lock_count'[o] > 0 /\ holding_thread'[o] = holding_thread[o]
        <5>1. CASE o = top.object
          BY <1>2, <4>1, <4>2, <5>1
        <5>2. CASE o # top.object
          BY <1>2, <4>1, <4>2, <5>2
        <5> QED
          BY <5>1, <5>2
      <4> QED
        BY <1>2, <2>1, <4>3
    <3> QED
      BY <1>0, <2>3, <3>1, <3>2 DEF AcquireStep, Fail, NoFault
  <2>4. CASE ~AcquireStep /\ ~ReleaseMutexesStep
    BY <1>2, <2>1, <2>4, OtherStepOwners
  <2> QED
    BY <2>2, <2>3, <2>4
<1>3. CASE o \in Semaphores /\ available_count[o] <= 0
  <2>1. ~(available_count'[o] <= 0)
    BY <1>3 DEF ShouldWait
  <2>2. ~UNCHANGED available_count
    BY <1>3, <2>1
  <2>3. AcquireStep
    BY <1>0, <2>2, OtherStepCases DEF UpdateMutexesStep, AddWaitingStep, RemoveWaitingStep,
       WakeupAllStep, CallbackStep, ResumeStep, StopStep, ReleaseMutexesStep,
       TerminateThreadsStep, ResumeArbitratedStep, Fail, NoFault
  <2>4. \/ UNCHANGED available_count
        \/ /\ available_count[top.object] > 0
           /\ available_count' = [available_count EXCEPT ![top.object] = @ - 1]
    BY <1>0, <2>3 DEF AcquireStep, Fail, NoFault
  <2>5. available_count \in [Semaphores -> Int]
    BY DEF TypeOK
  <2>6. available_count[o] \in Int /\ available_count'[o] = available_count[o]
    <3>1. o # top.object
      BY <1>3, <2>2, <2>4, <2>5
    <3> QED
      BY <1>3, <2>2, <2>4, <2>5, <3>1
  <2> QED
    BY <1>3, <2>1, <2>6
<1>4. CASE o \in Signals /\ ~signaled[o]
  <2>1. signaled'[o]
    BY <1>4 DEF ShouldWait
  <2>5. signaled \in [Signals -> BOOLEAN]
    BY DEF TypeOK
  <2>6. CASE signaled' = signaled
    BY <1>4, <2>1, <2>6
  <2>7. CASE signaled' = [signaled EXCEPT ![top.object] = FALSE]
    BY <1>4, <2>1, <2>5, <2>7
  <2>2. CASE AcquireStep
    BY <1>0, <2>2, <2>6, <2>7 DEF AcquireStep, Fail, NoFault
  <2>3. CASE WakeupAllStep
    BY <1>0, <2>3, <2>6, <2>7 DEF WakeupAllStep, Fail, NoFault
  <2>4. CASE ~AcquireStep /\ ~WakeupAllStep
    <3>1. UNCHANGED signaled
      BY <1>0, <2>4, OtherStepCases DEF UpdateMutexesStep, AddWaitingStep, RemoveWaitingStep,
         CallbackStep, ResumeStep, StopStep, ReleaseMutexesStep, TerminateThreadsStep,
         ResumeArbitratedStep, Fail, NoFault
    <3> QED
      BY <1>4, <2>1, <3>1
  <2> QED
    BY <2>2, <2>3, <2>4
<1> QED
  BY <1>1, <1>2, <1>3, <1>4 DEF ShouldWait

LEMMA EntryAvailable ==
    ASSUME TypeOK, Nested(work), CoreInv, [Next]_vars, Entry,
           NEW o \in Objects, NEW t \in Threads, ShouldWait(o, t), ~ShouldWait(o, t)'
    PROVE  WakeupAll(o) \in Stacked'
<1>0. Quiet
  BY EntryStack
<1>1. CASE o \in Threads /\ status[o] # "Dead"
  <2>1. status'[o] = "Dead"
    BY <1>1 DEF ShouldWait
  <2> QED
    BY <1>0, <1>1, <2>1, AliveStays DEF StopStep, Runs, Quiet
<1>2. CASE o \in Mutexes /\ lock_count[o] > 0 /\ holding_thread[o] # t
  <2>1. ~(lock_count'[o] > 0 /\ holding_thread'[o] # t) /\ lock_count[o] \in Nat
    BY <1>2 DEF ShouldWait, TypeOK
  <2>2. ~UNCHANGED <<lock_count, holding_thread>>
    BY <1>2, <2>1
  <2>3. PICK c \in Cores, x \in Threads, m \in Mutexes : ReleaseMutex(c, x, m)
    <3>1. ASSUME NEW c \in Cores, NEW x \in Threads
          PROVE  ~WaitSvc(c, x) /\ ~ThreadSvc(c, x)
      BY <2>2 DEF WaitSvc, WaitSynchronizationAny, WaitSynchronizationAll, SleepThread,
                  ArbitrateWait, ThreadSvc, CreateThread, MakeThread, ExitThread,
                  SetThreadPriority, TerminateProcess, ScheduleThreads
    <3>2. ASSUME NEW c \in Cores, NEW x \in Threads, SignalSvc(c, x)
          PROVE  \E m \in Mutexes : ReleaseMutex(c, x, m)
      BY <2>2, <3>2 DEF SignalSvc, ReleaseSemaphore, SignalEvent, ClearSignal, SetTimer,
                        CancelTimer, ArbitrateSignal
    <3> QED
      BY <2>2, <3>1, <3>2 DEF Entry, SetupMainThread, MakeThread, MakeSleeper, TimerCallback,
                              ThreadWakeupCallback
  <2>4. lock_count' = [lock_count EXCEPT ![m] = @ - 1]
    BY <2>3 DEF ReleaseMutex
  <2>5. CASE m = o /\ lock_count[m] = 1
    BY <2>3, <2>5, Wakes DEF ReleaseMutex
  <2>6. CASE m # o \/ lock_count[m] # 1
    <3>1. holding_thread'[o] = holding_thread[o]
      BY <1>2, <2>3, <2>6 DEF ReleaseMutex, TypeOK
    <3>2. lock_count'[o] > 0
      BY <1>2, <2>1, <2>4, <2>6 DEF TypeOK
    <3> QED
      BY <1>2, <2>1, <3>1, <3>2
  <2> QED
    BY <2>5, <2>6
<1>3. CASE o \in Semaphores /\ available_count[o] <= 0
  <2>1. available_count'[o] # available_count[o]
    BY <1>3 DEF ShouldWait
  <2>2. PICK c \in Cores, x \in Threads, s \in Semaphores, n \in ReleaseCounts :
           ReleaseSemaphore(c, x, s, n)
    <3>1. ASSUME NEW c \in Cores, NEW x \in Threads
          PROVE  ~WaitSvc(c, x) /\ ~ThreadSvc(c, x)
      BY <2>1 DEF WaitSvc, WaitSynchronizationAny, WaitSynchronizationAll, SleepThread,
                  ArbitrateWait, ThreadSvc, CreateThread, MakeThread, ExitThread,
                  SetThreadPriority, TerminateProcess, ScheduleThreads
    <3>2. ASSUME NEW c \in Cores, NEW x \in Threads, SignalSvc(c, x)
          PROVE  \E s \in Semaphores, n \in ReleaseCounts : ReleaseSemaphore(c, x, s, n)
      BY <2>1, <3>2 DEF SignalSvc, ReleaseMutex, SignalEvent, ClearSignal, SetTimer,
                        CancelTimer, ArbitrateSignal
    <3> QED
      BY <2>1, <3>1, <3>2 DEF Entry, SetupMainThread, MakeThread, MakeSleeper, TimerCallback,
                              ThreadWakeupCallback
  <2>3. s = o /\ work' = <<WakeupAll(s)>>
    BY <1>3, <2>1, <2>2 DEF ReleaseSemaphore, TypeOK
  <2> QED
    BY <2>3, Wakes
<1>4. CASE o \in Signals /\ ~signaled[o]
  <2>1. signaled'[o]
    BY <1>4 DEF ShouldWait
  <2>2. ASSUME NEW c \in Cores, NEW x \in Threads
        PROVE  ~WaitSvc(c, x) /\ ~ThreadSvc(c, x)
    BY <1>4, <2>1 DEF WaitSvc, WaitSynchronizationAny, WaitSynchronizationAll, SleepThread,
                      ArbitrateWait, ThreadSvc, CreateThread, MakeThread, ExitThread,
                      SetThreadPriority, TerminateProcess, ScheduleThreads
  <2>3. ASSUME NEW c \in Cores, NEW x \in Threads, SignalSvc(c, x)
        PROVE  WakeupAll(o) \in Stacked'
    <3>1. ASSUME NEW e \in Signals, signaled' = [signaled EXCEPT ![e] = FALSE]
          PROVE  FALSE
      BY <1>4, <2>1, <3>1 DEF TypeOK
    <3>2. ASSUME NEW e \in Signals, signaled' = [signaled EXCEPT ![e] = TRUE],
                 work' = <<WakeupAll(e)>>
          PROVE  WakeupAll(o) \in Stacked'
      <4>1. e = o
        BY <1>4, <2>1, <3>2 DEF TypeOK
      <4> QED
        BY <3>2, <4>1, Wakes
    <3>3. Events \subseteq Signals /\ Timers \subseteq Signals
      BY DEF Signals
    <3>4. ~UNCHANGED signaled
      BY <1>4, <2>1
    <3>5. ASSUME NEW e \in Timers, NEW delayed \in BOOLEAN, NEW interval \in BOOLEAN,
                 SetTimer(c, x, e, delayed, interval)
          PROVE  WakeupAll(o) \in Stacked'
      BY <3>2, <3>3, <3>4, <3>5 DEF SetTimer
    <3>6. ASSUME NEW e \in Events, SignalEvent(c, x, e)
          PROVE  WakeupAll(o) \in Stacked'
      BY <3>2, <3>3, <3>6 DEF SignalEvent
    <3>7. ASSUME NEW e \in Signals
          PROVE  ~ClearSignal(c, x, e)
      BY <3>1 DEF ClearSignal
    <3>8. /\ \A m \in Mutexes : ~ReleaseMutex(c, x, m)
          /\ \A s \in Semaphores, n \in ReleaseCounts : ~ReleaseSemaphore(c, x, s, n)
          /\ \A e \in Timers : ~CancelTimer(c, x, e)
          /\ \A a \in Arbiters, addr \in Addresses, n \in ArbitrateCounts :
                ~ArbitrateSignal(c, x, a, addr, n)
      BY <3>4 DEF ReleaseMutex, ReleaseSemaphore, CancelTimer, ArbitrateSignal
    <3> QED
      BY <2>3, <3>5, <3>6, <3>7, <3>8 DEF SignalSvc
  <2>4. ASSUME NEW c \in Cores, NEW e \in Timers, TimerCallback(c, e)
        PROVE  WakeupAll(o) \in Stacked'
    <3>1. signaled' = [signaled EXCEPT ![e] = TRUE] /\ work' = <<WakeupAll(e)>>
      BY <2>4 DEF TimerCallback
    <3>2. e = o
      BY <1>4, <2>1, <3>1 DEF TypeOK
    <3> QED
      BY <3>1, <3>2, Wakes
  <2> QED
    BY <1>4, <2>1, <2>2, <2>3, <2>4 DEF Entry, SetupMainThread, MakeThread, MakeSleeper, ThreadWakeupCallback
<1> QED
  BY <1>1, <1>2, <1>3, <1>4 DEF ShouldWait

LEMMA TurnsAvailable ==
    ASSUME TypeOK, Nested(work), CoreInv, [Next]_vars,
           NEW o \in Objects, NEW t \in Threads, ShouldWait(o, t), ~ShouldWait(o, t)'
    PROVE  WakeupAll(o) \in Stacked'
<1>1. CASE Scheduling
  <2>1. UNCHANGED <<lock_count, holding_thread, available_count, signaled>> /\ ~StopStep
    BY <1>1 DEF Scheduling, BoostStarvedStep, PopNextStep, RequeueStep, SwitchContextStep,
                Reschedule, StopStep, Runs, Quiet, Fail, NoFault
  <2>2. o \in Threads => (status[o] # "Dead" => status'[o] # "Dead")
    BY <2>1, AliveStays
  <2> QED
    BY <2>1, <2>2 DEF ShouldWait
<1>2. CASE UNCHANGED systemVars
  BY <1>2 DEF systemVars, ShouldWait
<1> QED
  BY <1>1, <1>2, NextCases, OtherAvailable, EntryAvailable DEF Scheduling

(***************************************************************************)
(* No wakeup is lost.                                                      *)
(***************************************************************************)
LEMMA WaitObjects ==
    ASSUME TypeOK, NEW t \in Threads
    PROVE  wait_objects[t] \in Seq(Objects) /\ Range(wait_objects[t]) \subseteq Objects
<1>1. wait_objects[t] \in Seq(Objects)
  BY DEF TypeOK
<1> QED
  BY <1>1, RangeEquality

(* A thread that sleeps on: what it waits for is still unavailable, or its *)
(* list is still to be gone through.                                       *)
LEMMA PendingKept ==
    ASSUME NEW t \in Threads, Pending(t),
           status'[t] = status[t], wait_objects'[t] = wait_objects[t],
           Resume(t) \in Stacked => Resume(t) \in Stacked',
           \A o \in Range(wait_objects[t]) :
              ShouldWait(o, t) => ShouldWait(o, t)' \/ WakeupAll(o) \in Stacked',
           \A o \in Range(wait_objects[t]) :
              WakeupAll(o) \in Stacked => ShouldWait(o, t)' \/ WakeupAll(o) \in Stacked'
    PROVE  Pending(t)'
BY DEF Pending

(* The loop over the waiting threads of o ends when none of them can go    *)
(* on.                                                                     *)
LEMMA WakeupAllEnds ==
    ASSUME TypeOK, Nested(work), WaitInv, OtherStep, NEW o \in Objects,
           WakeupAll(o) \in Stacked, WakeupAll(o) \notin Stacked',
           NEW t \in Threads, o \in Range(wait_objects[t])
    PROVE  ~ReadyToRun(o, t)
<1>1. /\ fault' = NoFault /\ work # <<>> /\ Stacked = {top} \cup Under /\ KernelStep
  BY OtherStepCases DEF OtherStep
<1>2. top = WakeupAll(o)
  BY <1>1, UnderStays
<1>3. top.op = "WakeupAll" /\ top.object = o
  BY <1>2 DEF WakeupAll
<1>4. WakeupAllStep
  BY <1>1, <1>3, StepOfTop
<1>5. HighestPriorityReady(o) = NoThread
  <2>1. HighestPriorityReady(o) # NoThread => Stacked \subseteq Stacked'
    BY <1>1, <1>3, <1>4, WakeupAllStack
  <2> QED
    BY <2>1
<1>6. ~Adding(t) /\ ~Removing(t)
  BY <1>3 DEF Adding, Removing
<1>7. o \in ListedBy(t)
  BY <1>6 DEF WaitInv
<1> QED
  BY <1>5, <1>7, HighestPriorityReadyListed DEF ListedBy

LEMMA OtherPending ==
    ASSUME TypeOK, Nested(work), CoreInv, WaitInv, WakesResume, WakeupsPending, [Next]_vars,
           OtherStep, ~Entry, NEW t \in Threads
    PROVE  Pending(t)'
<1> SUFFICES ASSUME status'[t] \in WaitingOnObjects
             PROVE  Pending(t)'
  BY DEF Pending, WaitingOnObjects
<1>1. status[t] = status'[t] /\ status[t] \in WaitingStatus
  BY AsleepBefore DEF WaitingStatus, WaitingOnObjects
<1>2. Resume(t) \in Stacked => Resume(t) \in Stacked'
  BY <1>1, ResumeStays
<1>3. CASE Resume(t) \in Stacked
  BY <1>2, <1>3 DEF Pending
<1>4. CASE Resume(t) \notin Stacked
  <2>1. wait_objects'[t] = wait_objects[t]
    <3>1. CASE RemoveWaitingStep
      <4>1. top \in Stacked /\ top.op = "RemoveWaiting"
        BY <3>1, OtherStepCases, TopOfStep
      <4>2. PICK x \in Threads : x = top.thread
        BY <4>1, StackedThreads
      <4>3. x # t
        BY <1>1, <1>4, <4>1, <4>2 DEF WakesResume
      <4>4. \/ UNCHANGED wait_objects
            \/ wait_objects' = [wait_objects EXCEPT ![x] = Tail(@)]
        BY <3>1, <4>2 DEF RemoveWaitingStep
      <4> QED
        BY <4>3, <4>4 DEF TypeOK
    <3>2. CASE AddWaitingStep
      BY <3>2 DEF AddWaitingStep
    <3>3. CASE ~AddWaitingStep /\ ~RemoveWaitingStep
      BY <3>3, OtherStepLists
    <3> QED
      BY <3>1, <3>2, <3>3
  <2>2. Range(wait_objects[t]) \subseteq Objects
    BY WaitObjects
  <2>3. \A o \in Range(wait_objects[t]) :
           ShouldWait(o, t) => ShouldWait(o, t)' \/ WakeupAll(o) \in Stacked'
    BY <2>2, TurnsAvailable
  <2>4. Pending(t)
    BY DEF WakeupsPending, Pending
  <2>5. CASE \A o \in Range(wait_objects[t]) :
                WakeupAll(o) \in Stacked => ShouldWait(o, t)' \/ WakeupAll(o) \in Stacked'
    BY <1>1, <1>2, <2>1, <2>3, <2>4, <2>5, PendingKept
  <2>6. ASSUME NEW o \in Range(wait_objects[t]), WakeupAll(o) \in Stacked,
               ~ShouldWait(o, t)', WakeupAll(o) \notin Stacked'
        PROVE  Pending(t)'
    <3>1. ~ReadyToRun(o, t)
      BY <2>2, <2>6, WakeupAllEnds
    <3>2. ~ShouldWait(o, t)
      BY <2>3, <2>6
    <3>3. PICK x \in Range(wait_objects[t]) : ShouldWait(x, t) /\ status[t] = "WaitSynchAll"
      BY <3>1, <3>2 DEF ReadyToRun
    <3>4. ShouldWait(x, t)' \/ WakeupAll(x) \in Stacked'
      BY <2>3, <3>3
    <3> QED
      BY <1>1, <2>1, <3>3, <3>4 DEF Pending
  <2> QED
    BY <2>5, <2>6
<1> QED
  BY <1>3, <1>4

(* A wait that goes to sleep could not go on.                              *)
LEMMA SleepsPending ==
    ASSUME TypeOK, NEW c \in Cores, NEW t \in Threads, NEW os \in WaitLists, NEW timeout,
           \/ WaitSynchronizationAny(c, t, os, timeout)
           \/ WaitSynchronizationAll(c, t, os, timeout),
           status[t] = "Running", status'[t] # "Running"
    PROVE  Pending(t)'
<1>1. os \in Seq(Objects) /\ Range(os) = {os[i] : i \in 1..Len(os)}
  BY SyncAssumption, RangeEquality
<1>2. UNCHANGED <<lock_count, holding_thread, available_count, signaled>>
  BY DEF WaitSynchronizationAny, WaitSynchronizationAll
<1>3. ASSUME NEW s, Sleeps(c, t, os, s, timeout), s \in WaitingOnObjects,
             NEW o, ShouldWait(o, t)
      PROVE  ShouldWait(o, t)'
  <2>1. s # "Dead" /\ status' = [status EXCEPT ![t] = s]
    BY <1>3 DEF WaitingOnObjects, Sleeps
  <2>2. o \in Threads => (status[o] # "Dead" => status'[o] # "Dead")
    BY <2>1 DEF TypeOK
  <2> QED
    BY <1>2, <1>3, <2>2 DEF ShouldWait
<1>4. CASE WaitSynchronizationAny(c, t, os, timeout)
  <2>1. /\ \A i \in 1..Len(os) : ShouldWait(os[i], t)
        /\ Sleeps(c, t, os, "WaitSynchAny", timeout)
    <3>1. ~ \E ps : Grants(t, ps)
      BY DEF Grants
    <3> QED
      BY <1>4, <3>1 DEF WaitSynchronizationAny
  <2>2. \A o \in Range(os) : ShouldWait(o, t)'
    BY <1>1, <1>3, <2>1 DEF WaitingOnObjects
  <2>3. wait_objects'[t] = os /\ status'[t] = "WaitSynchAny"
    BY <2>1 DEF Sleeps, TypeOK
  <2> QED
    BY <2>2, <2>3 DEF Pending
<1>5. CASE WaitSynchronizationAll(c, t, os, timeout)
  <2>1. /\ \E o \in Range(os) : ShouldWait(o, t)
        /\ Sleeps(c, t, os, "WaitSynchAll", timeout)
    <3>1. ~Grants(t, os)
      BY DEF Grants
    <3> QED
      BY <1>5, <3>1 DEF WaitSynchronizationAll
  <2>2. \E o \in Range(os) : ShouldWait(o, t)'
    BY <1>3, <2>1 DEF WaitingOnObjects
  <2>3. wait_objects'[t] = os /\ status'[t] = "WaitSynchAll"
    BY <2>1 DEF Sleeps, TypeOK
  <2> QED
    BY <2>2, <2>3 DEF Pending
<1> QED
  BY <1>4, <1>5

LEMMA EntryPending ==
    ASSUME TypeOK, Nested(work), CoreInv, WakeupsPending, [Next]_vars, Entry, NEW t \in Threads
    PROVE  Pending(t)'
<1> SUFFICES ASSUME status'[t] \in WaitingOnObjects
             PROVE  Pending(t)'
  BY DEF Pending, WaitingOnObjects
<1>0. Stacked = {}
  BY EntryStack
<1>1. status'[t] \in WaitingStatus /\ status'[t] \notin {"WaitSleep", "WaitArb", "Running"}
  BY DEF WaitingStatus, WaitingOnObjects
<1>2. ASSUME wait_objects'[t] = wait_objects[t], status'[t] = status[t]
      PROVE  Pending(t)'
  <2>1. Range(wait_objects[t]) \subseteq Objects
    BY WaitObjects
  <2>2. \A o \in Range(wait_objects[t]) :
           ShouldWait(o, t) => ShouldWait(o, t)' \/ WakeupAll(o) \in Stacked'
    BY <2>1, TurnsAvailable
  <2>3. Pending(t)
    BY DEF WakeupsPending, Pending
  <2> QED
    BY <1>0, <1>2, <2>2, <2>3, PendingKept
<1>3. ASSUME NEW c \in Cores, NEW x \in Threads, NEW os \in WaitLists, NEW timeout \in Timeouts,
             \/ WaitSynchronizationAny(c, x, os, timeout)
             \/ WaitSynchronizationAll(c, x, os, timeout)
      PROVE  Pending(t)'
  <2>1. Svc(c, x)
    BY <1>3 DEF WaitSynchronizationAny, WaitSynchronizationAll
  <2>2. status[x] = "Running"
    BY <2>1, CallerRuns DEF CoreInv
  <2>3. CASE x = t
    BY <1>1, <1>3, <2>2, <2>3, SleepsPending
  <2>4. CASE x # t
    <3>1. \/ \E ps \in Seq(Objects) : Grants(x, ps)
          \/ \E s \in WaitingOnObjects : Sleeps(c, x, os, s, timeout)
      BY <1>3, WaitCases
    <3>2. status'[t] = status[t] /\ wait_objects'[t] = wait_objects[t]
      BY <2>4, <3>1 DEF Grants, Sleeps, TypeOK
    <3> QED
      BY <1>2, <3>2
  <2> QED
    BY <2>3, <2>4
<1>4. CASE ~ \E c \in Cores, x \in Threads, os \in WaitLists, timeout \in Timeouts :
                \/ WaitSynchronizationAny(c, x, os, timeout)
                \/ WaitSynchronizationAll(c, x, os, timeout)
  <2>1. ASSUME NEW c \in Cores, NEW x \in Threads, WaitSvc(c, x)
        PROVE  wait_objects' = wait_objects /\ status'[t] = status[t]
    <3>1. \/ \E timeout \in Timeouts : SleepThread(c, x, timeout)
          \/ \E a \in Arbiters, addr \in Addresses, timeout \in Timeouts :
                ArbitrateWait(c, x, a, addr, timeout)
      BY <1>4, <2>1 DEF WaitSvc
    <3>2. /\ wait_objects' = wait_objects
          /\ \/ status' = [status EXCEPT ![x] = "WaitSleep"]
             \/ status' = [status EXCEPT ![x] = "WaitArb"]
      BY <3>1 DEF SleepThread, ArbitrateWait
    <3> QED
      BY <1>1, <3>2 DEF TypeOK
  <2>2. ASSUME NEW c \in Cores, NEW x \in Threads, SignalSvc(c, x)
        PROVE  wait_objects' = wait_objects /\ status' = status
    BY <2>2 DEF SignalSvc, ReleaseMutex, ReleaseSemaphore, SignalEvent, ClearSignal, SetTimer,
                CancelTimer, ArbitrateSignal
  <2>3. ASSUME NEW x \in Threads, MakeThread(x) \/ MakeSleeper(x)
        PROVE  wait_objects' = wait_objects /\ status'[t] = status[t]
    <3>1. /\ wait_objects' = wait_objects
          /\ \/ status' = [status EXCEPT ![x] = "Ready"]
             \/ status' = [status EXCEPT ![x] = "WaitSleep"]
      BY <2>3 DEF MakeThread, MakeSleeper
    <3>2. "Ready" \notin WaitingOnObjects /\ "WaitSleep" \notin WaitingOnObjects
      BY DEF WaitingOnObjects
    <3> QED
      BY <1>1, <3>1, <3>2 DEF TypeOK
  <2>4. ASSUME NEW c \in Cores, NEW x \in Threads, ThreadSvc(c, x)
        PROVE  wait_objects' = wait_objects /\ status'[t] = status[t]
    BY <2>3, <2>4 DEF ThreadSvc, CreateThread, ExitThread, SetThreadPriority,
                      TerminateProcess, ScheduleThreads
  <2>5. wait_objects' = wait_objects /\ status'[t] = status[t]
    BY <2>1, <2>2, <2>3, <2>4, SyncAssumption DEF Entry, SetupMainThread, TimerCallback,
       ThreadWakeupCallback
  <2> QED
    BY <1>2, <2>5
<1> QED
  BY <1>3, <1>4

LEMMA WakeupsPendingNext ==
    ASSUME TypeOK, Nested(work), CoreInv, WaitInv, WakesResume, WakeupsPending, [Next]_vars
    PROVE  WakeupsPending'
<1>1. ASSUME NEW t \in Threads
      PROVE  Pending(t)'
  <2>1. CASE Entry
    BY <2>1, EntryPending
  <2>2. CASE OtherStep /\ ~Entry
    BY <2>2, OtherPending
  <2>3. CASE (Scheduling \/ UNCHANGED systemVars) /\ ~Entry
    <3>1. wait_objects' = wait_objects
      BY <2>3 DEF Scheduling, BoostStarvedStep, PopNextStep, RequeueStep, SwitchContextStep,
                  Reschedule, Fail, NoFault, systemVars
    <3>2. Range(wait_objects[t]) \subseteq Objects
      BY WaitObjects
    <3>3. \A o \in Range(wait_objects[t]) :
             ShouldWait(o, t) => ShouldWait(o, t)' \/ WakeupAll(o) \in Stacked'
      BY <3>2, TurnsAvailable
    <3>4. \/ \A f : f \in Stacked => f.op \in SchedulingOps
          \/ Stacked' = Stacked
      <4>1. CASE Scheduling
        BY <4>1, SchedulingStacks
      <4>2. CASE UNCHANGED systemVars
        BY <4>2 DEF systemVars, Stacked
      <4> QED
        BY <2>3, <4>1, <4>2
    <3>5. \A x : /\ Resume(x) \in Stacked => Resume(x) \in Stacked'
                 /\ WakeupAll(x) \in Stacked => WakeupAll(x) \in Stacked'
      BY <3>4 DEF Resume, WakeupAll, SchedulingOps
    <3>6. CASE status'[t] \in WaitingOnObjects
      <4>1. status'[t] = status[t]
        BY <2>3, <3>6, AsleepBefore DEF WaitingStatus
      <4>2. Pending(t)
        BY DEF WakeupsPending, Pending
      <4> QED
        BY <3>1, <3>3, <3>5, <4>1, <4>2, PendingKept
    <3>7. CASE status'[t] \notin WaitingOnObjects
      BY <3>7 DEF Pending, WaitingOnObjects
    <3> QED
      BY <3>6, <3>7
  <2> QED
    BY <2>1, <2>2, <2>3, NextCases DEF Scheduling
<1> QED
  BY <1>1 DEF WakeupsPending, Pending

(* When no kernel code runs, no thread sleeps on objects that it could     *)
(* take: whichever object became available, whoever took it first, however *)
(* many objects the thread waits for, WakeupAllWaitingThreads of an object *)
(* that became available has woken it (wait_object.cpp; Thread::Stop,      *)
(* mutex.cpp, semaphore.cpp, event.cpp, timer.cpp).                        *)
THEOREM NoWakeupIsLost == Orderly /\ Spec => []NoLostWakeup
<1> DEFINE Wakeups == WakesResume /\ WakeupsPending
<1>1. Init => Wakeups
  BY QuietStack DEF Init, WakesResume, WakeupsPending, Pending
<1>2. TypeOK /\ (Nested(work) /\ CoreInv) /\ (LockInv /\ WaitInv) /\ Wakeups /\ [Next]_vars
      => Wakeups'
  BY WakesResumeNext, WakeupsPendingNext
<1>3. Wakeups => NoLostWakeup
  BY QuietStack DEF WakeupsPending, Pending, NoLostWakeup, CouldWake, Quiet
<1> HIDE DEF Wakeups
<1> QED
  BY <1>1, <1>2, <1>3, TypeCorrect, CoresCorrect, LocksCorrect, PTL DEF Spec

(***************************************************************************)
(* Who is called when a wait ends.                                         *)
(***************************************************************************)
LEMMA CallbacksMatchNext ==
    ASSUME TypeOK, Nested(work), CoreInv, CallbacksMatch, [Next]_vars
    PROVE  CallbacksMatch'
<1> SUFFICES ASSUME NEW t \in Threads
             PROVE  CallbackMatches(t)'
  BY DEF CallbacksMatch
<1>0. CallbackMatches(t)
  BY DEF CallbacksMatch
<1>1. ASSUME wakeup_callback'[t] = wakeup_callback[t], status'[t] = status[t]
      PROVE  CallbackMatches(t)'
  BY <1>0, <1>1 DEF CallbackMatches
<1>2. ASSUME wakeup_callback'[t] = wakeup_callback[t], status[t] \in {"Free", "Ready", "Running"},
             status'[t] \in {"Ready", "Running", "WaitSleep", "WaitArb"}
      PROVE  CallbackMatches(t)'
  BY <1>0, <1>2 DEF CallbackMatches, WaitingOnObjects
<1>3. CASE OtherStep
  <2>1. CASE ResumeStep
    <3>1. PICK x \in Threads : x = top.thread
      BY <1>3, <2>1, OtherStepCases, StackedThreads, TopOfStep
    <3>2. \/ UNCHANGED <<status, wakeup_callback>>
          \/ /\ wakeup_callback' = [wakeup_callback EXCEPT ![x] = "none"]
             /\ status' = [status EXCEPT ![x] = "Ready"]
      BY <2>1, <3>1 DEF ResumeStep, Fail, systemVars
    <3>3. CASE x = t /\ wakeup_callback' = [wakeup_callback EXCEPT ![x] = "none"]
               /\ status' = [status EXCEPT ![x] = "Ready"]
      BY <3>3 DEF CallbackMatches, WaitingOnObjects, TypeOK
    <3> QED
      BY <1>1, <3>2, <3>3 DEF TypeOK
  <2>2. CASE StopStep
    <3>1. wakeup_callback' = wakeup_callback /\ status' = [status EXCEPT ![top.thread] = "Dead"]
      BY <2>2 DEF StopStep
    <3>2. status'[t] = status[t] \/ status'[t] = "Dead"
      BY <3>1 DEF TypeOK
    <3> QED
      BY <1>1, <3>1, <3>2 DEF CallbackMatches, WaitingOnObjects
  <2>3. CASE ~ResumeStep /\ ~StopStep
    <3>1. status' = status
      BY <1>3, <2>3, OtherStepStatus
    <3>2. wakeup_callback' = wakeup_callback
      BY <1>3, <2>3, OtherStepCases DEF UpdateMutexesStep, AcquireStep, AddWaitingStep,
         RemoveWaitingStep, WakeupAllStep, CallbackStep, ReleaseMutexesStep,
         TerminateThreadsStep, ResumeArbitratedStep, Fail, NoFault
    <3> QED
      BY <1>1, <3>1, <3>2
  <2> QED
    BY <2>1, <2>2, <2>3
<1>4. CASE Entry
  <2>1. ASSUME NEW c \in Cores, NEW x \in Threads, WaitSvc(c, x)
        PROVE  CallbackMatches(t)'
    <3>1. status[x] = "Running"
      BY <2>1, SvcCalled, CallerRuns DEF CoreInv
    <3>2. CASE \E os \in WaitLists, timeout \in Timeouts :
                  \/ WaitSynchronizationAny(c, x, os, timeout)
                  \/ WaitSynchronizationAll(c, x, os, timeout)
      <4>1. \/ UNCHANGED <<status, wakeup_callback>>
            \/ \E s \in WaitingOnObjects :
                  /\ status' = [status EXCEPT ![x] = s]
                  /\ wakeup_callback' = [wakeup_callback EXCEPT ![x] = "sync"]
        BY <3>2, WaitCases DEF Grants, Sleeps
      <4>2. ASSUME NEW s \in WaitingOnObjects, status' = [status EXCEPT ![x] = s], x = t,
                   wakeup_callback' = [wakeup_callback EXCEPT ![x] = "sync"]
            PROVE  CallbackMatches(t)'
        BY <4>2 DEF CallbackMatches, WaitingOnObjects, TypeOK
      <4> QED
        BY <1>1, <4>1, <4>2 DEF TypeOK
    <3>3. CASE \E timeout \in Timeouts : SleepThread(c, x, timeout)
      <4>1. status' = [status EXCEPT ![x] = "WaitSleep"] /\ wakeup_callback' = wakeup_callback
        BY <3>3 DEF SleepThread
      <4> QED
        BY <1>1, <1>2, <3>1, <4>1 DEF TypeOK
    <3>4. ASSUME NEW a \in Arbiters, NEW addr \in Addresses, NEW timeout \in Timeouts,
                 ArbitrateWait(c, x, a, addr, timeout)
          PROVE  CallbackMatches(t)'
      <4>1. /\ status' = [status EXCEPT ![x] = "WaitArb"]
            /\ \/ wakeup_callback' = wakeup_callback
               \/ wakeup_callback' = [wakeup_callback EXCEPT ![x] = a]
        BY <3>4 DEF ArbitrateWait
      <4>2. CASE x = t
        <5>1. wakeup_callback[t] = "none"
          BY <1>0, <3>1, <4>2 DEF CallbackMatches, WaitingOnObjects
        <5> QED
          BY <4>1, <4>2, <5>1 DEF CallbackMatches, WaitingOnObjects, TypeOK
      <4>3. CASE x # t
        BY <1>1, <4>1, <4>3 DEF TypeOK
      <4> QED
        BY <4>2, <4>3
    <3> QED
      BY <2>1, <3>2, <3>3, <3>4 DEF WaitSvc
  <2>2. ASSUME NEW x \in Threads, MakeThread(x) \/ MakeSleeper(x)
        PROVE  CallbackMatches(t)'
    <3>1. /\ status[x] = "Free"
          /\ \/ status' = [status EXCEPT ![x] = "Ready"]
             \/ status' = [status EXCEPT ![x] = "WaitSleep"]
          /\ wakeup_callback' = wakeup_callback
      BY <2>2 DEF MakeThread, MakeSleeper
    <3> QED
      BY <1>1, <1>2, <3>1 DEF TypeOK
  <2>3. ASSUME NEW c \in Cores, NEW x \in Threads, SignalSvc(c, x) \/ ThreadSvc(c, x)
        PROVE  CallbackMatches(t)'
    <3>1. UNCHANGED <<status, wakeup_callback>> \/ \E y \in Threads : MakeThread(y)
      BY <2>3 DEF SignalSvc, ReleaseMutex, ReleaseSemaphore, SignalEvent, ClearSignal, SetTimer,
                  CancelTimer, ArbitrateSignal, ThreadSvc, CreateThread, ExitThread,
                  SetThreadPriority, TerminateProcess, ScheduleThreads
    <3> QED
      BY <1>1, <2>2, <3>1
  <2>4. CASE \E c \in Cores, e \in Timers : TimerCallback(c, e)
    BY <1>1, <2>4 DEF TimerCallback
  <2>5. CASE \E x \in Threads : ThreadWakeupCallback(x)
    BY <1>1, <2>5 DEF ThreadWakeupCallback
  <2>6. CASE \E p \in Processes : SetupMainThread(p)
    BY <2>2, <2>6, SyncAssumption DEF SetupMainThread
  <2> QED
    BY <1>4, <2>1, <2>3, <2>4, <2>5, <2>6 DEF Entry
<1>5. CASE SwitchContextStep /\ fault' = NoFault
  <2>1. wakeup_callback' = wakeup_callback
    BY <1>5 DEF SwitchContextStep
  <2>2. \/ status'[t] = status[t]
        \/ status[t] \in {"Ready", "Running"} /\ status'[t] \in {"Ready", "Running"}
    BY <1>5, SwitchedStatus
  <2> QED
    BY <1>1, <1>2, <2>1, <2>2
<1>6. CASE BoostStarvedStep \/ PopNextStep \/ RequeueStep \/ (\E c \in Cores : Reschedule(c))
           \/ UNCHANGED systemVars
  <2>1. UNCHANGED <<status, wakeup_callback>>
    BY <1>6 DEF BoostStarvedStep, PopNextStep, RequeueStep, Reschedule, Fail, systemVars
  <2> QED
    BY <1>1, <2>1
<1> QED
  BY <1>3, <1>4, <1>5, <1>6, NextCases

(***************************************************************************)
(* What a wait returns is what it has taken.                               *)
(***************************************************************************)
LEMMA OutcomeKept ==
    ASSUME NEW t \in Threads, OutcomeOf(t),
           status'[t] = status[t], outcome'[t] = outcome[t], acquired'[t] = acquired[t],
           status[t] \in WaitingOnObjects =>
              /\ Resume(t) \in Stacked => Resume(t) \in Stacked'
              /\ \A r \in Reasons : Callback(t, r) \in Stacked' <=> Callback(t, r) \in Stacked
              /\ Acquiring(t)' <=> Acquiring(t)
    PROVE  OutcomeOf(t)'
<1>1. CASE status[t] \in WaitingOnObjects
  BY <1>1 DEF OutcomeOf, Asleep, Reasons
<1>2. CASE status[t] \notin WaitingOnObjects
  BY <1>2 DEF OutcomeOf
<1> QED
  BY <1>1, <1>2

(* The calls on behalf of a thread that the step is not about stay.        *)
LEMMA SameCalls ==
    ASSUME TypeOK, Nested(work), OtherStep, NEW t \in Threads,
           top.op \in {"Acquire", "Callback"} => top.thread # t,
           WakeupAllStep => HighestPriorityReady(top.object) # t
    PROVE  /\ \A r \in Reasons : Callback(t, r) \in Stacked' <=> Callback(t, r) \in Stacked
           /\ Acquiring(t)' <=> Acquiring(t)
<1>1. ASSUME NEW f, f.op \in {"Acquire", "Callback"}, f.thread = t
      PROVE  f \in Stacked' <=> f \in Stacked
  <2>1. f # top
    BY <1>1
  <2>2. f \in Stacked => f \in Stacked'
    BY <2>1, OtherStepCases, UnderStays
  <2>3. ASSUME f \in Stacked', f \notin Stacked
        PROVE  FALSE
    <3>1. WakeupAllStep
      BY <1>1, <2>3, OtherCalls DEF WakeupAll, RemoveWaiting, ReleaseMutexes, Resume
    <3>2. PICK x : x = HighestPriorityReady(top.object)
      OBVIOUS
    <3>3. top.op = "WakeupAll"
      BY <3>1, TopOfStep
    <3>4. f \in {Acquire(o, x) : o \in Range(Taken(top.object, x))}
               \cup {Callback(x, "Signal"), RemoveWaiting(x), Resume(x)}
      BY <1>1, <2>3, <3>1, <3>2, <3>3, OtherCalls, TopOfStep DEF Resume
    <3>5. f.thread = x
      BY <3>4 DEF Acquire, Callback, RemoveWaiting, Resume
    <3> QED
      BY <1>1, <3>1, <3>2, <3>5
  <2> QED
    BY <2>2, <2>3
<1>2. \A r \in Reasons : Callback(t, r).op = "Callback" /\ Callback(t, r).thread = t
  BY DEF Callback
<1> QED
  BY <1>1, <1>2 DEF Acquiring

(* Under the call that runs are no others of the same wait that come       *)
(* before it.                                                              *)
LEMMA CallOrder ==
    ASSUME TypeOK, Nested(work), work # <<>>
    PROVE  /\ top.op = "Callback" => \A f \in Under : f.op \notin {"Acquire", "Callback"}
           /\ top.op \in {"WakeupAll", "Resume"} =>
                 \A f \in Stacked : f.op \notin {"Acquire", "Callback"}
<1>1. Stacked = {top} \cup Under /\ \A f \in Under : f.op \in Beneath(top.op)
  BY Innermost
<1> QED
  BY <1>1, BeneathEach DEF Ending

LEMMA AcquireOutcome ==
    ASSUME TypeOK, Nested(work), WakesResume, OutcomeInv, OtherStep, AcquireStep,
           NEW t \in Threads
    PROVE  OutcomeOf(t)'
<1>0. top \in Stacked /\ Stacked = {top} \cup Under /\ top.op = "Acquire" /\ Under \subseteq Stacked'
  BY OtherStepCases, TopOfStep, UnderStays
<1>1. PICK x \in Threads, o \in Objects : x = top.thread /\ o = top.object
  BY <1>0, StackedThreads
<1>2. /\ status' = status /\ outcome' = outcome
      /\ acquired' = IF status[x] \in WaitingOnObjects
                     THEN [acquired EXCEPT ![x] = @ \cup {o}] ELSE acquired
  BY <1>1 DEF OtherStep, AcquireStep, Fail, NoFault
<1>3. OutcomeOf(t)
  BY DEF OutcomeInv
<1>4. CASE t # x
  <2>1. acquired'[t] = acquired[t]
    BY <1>2, <1>4 DEF TypeOK
  <2>2. Resume(t) \in Stacked => Resume(t) \in Stacked'
    BY <1>0 DEF Resume
  <2>3. ~WakeupAllStep
    BY <1>0, TopOfStep
  <2> QED
    BY <1>1, <1>2, <1>3, <1>4, <2>1, <2>2, <2>3, OutcomeKept, SameCalls
<1>5. CASE t = x /\ status[t] \notin WaitingOnObjects
  BY <1>2, <1>3, <1>5, OutcomeKept
<1>6. CASE t = x /\ status[t] \in WaitingOnObjects
  <2>1. acquired'[t] # {}
    BY <1>2, <1>6 DEF TypeOK
  <2>2. Asleep(t)
    BY <1>3, <1>6 DEF OutcomeOf
  <2>3. Acquiring(t)
    BY <1>0, <1>1, <1>6 DEF Acquiring
  <2>4. Resume(t) \in Stacked /\ Callback(t, "Signal") \in Stacked
        /\ Callback(t, "Timeout") \notin Stacked
    BY <1>0, <1>1, <1>6, <2>2, <2>3 DEF Asleep, WakesResume, WaitingStatus
  <2>5. Resume(t) \in Stacked' /\ Callback(t, "Signal") \in Stacked'
    BY <1>0, <2>4 DEF Resume, Callback
  <2>6. Callback(t, "Timeout") \notin Stacked'
    <3>1. Stacked' = Under
      BY AcquireStack DEF OtherStep
    <3> QED
      BY <1>0, <2>4, <3>1
  <2>7. Asleep(t)'
    BY <2>1, <2>5, <2>6 DEF Asleep
  <2> QED
    BY <1>2, <1>6, <2>7 DEF OutcomeOf, WaitingOnObjects
<1> QED
  BY <1>4, <1>5, <1>6

LEMMA WakeupAllOutcome ==
    ASSUME TypeOK, Nested(work), WaitInv, OutcomeInv, OtherStep, WakeupAllStep,
           NEW t \in Threads
    PROVE  OutcomeOf(t)'
<1>0. /\ top \in Stacked /\ Stacked = {top} \cup Under /\ top.op = "WakeupAll"
      /\ Under \subseteq Stacked' /\ work # <<>> /\ fault' = NoFault
  BY OtherStepCases, TopOfStep, UnderStays
<1>1. status' = status /\ outcome' = outcome /\ acquired' = acquired
  BY <1>0 DEF WakeupAllStep, Fail, NoFault
<1>2. OutcomeOf(t)
  BY DEF OutcomeInv
<1>3. Resume(t) \in Stacked => Resume(t) \in Stacked'
  BY <1>0 DEF Resume
<1>4. CASE HighestPriorityReady(top.object) # t
  BY <1>0, <1>1, <1>2, <1>3, <1>4, OutcomeKept, SameCalls
<1>5. CASE HighestPriorityReady(top.object) = t
  <2>1. t # NoThread
    BY CoreAssumption
  <2>2. PICK o \in Objects : o = top.object
    BY <1>0, StackedThreads
  <2>3. /\ t \in Range(waiting_threads[o]) /\ status[t] \in WaitingOnObjects
        /\ Taken(o, t) \in Seq(Objects)
    BY <1>0, <1>5, <2>1, <2>2, WokenSleeps
  <2>4. Stacked' = {Acquire(x, t) : x \in Range(Taken(o, t))}
                   \cup {Callback(t, "Signal"), RemoveWaiting(t), Resume(t)} \cup Stacked
    BY <1>0, <1>5, <2>1, <2>2, WakeupAllStack
  <2>5. o \in Range(Taken(o, t))
    <3>1. o \in Range(wait_objects[t])
      BY <2>3 DEF WaitInv, ListedBy
    <3>2. 1 \in 1..Len(<<o>>) /\ <<o>>[1] = o
      OBVIOUS
    <3>3. o \in Range(<<o>>)
      BY <3>2 DEF Range
    <3> QED
      BY <3>1, <3>3 DEF Taken
  <2>6. Acquiring(t)'
    <3>1. Acquire(o, t) \in Stacked'
      BY <2>4, <2>5
    <3> QED
      BY <3>1 DEF Acquiring, Acquire
  <2>7. Callback(t, "Timeout") \notin Stacked'
    <3>1. Callback(t, "Timeout") \notin Stacked
      BY <1>0, CallOrder DEF Callback
    <3> QED
      BY <2>4, <3>1 DEF Acquire, Callback, RemoveWaiting, Resume
  <2>8. Asleep(t)
    BY <1>2, <2>3 DEF OutcomeOf
  <2>9. Asleep(t)'
    BY <1>1, <2>4, <2>6, <2>7, <2>8 DEF Asleep
  <2> QED
    BY <1>1, <2>3, <2>9 DEF OutcomeOf, WaitingOnObjects
<1> QED
  BY <1>4, <1>5

LEMMA CallbackOutcome ==
    ASSUME TypeOK, Nested(work), CallbacksMatch, OutcomeInv, OtherStep, CallbackStep,
           NEW t \in Threads
    PROVE  OutcomeOf(t)'
<1>0. /\ top \in Stacked /\ Stacked = {top} \cup Under /\ top.op = "Callback"
      /\ Under \subseteq Stacked' /\ work # <<>> /\ fault' = NoFault
  BY OtherStepCases, TopOfStep, UnderStays
<1>1. PICK x \in Threads, r \in Reasons : top = Callback(x, r)
  <2>1. top \in Frames
    BY OtherStepCases
  <2>2. top \in [op : {"Callback"}, thread : Threads, reason : Reasons]
    BY <1>0, <2>1 DEF Frames
  <2> QED
    BY <2>2 DEF Callback
<1>2. top.thread = x /\ top.reason = r
  BY <1>1 DEF Callback
<1>3. /\ status' = status /\ acquired' = acquired
      /\ outcome' = IF wakeup_callback[x] = "sync" THEN [outcome EXCEPT ![x] = r] ELSE outcome
  BY <1>0, <1>2 DEF CallbackStep, Fail, NoFault
<1>4. OutcomeOf(t) /\ CallbackMatches(x)
  BY DEF OutcomeInv, CallbacksMatch
<1>5. CASE t # x
  <2>1. outcome'[t] = outcome[t]
    BY <1>3, <1>5 DEF TypeOK
  <2>2. Resume(t) \in Stacked => Resume(t) \in Stacked'
    BY <1>0 DEF Resume
  <2>3. ~WakeupAllStep
    BY <1>0, TopOfStep
  <2> QED
    BY <1>2, <1>3, <1>4, <1>5, <2>1, <2>2, <2>3, OutcomeKept, SameCalls
<1>6. CASE t = x /\ status[t] \notin WaitingOnObjects
  <2>1. CASE status[t] = "Dead"
    BY <1>3, <2>1 DEF OutcomeOf, WaitingOnObjects
  <2>2. CASE status[t] # "Dead"
    <3>1. wakeup_callback[x] # "sync"
      BY <1>4, <1>6, <2>2, KindsAssumption DEF CallbackMatches
    <3> QED
      BY <1>3, <1>4, <1>6, <3>1, OutcomeKept
  <2> QED
    BY <2>1, <2>2
<1>7. CASE t = x /\ status[t] \in WaitingOnObjects
  <2>1. outcome'[t] = r
    BY <1>3, <1>4, <1>7 DEF CallbackMatches, TypeOK
  <2>2. Asleep(t)
    BY <1>4, <1>7 DEF OutcomeOf
  <2>3. ~Acquiring(t)
    BY <1>0, CallOrder DEF Acquiring
  <2>4. Callback(t, r) \in Stacked
    BY <1>0, <1>1, <1>7
  <2>5. Stacked' = Under
    BY <1>0, CallbackStack
  <2>6. Callback(t, "Signal") \notin Stacked' /\ Callback(t, "Timeout") \notin Stacked'
        /\ ~Acquiring(t)'
    <3>1. \A f \in Stacked' : f.op \notin {"Acquire", "Callback"}
      BY <1>0, <2>5, CallOrder
    <3> QED
      BY <3>1 DEF Acquiring, Callback
  <2>7. Resume(t) \in Stacked => Resume(t) \in Stacked'
    BY <1>0 DEF Resume
  <2>8. r = "Signal" <=> acquired[t] # {}
    BY <2>2, <2>3, <2>4 DEF Asleep, Reasons
  <2>9. Asleep(t)'
    BY <1>3, <2>1, <2>2, <2>6, <2>7, <2>8 DEF Asleep
  <2> QED
    BY <1>3, <1>7, <2>9 DEF OutcomeOf, WaitingOnObjects
<1> QED
  BY <1>5, <1>6, <1>7

LEMMA ResumeOutcome ==
    ASSUME TypeOK, Nested(work), OutcomeInv, OtherStep, ResumeStep, NEW t \in Threads
    PROVE  OutcomeOf(t)'
<1>0. /\ top \in Stacked /\ Stacked = {top} \cup Under /\ top.op = "Resume"
      /\ Under \subseteq Stacked' /\ work # <<>> /\ fault' = NoFault
  BY OtherStepCases, TopOfStep, UnderStays
<1>1. PICK x \in Threads : x = top.thread
  BY <1>0, StackedThreads
<1>2. /\ outcome' = outcome /\ acquired' = acquired
      /\ \/ status' = status /\ status[x] \in {"Ready", "Running", "Dead", "Free"}
         \/ /\ status' = [status EXCEPT ![x] = "Ready"]
            /\ status[x] \notin {"Ready", "Running", "Dead", "Free"}
  BY <1>0, <1>1 DEF ResumeStep, Fail, NoFault
<1>3. OutcomeOf(t)
  BY DEF OutcomeInv
<1>4. CASE t # x
  <2>1. status'[t] = status[t]
    BY <1>2, <1>4 DEF TypeOK
  <2>2. Resume(t) \in Stacked => Resume(t) \in Stacked'
    BY <1>0, <1>1, <1>4 DEF Resume
  <2>3. ~WakeupAllStep
    BY <1>0, TopOfStep
  <2> QED
    BY <1>0, <1>2, <1>3, <2>1, <2>2, <2>3, OutcomeKept, SameCalls
<1>5. CASE t = x /\ status' = status /\ status[x] \in {"Ready", "Running", "Dead", "Free"}
  BY <1>2, <1>3, <1>5, OutcomeKept DEF WaitingOnObjects
<1>6. CASE /\ t = x /\ status' = [status EXCEPT ![x] = "Ready"]
           /\ status[x] \notin {"Ready", "Running", "Dead", "Free"}
  <2>1. status'[t] = "Ready"
    BY <1>6 DEF TypeOK
  <2>2. Callback(t, "Signal") \notin Stacked
    BY <1>0, CallOrder DEF Callback
  <2>3. outcome[t] = "Signal" <=> acquired[t] # {}
    BY <1>3, <1>6, <2>2 DEF OutcomeOf, Asleep
  <2> QED
    BY <1>2, <2>1, <2>3 DEF OutcomeOf, WaitingOnObjects
<1> QED
  BY <1>2, <1>4, <1>5, <1>6

LEMMA OtherOutcome ==
    ASSUME TypeOK, Nested(work), WaitInv, WakesResume, CallbacksMatch, OutcomeInv, OtherStep,
           NEW t \in Threads
    PROVE  OutcomeOf(t)'
<1>1. CASE AcquireStep
  BY <1>1, AcquireOutcome
<1>2. CASE WakeupAllStep
  BY <1>2, WakeupAllOutcome
<1>3. CASE CallbackStep
  BY <1>3, CallbackOutcome
<1>4. CASE ResumeStep
  BY <1>4, ResumeOutcome
<1>5. CASE ~AcquireStep /\ ~WakeupAllStep /\ ~CallbackStep /\ ~ResumeStep
  <2>1. outcome' = outcome /\ acquired' = acquired
    BY <1>5, OtherStepCases DEF UpdateMutexesStep, AddWaitingStep, RemoveWaitingStep, StopStep,
       ReleaseMutexesStep, TerminateThreadsStep, ResumeArbitratedStep, Fail, NoFault
  <2>2. KernelStep
    BY DEF OtherStep
  <2>3. top.op \notin {"Acquire", "Callback", "Resume"}
    BY <1>5, <2>2, StepOfTop
  <2>4. Resume(t) \in Stacked => Resume(t) \in Stacked'
    BY <2>3, OtherStepCases, UnderStays DEF Resume
  <2>5. OutcomeOf(t)
    BY DEF OutcomeInv
  <2>6. CASE status'[t] = status[t]
    BY <1>5, <2>1, <2>3, <2>4, <2>5, <2>6, OutcomeKept, SameCalls
  <2>7. CASE status'[t] # status[t]
    <3>1. StopStep
      BY <1>5, <2>7, OtherStepStatus
    <3>2. status' = [status EXCEPT ![top.thread] = "Dead"]
      BY <3>1 DEF StopStep
    <3>3. status'[t] = "Dead"
      BY <2>7, <3>2 DEF TypeOK
    <3> QED
      BY <3>3 DEF OutcomeOf, WaitingOnObjects
  <2> QED
    BY <2>6, <2>7
<1> QED
  BY <1>1, <1>2, <1>3, <1>4, <1>5

(* A thread that no call on the stack is about has taken nothing.          *)
LEMMA NoCalls ==
    ASSUME NEW t \in Threads, OutcomeOf(t), status[t] \in WaitingOnObjects,
           Resume(t) \notin Stacked
    PROVE  acquired[t] = {} /\ outcome[t] # "Signal"
BY DEF OutcomeOf, Asleep

LEMMA NoOutcomeYet ==
    ASSUME NEW t \in Threads, outcome'[t] # "Signal", acquired'[t] = {},
           status'[t] \in WaitingOnObjects,
           Callback(t, "Signal") \notin Stacked', ~Acquiring(t)'
    PROVE  OutcomeOf(t)'
BY DEF OutcomeOf, Asleep, WaitingOnObjects

LEMMA EntryOutcome ==
    ASSUME TypeOK, Nested(work), CoreInv, OutcomeInv, [Next]_vars, Entry, NEW t \in Threads
    PROVE  OutcomeOf(t)'
<1>0. OutcomeOf(t) /\ Stacked = {}
  BY EntryStack DEF OutcomeInv
<1>1. acquired' = acquired
  <2>1. ASSUME NEW c \in Cores, NEW x \in Threads, WaitSvc(c, x)
        PROVE  acquired' = acquired
    BY <2>1 DEF WaitSvc, WaitSynchronizationAny, WaitSynchronizationAll, SleepThread,
                ArbitrateWait
  <2>2. ASSUME NEW c \in Cores, NEW x \in Threads, SignalSvc(c, x) \/ ThreadSvc(c, x)
        PROVE  acquired' = acquired
    BY <2>2 DEF SignalSvc, ReleaseMutex, ReleaseSemaphore, SignalEvent, ClearSignal, SetTimer,
                CancelTimer, ArbitrateSignal, ThreadSvc, CreateThread, ExitThread, MakeThread,
                SetThreadPriority, TerminateProcess, ScheduleThreads
  <2> QED
    BY <2>1, <2>2 DEF Entry, SetupMainThread, MakeThread, MakeSleeper, TimerCallback, ThreadWakeupCallback
<1>2. CASE \E c \in Cores, os \in WaitLists, timeout \in Timeouts :
              /\ \/ WaitSynchronizationAny(c, t, os, timeout)
                 \/ WaitSynchronizationAll(c, t, os, timeout)
              /\ status'[t] \in WaitingOnObjects
  <2>1. PICK c \in Cores, os \in WaitLists, timeout \in Timeouts :
           \/ WaitSynchronizationAny(c, t, os, timeout)
           \/ WaitSynchronizationAll(c, t, os, timeout)
    BY <1>2
  <2>2. Svc(c, t)
    BY <2>1 DEF WaitSynchronizationAny, WaitSynchronizationAll
  <2>3. status[t] = "Running"
    BY <2>2, CallerRuns DEF CoreInv
  <2>4. os \in Seq(Objects)
    BY SyncAssumption
  <2>5. PICK s \in WaitingOnObjects : Sleeps(c, t, os, s, timeout)
    BY <1>2, <2>1, <2>3, WaitCases DEF Grants, WaitingOnObjects
  <2>6. Stacked' = {AddWaiting(t, os)}
    BY <2>4, <2>5, SleepsStack
  <2>7. outcome'[t] = "Timeout"
    BY <2>5 DEF Sleeps, TypeOK
  <2>8. acquired[t] = {}
    BY <1>0, <2>3 DEF OutcomeOf, WaitingOnObjects
  <2>9. Callback(t, "Signal") \notin Stacked' /\ ~Acquiring(t)'
    BY <2>6 DEF AddWaiting, Callback, Acquiring
  <2> QED
    BY <1>1, <1>2, <2>7, <2>8, <2>9, NoOutcomeYet
<1>3. CASE status'[t] \notin WaitingOnObjects
  <2>1. CASE status'[t] = "Dead"
    BY <2>1 DEF OutcomeOf, WaitingOnObjects
  <2>2. CASE status'[t] # "Dead"
    <3>1. status'[t] = status[t] \/ status[t] \in {"Running", "Free"}
      <4>1. ASSUME NEW x \in Threads, MakeThread(x) \/ MakeSleeper(x)
            PROVE  status'[t] = status[t] \/ status[t] = "Free"
        BY <4>1 DEF MakeThread, MakeSleeper, TypeOK
      <4>2. ASSUME NEW c \in Cores, NEW x \in Threads, NEW s \in WaitingStatus,
                   FallsAsleep(c, x, s)
            PROVE  status'[t] = status[t] \/ status[t] = "Running"
        <5>1. status[x] = "Running"
          BY <4>2, CallerRuns DEF CoreInv, FallsAsleep
        <5> QED
          BY <4>2, <5>1 DEF FallsAsleep, TypeOK
      <4> QED
        BY <4>1, <4>2, EntryThreads DEF Boosts, SetThreadPriority
    <3>2. outcome'[t] = outcome[t]
      <4>1. ASSUME NEW c \in Cores, NEW x \in Threads, WaitSvc(c, x)
            PROVE  outcome'[t] = outcome[t]
        <5>1. \/ outcome' = outcome
              \/ \E s \in WaitingOnObjects :
                    /\ status' = [status EXCEPT ![x] = s]
                    /\ outcome' = [outcome EXCEPT ![x] = "Timeout"]
          BY <4>1, WaitCases DEF WaitSvc, Grants, Sleeps, SleepThread, ArbitrateWait
        <5> QED
          BY <1>3, <5>1 DEF TypeOK
      <4>2. ASSUME NEW c \in Cores, NEW x \in Threads, SignalSvc(c, x) \/ ThreadSvc(c, x)
            PROVE  outcome' = outcome
        BY <4>2 DEF SignalSvc, ReleaseMutex, ReleaseSemaphore, SignalEvent, ClearSignal,
                    SetTimer, CancelTimer, ArbitrateSignal, ThreadSvc, CreateThread, ExitThread,
                    MakeThread, SetThreadPriority, TerminateProcess, ScheduleThreads
      <4> QED
        BY <4>1, <4>2 DEF Entry, SetupMainThread, MakeThread, MakeSleeper, TimerCallback,
                          ThreadWakeupCallback
    <3>3. CASE status'[t] = status[t]
      BY <1>0, <1>1, <1>3, <3>2, <3>3, OutcomeKept
    <3>4. CASE status[t] \in {"Running", "Free"}
      BY <1>0, <1>1, <1>3, <3>2, <3>4 DEF OutcomeOf, WaitingOnObjects
    <3> QED
      BY <3>1, <3>3, <3>4
  <2> QED
    BY <2>1, <2>2
<1>4. CASE /\ status'[t] \in WaitingOnObjects
           /\ ~ \E c \in Cores, os \in WaitLists, timeout \in Timeouts :
                   \/ WaitSynchronizationAny(c, t, os, timeout)
                   \/ WaitSynchronizationAll(c, t, os, timeout)
  <2>1. outcome'[t] = outcome[t] /\ status'[t] = status[t]
    <3>1. ASSUME NEW c \in Cores, NEW x \in Threads, WaitSvc(c, x)
          PROVE  outcome'[t] = outcome[t] /\ status'[t] = status[t]
      <4>1. CASE \E os \in WaitLists, timeout \in Timeouts :
                    \/ WaitSynchronizationAny(c, x, os, timeout)
                    \/ WaitSynchronizationAll(c, x, os, timeout)
        <5>1. x # t
          BY <1>4, <4>1
        <5>2. \/ outcome' = outcome /\ status' = status
              \/ \E s : /\ status' = [status EXCEPT ![x] = s]
                        /\ outcome' = [outcome EXCEPT ![x] = "Timeout"]
          BY <4>1, WaitCases DEF Grants, Sleeps
        <5> QED
          BY <5>1, <5>2 DEF TypeOK
      <4>2. CASE \/ \E timeout \in Timeouts : SleepThread(c, x, timeout)
                 \/ \E a \in Arbiters, addr \in Addresses, timeout \in Timeouts :
                       ArbitrateWait(c, x, a, addr, timeout)
        <5>1. outcome' = outcome /\ (\/ status' = [status EXCEPT ![x] = "WaitSleep"]
                                     \/ status' = [status EXCEPT ![x] = "WaitArb"])
          BY <4>2 DEF SleepThread, ArbitrateWait
        <5> QED
          BY <1>4, <5>1 DEF TypeOK, WaitingOnObjects
      <4> QED
        BY <3>1, <4>1, <4>2 DEF WaitSvc
    <3>2. ASSUME NEW x \in Threads, MakeThread(x) \/ MakeSleeper(x)
          PROVE  outcome'[t] = outcome[t] /\ status'[t] = status[t]
      BY <1>4, <3>2 DEF MakeThread, MakeSleeper, TypeOK, WaitingOnObjects
    <3>3. ASSUME NEW c \in Cores, NEW x \in Threads, SignalSvc(c, x) \/ ThreadSvc(c, x)
          PROVE  outcome'[t] = outcome[t] /\ status'[t] = status[t]
      BY <3>2, <3>3 DEF SignalSvc, ReleaseMutex, ReleaseSemaphore, SignalEvent, ClearSignal,
                  SetTimer, CancelTimer, ArbitrateSignal, ThreadSvc, CreateThread, ExitThread,
                  SetThreadPriority, TerminateProcess, ScheduleThreads
    <3> QED
      BY <3>1, <3>2, <3>3, SyncAssumption DEF Entry, SetupMainThread, TimerCallback,
         ThreadWakeupCallback
  <2>2. status[t] \in WaitingOnObjects /\ acquired[t] = {} /\ outcome[t] # "Signal"
    BY <1>0, <1>4, <2>1, NoCalls
  <2>3. Callback(t, "Signal") \notin Stacked' /\ ~Acquiring(t)'
    <3>1. ASSUME NEW f \in Stacked', f.op = "Acquire", f.thread = t
          PROVE  FALSE
      <4>1. PICK c \in Cores, x \in Threads : Svc(c, x) /\ f.thread = x
        BY <3>1, EntryCalls
      <4> QED
        BY <2>2, <3>1, <4>1, CallerRuns DEF CoreInv, WaitingOnObjects
    <3>2. ASSUME Callback(t, "Signal") \in Stacked'
          PROVE  FALSE
      <4>1. PICK x \in Threads : ThreadWakeupCallback(x) /\ Stacked' = Range(WakeupCalls(x))
        BY <3>2, EntryCalls DEF Callback
      <4> QED
        BY <3>2, <4>1, ThreadWakeupCallbackStack DEF Callback, Resume, RemoveWaiting
    <3> QED
      BY <3>1, <3>2 DEF Acquiring
  <2> QED
    BY <1>1, <1>4, <2>1, <2>2, <2>3, NoOutcomeYet
<1> QED
  BY <1>2, <1>3, <1>4

LEMMA OutcomeInvNext ==
    ASSUME TypeOK, Nested(work), CoreInv, WaitInv, WakesResume, CallbacksMatch, OutcomeInv,
           [Next]_vars
    PROVE  OutcomeInv'
<1>1. ASSUME NEW t \in Threads
      PROVE  OutcomeOf(t)'
  <2>0. OutcomeOf(t)
    BY DEF OutcomeInv
  <2>1. CASE OtherStep
    BY <2>1, OtherOutcome
  <2>2. CASE Entry
    BY <2>2, EntryOutcome
  <2>3. CASE Scheduling
    <3>1. \A f : f \in Stacked \/ f \in Stacked' => f.op \in SchedulingOps
      BY <2>3, SchedulingStacks
    <3>2. /\ Resume(t) \notin Stacked
          /\ \A r : Callback(t, r) \notin Stacked /\ Callback(t, r) \notin Stacked'
          /\ ~Acquiring(t) /\ ~Acquiring(t)'
      BY <3>1 DEF SchedulingOps, Resume, Callback, Acquiring
    <3>3. CASE SwitchContextStep /\ fault' = NoFault
      <4>1. PICK c, x : c = top.core /\ x = top.next
        OBVIOUS
      <4>2. CASE t = x
        <5>1. x # NoThread
          BY <4>2, CoreAssumption
        <5>2. /\ outcome' = [outcome EXCEPT ![x] = "none"]
              /\ acquired' = [acquired EXCEPT ![x] = {}]
          BY <3>3, <4>1, <5>1 DEF SwitchContextStep, NoFault
        <5>3. status'[x] = "Running"
          BY <3>3, <4>1, <5>1, SwitchContextThreads
        <5> QED
          BY <4>2, <5>2, <5>3 DEF OutcomeOf, WaitingOnObjects, TypeOK
      <4>3. CASE t # x
        <5>1. outcome'[t] = outcome[t] /\ acquired'[t] = acquired[t]
          BY <3>3, <4>1, <4>3 DEF SwitchContextStep, TypeOK
        <5>2. \/ status'[t] = status[t]
              \/ status[t] = "Running" /\ status'[t] = "Ready"
          BY <3>3, <4>1, <4>3, SwitchContextThreads DEF IsRunning
        <5>3. CASE status'[t] = status[t]
          BY <2>0, <3>2, <5>1, <5>3, OutcomeKept
        <5>4. CASE status[t] = "Running" /\ status'[t] = "Ready"
          BY <2>0, <5>1, <5>4 DEF OutcomeOf, WaitingOnObjects
        <5> QED
          BY <5>2, <5>3, <5>4
      <4> QED
        BY <4>2, <4>3
    <3>4. CASE BoostStarvedStep \/ PopNextStep \/ RequeueStep \/ (\E c \in Cores : Reschedule(c))
      <4>1. UNCHANGED <<status, outcome, acquired>>
        BY <3>4 DEF BoostStarvedStep, PopNextStep, RequeueStep, Reschedule, Fail, systemVars
      <4> QED
        BY <2>0, <3>2, <4>1, OutcomeKept
    <3> QED
      BY <2>3, <3>3, <3>4 DEF Scheduling
  <2>4. CASE UNCHANGED systemVars
    <3>1. UNCHANGED <<status, outcome, acquired, work>>
      BY <2>4 DEF systemVars
    <3>2. Stacked' = Stacked
      BY <3>1 DEF Stacked
    <3>3. Acquiring(t)' <=> Acquiring(t)
      BY <3>2 DEF Acquiring
    <3> QED
      BY <2>0, <3>1, <3>2, <3>3, OutcomeKept
  <2> QED
    BY <2>1, <2>2, <2>3, <2>4, NextCases DEF Scheduling
<1> QED
  BY <1>1 DEF OutcomeInv

(* A wait that ends with a timeout has taken nothing, and one that ends    *)
(* with success has taken something, whichever of the wakeup event and the *)
(* signal comes first, and whatever code runs between the two              *)
(* (ThreadWakeupCallback, SVC_SyncCallback::WakeUp, WakeupAllWaitingThreads*)
(* and ResumeFromWait).                                                    *)
THEOREM OutcomesTruthful == Orderly /\ Spec => []OutcomeTruthful
<1> DEFINE Outcomes == WakesResume /\ CallbacksMatch /\ OutcomeInv
<1>1. Init => Outcomes
  BY QuietStack DEF Init, WakesResume, CallbacksMatch, CallbackMatches, OutcomeInv, OutcomeOf,
                    WaitingOnObjects
<1>2. TypeOK /\ (Nested(work) /\ CoreInv) /\ (LockInv /\ WaitInv) /\ Outcomes /\ [Next]_vars
      => Outcomes'
  BY WakesResumeNext, CallbacksMatchNext, OutcomeInvNext
<1>3. Outcomes => OutcomeTruthful
  BY DEF OutcomeInv, OutcomeOf, OutcomeTruthful
<1> HIDE DEF Outcomes
<1> QED
  BY <1>1, <1>2, <1>3, TypeCorrect, CoresCorrect, LocksCorrect, PTL DEF Spec

(***************************************************************************)
(* Address arbiters.                                                       *)
(***************************************************************************)
LEMMA ArbiterKept ==
    ASSUME NEW t \in Threads, ArbiterOf(t), exited \subseteq exited',
           \A a \in Arbiters : t \in Range(arb_waiting'[a]) <=> t \in Range(arb_waiting[a]),
           \/ status[t] # "WaitArb" /\ status'[t] # "WaitArb"
           \/ /\ status'[t] = status[t] /\ wakeup_callback'[t] = wakeup_callback[t]
              /\ t \in wakeup_events' => t \in wakeup_events
              /\ Resume(t) \in Stacked' <=> Resume(t) \in Stacked
              /\ Callback(t, "Timeout") \in Stacked => Callback(t, "Timeout") \in Stacked'
    PROVE  ArbiterOf(t)'
<1>1. CASE status[t] # "WaitArb" /\ status'[t] # "WaitArb"
  BY <1>1 DEF ArbiterOf
<1>2. CASE /\ status'[t] = status[t] /\ wakeup_callback'[t] = wakeup_callback[t]
           /\ t \in wakeup_events' => t \in wakeup_events
           /\ Resume(t) \in Stacked' <=> Resume(t) \in Stacked
           /\ Callback(t, "Timeout") \in Stacked => Callback(t, "Timeout") \in Stacked'
  BY <1>2 DEF ArbiterOf
<1> QED
  BY <1>1, <1>2

(* Only a thread that waits is on a list, unless its process has ended.    *)
LEMMA AwakeUnlisted ==
    ASSUME NEW t \in Threads, ArbiterOf(t), OwnerOf[t] \notin exited, status[t] # "WaitArb",
           NEW a \in Arbiters
    PROVE  t \notin Range(arb_waiting[a])
BY DEF ArbiterOf

LEMMA ArbiterLists ==
    ASSUME TypeOK, NEW a \in Arbiters, NEW ts \in Seq(Threads),
           \A b \in Arbiters : IsInjective(arb_waiting[b]), IsInjective(ts),
           arb_waiting' = [arb_waiting EXCEPT ![a] = ts]
    PROVE  \A b \in Arbiters : IsInjective(arb_waiting'[b])
<1>1. ASSUME NEW b \in Arbiters
      PROVE  arb_waiting'[b] = IF b = a THEN ts ELSE arb_waiting[b]
  BY DEF TypeOK
<1> QED
  BY <1>1

LEMMA ResumeArbitratedArbiter ==
    ASSUME TypeOK, Nested(work), ArbiterInv, OtherStep, ResumeArbitratedStep
    PROVE  ArbiterInv'
<1>0. fault' = NoFault
  BY DEF OtherStep
<1>1. /\ status' = status /\ wakeup_callback' = wakeup_callback /\ exited' = exited
      /\ wakeup_events' = wakeup_events
  BY <1>0 DEF ResumeArbitratedStep, Fail, NoFault
<1>2. /\ Under = {} /\ Stacked = {top} /\ top.op = "ResumeArbitrated" /\ top \in Frames
  BY <1>0, ResumeArbitratedStack, OtherStepCases, TopOfStep
<1>3. \A t : Resume(t) \notin Stacked /\ Callback(t, "Timeout") \notin Stacked
  BY <1>2 DEF Resume, Callback
<1>4. CASE Stacked' = {} /\ UNCHANGED arb_waiting
  <2>1. ASSUME NEW t \in Threads
        PROVE  ArbiterOf(t)'
    BY <1>1, <1>3, <1>4, ArbiterKept DEF ArbiterInv
  <2> QED
    BY <1>4, <2>1 DEF ArbiterInv
<1>5. CASE ~(Stacked' = {} /\ UNCHANGED arb_waiting)
  <2>1. PICK a : a = top.arbiter
    OBVIOUS
  <2>2. a \in Arbiters
    BY <1>2, <2>1 DEF Frames
  <2>3. PICK ts : ts = arb_waiting[a]
    OBVIOUS
  <2>4. ts \in Seq(Threads) /\ IsInjective(ts)
    BY <2>2, <2>3 DEF TypeOK, ArbiterInv
  <2>5. PICK i \in 1..Len(ts), h \in Frames :
           /\ status[ts[i]] = "WaitArb"
           /\ arb_waiting' = [arb_waiting EXCEPT ![a] = RemoveAt(ts, i)]
           /\ h.op = "ResumeArbitrated"
           /\ Stacked' = {Resume(ts[i]), h}
    BY <1>0, <1>5, <2>1, <2>3, ResumeArbitratedStack
  <2>6. PICK x \in Threads : x = ts[i]
    BY <2>4
  <2>7. /\ IsInjective(RemoveAt(ts, i)) /\ Range(RemoveAt(ts, i)) = Range(ts) \ {x}
        /\ RemoveAt(ts, i) \in Seq(Threads)
    BY <2>4, <2>6, RangeRemoveAt, RemoveAtType
  <2>8. \A b \in Arbiters : arb_waiting'[b] = IF b = a THEN RemoveAt(ts, i) ELSE arb_waiting[b]
    BY <2>5 DEF TypeOK
  <2>9. \A b \in Arbiters : IsInjective(arb_waiting'[b])
    BY <2>2, <2>5, <2>7, ArbiterLists DEF ArbiterInv
  <2>10. ASSUME NEW t \in Threads, t # x
         PROVE  ArbiterOf(t)'
    <3>1. \A b \in Arbiters : t \in Range(arb_waiting'[b]) <=> t \in Range(arb_waiting[b])
      BY <2>3, <2>7, <2>8, <2>10
    <3>2. Resume(t) \notin Stacked'
      BY <2>5, <2>6, <2>10 DEF Resume
    <3> QED
      BY <1>1, <1>3, <3>1, <3>2, ArbiterKept DEF ArbiterInv
  <2>11. ArbiterOf(x)'
    <3>1. x \in Range(arb_waiting[a])
      BY <2>3, <2>4, <2>6, RangeEquality
    <3>2. OwnerOf[x] \notin exited => \A b \in Arbiters : x \notin Range(arb_waiting'[b])
      BY <2>2, <2>3, <2>7, <2>8, <3>1 DEF ArbiterInv, ArbiterOf
    <3>3. Resume(x) \in Stacked'
      BY <2>5, <2>6
    <3> QED
      BY <1>1, <3>2, <3>3 DEF ArbiterOf
  <2> QED
    BY <2>9, <2>10, <2>11 DEF ArbiterInv
<1> QED
  BY <1>4, <1>5

LEMMA CallbackArbiter ==
    ASSUME TypeOK, Nested(work), WakesResume, ArbiterInv, OtherStep, CallbackStep
    PROVE  ArbiterInv'
<1>0. /\ top \in Stacked /\ Stacked = {top} \cup Under /\ top.op = "Callback"
      /\ Under \subseteq Stacked' /\ work # <<>> /\ fault' = NoFault
  BY OtherStepCases, TopOfStep, UnderStays
<1>1. PICK x \in Threads : x = top.thread
  BY <1>0, StackedThreads
<1>2. PICK a : a = wakeup_callback[x]
  OBVIOUS
<1>3. /\ status' = status /\ wakeup_callback' = wakeup_callback /\ exited' = exited
      /\ wakeup_events' = wakeup_events
      /\ arb_waiting' = IF a \in Arbiters
                        THEN [arb_waiting EXCEPT ![a] = Erase(@, x)] ELSE arb_waiting
  BY <1>0, <1>1, <1>2 DEF CallbackStep, Fail, NoFault
<1>4. Stacked' = Under
  BY <1>0, CallbackStack
<1>5. ASSUME a \in Arbiters
      PROVE  /\ IsInjective(Erase(arb_waiting[a], x))
             /\ Range(Erase(arb_waiting[a], x)) = Range(arb_waiting[a]) \ {x}
             /\ Erase(arb_waiting[a], x) \in Seq(Threads)
  <2>1. arb_waiting[a] \in Seq(Threads) /\ IsInjective(arb_waiting[a])
    BY <1>5 DEF TypeOK, ArbiterInv
  <2> QED
    BY <2>1, RangeErase, EraseType
<1>6. \A b \in Arbiters : IsInjective(arb_waiting'[b])
  BY <1>3, <1>5, ArbiterLists DEF ArbiterInv
<1>7. \A b \in Arbiters : Range(arb_waiting'[b]) = IF b = a THEN Range(arb_waiting[b]) \ {x}
                                                            ELSE Range(arb_waiting[b])
  BY <1>3, <1>5 DEF TypeOK
<1>8. ASSUME NEW t \in Threads, t # x
      PROVE  ArbiterOf(t)'
  <2>1. \A b \in Arbiters : t \in Range(arb_waiting'[b]) <=> t \in Range(arb_waiting[b])
    BY <1>7, <1>8
  <2>2. Resume(t) \in Stacked' <=> Resume(t) \in Stacked
    BY <1>0, <1>4 DEF Resume
  <2>3. Callback(t, "Timeout") \in Stacked => Callback(t, "Timeout") \in Stacked'
    BY <1>0, <1>1, <1>8 DEF Callback
  <2> QED
    BY <1>3, <2>1, <2>2, <2>3, ArbiterKept DEF ArbiterInv
<1>9. ArbiterOf(x)'
  <2>1. status[x] = "WaitArb" => Resume(x) \in Stacked
    BY <1>0, <1>1 DEF WakesResume, WaitingStatus
  <2>2. Resume(x) \in Stacked => Resume(x) \in Stacked'
    BY <1>0 DEF Resume
  <2>3. OwnerOf[x] \notin exited => \A b \in Arbiters : x \notin Range(arb_waiting'[b])
    BY <1>2, <1>7, <2>1 DEF ArbiterInv, ArbiterOf
  <2> QED
    BY <1>3, <2>1, <2>2, <2>3 DEF ArbiterOf
<1> QED
  BY <1>6, <1>8, <1>9 DEF ArbiterInv

LEMMA ResumeArbiter ==
    ASSUME TypeOK, Nested(work), ArbiterInv, OtherStep, ResumeStep, NEW t \in Threads
    PROVE  ArbiterOf(t)'
<1>0. /\ top \in Stacked /\ Stacked = {top} \cup Under /\ top.op = "Resume"
      /\ Under \subseteq Stacked' /\ work # <<>> /\ fault' = NoFault
  BY OtherStepCases, TopOfStep, UnderStays
<1>1. PICK x \in Threads : x = top.thread
  BY <1>0, StackedThreads
<1>2. /\ arb_waiting' = arb_waiting /\ exited' = exited /\ wakeup_events' = wakeup_events
      /\ \/ status' = status /\ wakeup_callback' = wakeup_callback
         \/ /\ status' = [status EXCEPT ![x] = "Ready"]
            /\ wakeup_callback' = [wakeup_callback EXCEPT ![x] = "none"]
  BY <1>0, <1>1 DEF ResumeStep, Fail, NoFault
<1>3. ArbiterOf(t)
  BY DEF ArbiterInv
<1>4. CASE t # x
  <2>1. status'[t] = status[t] /\ wakeup_callback'[t] = wakeup_callback[t]
    BY <1>2, <1>4 DEF TypeOK
  <2>2. Stacked' = Under
    BY <1>0, ResumeStack
  <2>3. Resume(t) # top
    BY <1>1, <1>4 DEF Resume
  <2>4. Callback(t, "Timeout") # top
    BY <1>0 DEF Callback
  <2> QED
    BY <1>0, <1>2, <1>3, <2>1, <2>2, <2>3, <2>4, ArbiterKept
<1>5. CASE t = x
  <2>1. status'[t] # "WaitArb"
    BY <1>0, <1>1, <1>5 DEF ResumeStep, Fail, NoFault, TypeOK
  <2>2. top = Resume(x)
    <3>1. top \in Frames
      BY OtherStepCases
    <3>2. top \in [op : {"RemoveWaiting", "Resume", "Stop"}, thread : Threads]
      BY <1>0, <3>1 DEF Frames
    <3> QED
      BY <1>0, <1>1, <3>2 DEF Resume
  <2>3. Callback(t, "Timeout") \notin Stacked
    BY <1>0, CallOrder DEF Callback
  <2>4. OwnerOf[t] \notin exited => \A a \in Arbiters : t \notin Range(arb_waiting[a])
    BY <1>0, <1>3, <1>5, <2>2, <2>3 DEF ArbiterOf
  <2> QED
    BY <1>2, <2>1, <2>4 DEF ArbiterOf
<1> QED
  BY <1>4, <1>5

LEMMA StopArbiter ==
    ASSUME TypeOK, Nested(work), CoreInv, ArbiterInv, OtherStep, StopStep, NEW t \in Threads
    PROVE  ArbiterOf(t)'
<1>0. /\ top \in Stacked /\ Stacked = {top} \cup Under /\ top.op = "Stop"
      /\ Under \subseteq Stacked' /\ work # <<>> /\ fault' = NoFault
  BY OtherStepCases, TopOfStep, UnderStays
<1>1. PICK x \in Threads : x = top.thread
  BY <1>0, StackedThreads
<1>2. /\ arb_waiting' = arb_waiting /\ exited' = exited /\ wakeup_events' \subseteq wakeup_events
      /\ wakeup_callback' = wakeup_callback /\ status' = [status EXCEPT ![x] = "Dead"]
  BY <1>0, <1>1 DEF StopStep, CancelWakeup
<1>3. ArbiterOf(t)
  BY DEF ArbiterInv
<1>4. CASE t # x
  <2>1. status'[t] = status[t]
    BY <1>2, <1>4 DEF TypeOK
  <2>2. \A f \in Stacked : f.op \in {"Stop", "TerminateThreads"}
    BY <1>0, StopStack
  <2>3. Resume(t) \notin Stacked /\ Callback(t, "Timeout") \notin Stacked
    BY <2>2 DEF Resume, Callback
  <2>4. Resume(t) \notin Stacked'
    <3>1. /\ Stacked' = {WakeupAll(top.thread), RemoveWaiting(top.thread),
                         ReleaseMutexes(top.thread, held_mutexes[top.thread])} \cup Under
          /\ \A f \in Under : f.op = "TerminateThreads"
      BY StopStack
    <3> QED
      BY <3>1 DEF Resume, WakeupAll, RemoveWaiting, ReleaseMutexes
  <2> QED
    BY <1>2, <1>3, <2>1, <2>3, <2>4, ArbiterKept
<1>5. CASE t = x
  <2>1. status'[t] = "Dead"
    BY <1>2, <1>5 DEF TypeOK
  <2>2. OwnerOf[t] \in exited \/ status[t] = "Running"
    BY <1>0, <1>1, <1>5 DEF CoreInv, StopsJustified
  <2>3. OwnerOf[t] \notin exited => \A a \in Arbiters : t \notin Range(arb_waiting[a])
    BY <1>3, <2>2, AwakeUnlisted
  <2> QED
    BY <1>2, <2>1, <2>3 DEF ArbiterOf
<1> QED
  BY <1>4, <1>5

LEMMA OtherArbiter ==
    ASSUME TypeOK, Nested(work), CoreInv, WakesResume, ArbiterInv, OtherStep
    PROVE  ArbiterInv'
<1>1. CASE ResumeArbitratedStep
  BY <1>1, ResumeArbitratedArbiter
<1>2. CASE CallbackStep
  BY <1>2, CallbackArbiter
<1>3. CASE ~ResumeArbitratedStep /\ ~CallbackStep
  <2>1. arb_waiting' = arb_waiting /\ exited' = exited
    BY <1>3, OtherStepCases DEF UpdateMutexesStep, AcquireStep, AddWaitingStep,
       RemoveWaitingStep, WakeupAllStep, ResumeStep, StopStep, ReleaseMutexesStep,
       TerminateThreadsStep, Fail, NoFault
  <2>2. ASSUME NEW t \in Threads
        PROVE  ArbiterOf(t)'
    <3>1. CASE ResumeStep
      BY <3>1, ResumeArbiter
    <3>2. CASE StopStep
      BY <3>2, StopArbiter
    <3>3. CASE ~ResumeStep /\ ~StopStep
      <4>1. status' = status /\ wakeup_events' \subseteq wakeup_events
        BY <3>3, OtherStepStatus, OtherStepTimeouts
      <4>2. wakeup_callback' = wakeup_callback
        BY <1>3, <3>3, OtherStepCases DEF UpdateMutexesStep, AcquireStep, AddWaitingStep,
           RemoveWaitingStep, WakeupAllStep, ReleaseMutexesStep, TerminateThreadsStep,
           Fail, NoFault
      <4>3. KernelStep
        BY DEF OtherStep
      <4>4. top.op \notin {"Resume", "Callback"}
        BY <1>3, <3>3, <4>3, StepOfTop
      <4>5. /\ Resume(t) \in Stacked => Resume(t) \in Stacked'
            /\ Callback(t, "Timeout") \in Stacked => Callback(t, "Timeout") \in Stacked'
        BY <4>4, OtherStepCases, UnderStays DEF Resume, Callback
      <4>6. CASE status[t] # "WaitArb"
        BY <2>1, <4>1, <4>6, ArbiterKept DEF ArbiterInv
      <4>7. CASE status[t] = "WaitArb"
        <5>1. ASSUME Resume(t) \in Stacked', Resume(t) \notin Stacked
              PROVE  FALSE
          <6>1. WakeupAllStep
            BY <1>3, <3>3, <5>1, OtherCalls DEF Resume, WakeupAll, RemoveWaiting, ReleaseMutexes
          <6>2. PICK x : x = HighestPriorityReady(top.object)
            OBVIOUS
          <6>3. top.op = "WakeupAll"
            BY <6>1, TopOfStep
          <6>4. /\ x \in Threads
                /\ Resume(t) \in {Acquire(o, x) : o \in Range(Taken(top.object, x))}
                                 \cup {Callback(x, "Signal"), RemoveWaiting(x), Resume(x)}
            BY <3>3, <5>1, <6>1, <6>2, <6>3, OtherCalls, TopOfStep DEF Resume
          <6>5. x = t
            BY <6>4 DEF Resume, Acquire, Callback, RemoveWaiting
          <6>6. status[x] \in WaitingOnObjects
            BY <6>1, <6>2, <6>4, WokenSleeps, CoreAssumption DEF OtherStep
          <6> QED
            BY <4>7, <6>5, <6>6 DEF WaitingOnObjects
        <5> QED
          BY <2>1, <4>1, <4>2, <4>5, <5>1, ArbiterKept DEF ArbiterInv
      <4> QED
        BY <4>6, <4>7
    <3> QED
      BY <3>1, <3>2, <3>3
  <2> QED
    BY <2>1, <2>2 DEF ArbiterInv
<1> QED
  BY <1>1, <1>2, <1>3

(* Nothing is done to a thread that waits for an address but by code on    *)
(* the stack.                                                              *)
LEMMA EntryArbitrated ==
    ASSUME TypeOK, CoreInv, Entry, NEW t \in Threads, status[t] = "WaitArb"
    PROVE  /\ status'[t] = status[t] /\ wakeup_callback'[t] = wakeup_callback[t]
           /\ t \in wakeup_events' => t \in wakeup_events
<1>1. ASSUME NEW c \in Cores, NEW x \in Threads, Svc(c, x)
      PROVE  x # t
  BY <1>1, CallerRuns DEF CoreInv
<1>2. t \in wakeup_events' => t \in wakeup_events
  <2>1. ASSUME NEW x \in Threads, MakeSleeper(x)
        PROVE  wakeup_events' = wakeup_events \cup {x} /\ x # t
    BY <2>1 DEF MakeSleeper
  <2> QED
    BY <1>1, <2>1, EntryTimeouts DEF FallsAsleep
<1>3. ASSUME NEW x \in Threads, MakeThread(x) \/ MakeSleeper(x)
      PROVE  status'[t] = status[t] /\ wakeup_callback'[t] = wakeup_callback[t]
  BY <1>3 DEF MakeThread, MakeSleeper, TypeOK
<1>4. ASSUME NEW c \in Cores, NEW x \in Threads, WaitSvc(c, x)
      PROVE  status'[t] = status[t] /\ wakeup_callback'[t] = wakeup_callback[t]
  <2>1. x # t
    BY <1>1, <1>4, SvcCalled
  <2>2. /\ status' = status \/ \E s : status' = [status EXCEPT ![x] = s]
        /\ \/ wakeup_callback' = wakeup_callback
           \/ \E s : wakeup_callback' = [wakeup_callback EXCEPT ![x] = s]
    <3>1. CASE \E os \in WaitLists, timeout \in Timeouts :
                  \/ WaitSynchronizationAny(c, x, os, timeout)
                  \/ WaitSynchronizationAll(c, x, os, timeout)
      <4>1. PICK os \in WaitLists, timeout \in Timeouts :
               \/ WaitSynchronizationAny(c, x, os, timeout)
               \/ WaitSynchronizationAll(c, x, os, timeout)
        BY <3>1
      <4>2. \/ \E ps : Grants(x, ps)
            \/ \E s : Sleeps(c, x, os, s, timeout)
        BY <4>1, WaitCases
      <4> QED
        BY <4>2 DEF Grants, Sleeps
    <3>2. CASE \/ \E timeout \in Timeouts : SleepThread(c, x, timeout)
               \/ \E a \in Arbiters, addr \in Addresses, timeout \in Timeouts :
                     ArbitrateWait(c, x, a, addr, timeout)
      BY <3>2 DEF SleepThread, ArbitrateWait
    <3> QED
      BY <1>4, <3>1, <3>2 DEF WaitSvc
  <2> QED
    BY <2>1, <2>2 DEF TypeOK
<1>5. ASSUME NEW c \in Cores, NEW x \in Threads, SignalSvc(c, x) \/ ThreadSvc(c, x)
      PROVE  status'[t] = status[t] /\ wakeup_callback'[t] = wakeup_callback[t]
  BY <1>3, <1>5 DEF SignalSvc, ReleaseMutex, ReleaseSemaphore, SignalEvent, ClearSignal,
              SetTimer, CancelTimer, ArbitrateSignal, ThreadSvc, CreateThread, ExitThread,
              SetThreadPriority, TerminateProcess, ScheduleThreads
<1> QED
  BY <1>2, <1>3, <1>4, <1>5, SyncAssumption DEF Entry, SetupMainThread, TimerCallback,
     ThreadWakeupCallback

(* The calling thread goes on a list that it is not on.                    *)
LEMMA ArbitrateWaitArbiter ==
    ASSUME TypeOK, CoreInv, TimeoutsOfSleepers, ArbiterInv,
           NEW c \in Cores, NEW x \in Threads, NEW a \in Arbiters, NEW addr, NEW timeout,
           ArbitrateWait(c, x, a, addr, timeout)
    PROVE  ArbiterInv'
<1>1. status[x] = "Running" /\ OwnerOf[x] \notin exited /\ Svc(c, x)
  BY CallerRuns DEF ArbitrateWait, CoreInv
<1>2. /\ status' = [status EXCEPT ![x] = "WaitArb"] /\ exited' = exited /\ work' = work
      /\ arb_waiting' = [arb_waiting EXCEPT ![a] = Append(@, x)]
      /\ \/ wakeup_callback' = wakeup_callback /\ wakeup_events' = wakeup_events
         \/ /\ wakeup_callback' = [wakeup_callback EXCEPT ![x] = a]
            /\ wakeup_events' = wakeup_events \cup {x}
  BY DEF ArbitrateWait, WakeAfterDelay
<1>3. work = <<>>
  BY <1>1 DEF Svc, Quiet
<1>4. Stacked = {} /\ Stacked' = {}
  BY <1>2, <1>3, QuietStack, NoCallStack
<1>5. \A b \in Arbiters : x \notin Range(arb_waiting[b])
  BY <1>1, AwakeUnlisted DEF ArbiterInv
<1>6. arb_waiting[a] \in Seq(Threads) /\ IsInjective(arb_waiting[a])
  BY DEF TypeOK, ArbiterInv
<1>7. /\ Range(Append(arb_waiting[a], x)) = Range(arb_waiting[a]) \cup {x}
      /\ IsInjective(Append(arb_waiting[a], x)) /\ Append(arb_waiting[a], x) \in Seq(Threads)
  BY <1>5, <1>6, RangeAppend
<1>8. \A b \in Arbiters : IsInjective(arb_waiting'[b])
  BY <1>2, <1>7, ArbiterLists DEF ArbiterInv
<1>9. \A b \in Arbiters : Range(arb_waiting'[b]) = IF b = a THEN Range(arb_waiting[b]) \cup {x}
                                                            ELSE Range(arb_waiting[b])
  BY <1>2, <1>7 DEF TypeOK
<1>10. ASSUME NEW t \in Threads, t # x
       PROVE  ArbiterOf(t)'
  <2>1. status'[t] = status[t] /\ wakeup_callback'[t] = wakeup_callback[t]
        /\ (t \in wakeup_events' => t \in wakeup_events)
    BY <1>2, <1>10 DEF TypeOK
  <2>2. \A b \in Arbiters : t \in Range(arb_waiting'[b]) <=> t \in Range(arb_waiting[b])
    BY <1>9, <1>10
  <2> QED
    BY <1>2, <1>4, <2>1, <2>2, ArbiterKept DEF ArbiterInv
<1>11. ArbiterOf(x)'
  <2>1. x \notin wakeup_events
    BY <1>1 DEF TimeoutsOfSleepers, WaitingStatus, WaitingOnObjects
  <2>2. status'[x] = "WaitArb" /\ (x \in wakeup_events' => wakeup_callback'[x] = a)
    BY <1>2, <2>1 DEF TypeOK
  <2>3. /\ \A b \in Arbiters : x \in Range(arb_waiting'[b]) => b = a
        /\ x \in Range(arb_waiting'[a])
    BY <1>5, <1>9
  <2> QED
    BY <1>4, <2>2, <2>3 DEF ArbiterOf
<1> QED
  BY <1>8, <1>10, <1>11 DEF ArbiterInv

LEMMA EntryArbiter ==
    ASSUME TypeOK, Nested(work), CoreInv, TimeoutsOfSleepers, ArbiterInv, Entry
    PROVE  ArbiterInv'
<1>1. CASE \E c \in Cores, x \in Threads, a \in Arbiters, addr \in Addresses,
              timeout \in Timeouts : ArbitrateWait(c, x, a, addr, timeout)
  BY <1>1, ArbitrateWaitArbiter
<1>2. CASE ~ \E c \in Cores, x \in Threads, a \in Arbiters, addr \in Addresses,
                timeout \in Timeouts : ArbitrateWait(c, x, a, addr, timeout)
  <2>1. arb_waiting' = arb_waiting
    <3>1. ASSUME NEW c \in Cores, NEW x \in Threads, WaitSvc(c, x)
          PROVE  arb_waiting' = arb_waiting
      BY <1>2, <3>1 DEF WaitSvc, WaitSynchronizationAny, WaitSynchronizationAll, SleepThread
    <3>2. ASSUME NEW c \in Cores, NEW x \in Threads, SignalSvc(c, x) \/ ThreadSvc(c, x)
          PROVE  arb_waiting' = arb_waiting
      BY <3>2 DEF SignalSvc, ReleaseMutex, ReleaseSemaphore, SignalEvent, ClearSignal,
                  SetTimer, CancelTimer, ArbitrateSignal, ThreadSvc, CreateThread, ExitThread,
                  MakeThread, SetThreadPriority, TerminateProcess, ScheduleThreads
    <3> QED
      BY <3>1, <3>2 DEF Entry, SetupMainThread, MakeThread, MakeSleeper, TimerCallback, ThreadWakeupCallback
  <2>2. exited \subseteq exited' /\ Stacked = {}
    BY EntryCores, EntryStack
  <2>3. ASSUME NEW t \in Threads
        PROVE  ArbiterOf(t)'
    <3>0. ArbiterOf(t)
      BY DEF ArbiterInv
    <3>1. CASE status[t] # "WaitArb"
      <4>1. ASSUME NEW c \in Cores, NEW x \in Threads, WaitSvc(c, x)
            PROVE  status'[t] # "WaitArb"
        <5>1. \/ status' = status
              \/ \E s \in {"WaitSynchAny", "WaitSynchAll", "WaitSleep"} :
                    status' = [status EXCEPT ![x] = s]
          BY <1>2, <4>1, WaitCases DEF WaitSvc, Grants, Sleeps, SleepThread, WaitingOnObjects
        <5> QED
          BY <3>1, <5>1 DEF TypeOK
      <4>2. ASSUME NEW x \in Threads, MakeThread(x) \/ MakeSleeper(x)
            PROVE  status'[t] # "WaitArb"
        BY <3>1, <4>2 DEF MakeThread, MakeSleeper, TypeOK
      <4>3. ASSUME NEW c \in Cores, NEW x \in Threads, SignalSvc(c, x) \/ ThreadSvc(c, x)
            PROVE  status'[t] # "WaitArb"
        BY <3>1, <4>2, <4>3 DEF SignalSvc, ReleaseMutex, ReleaseSemaphore, SignalEvent,
           ClearSignal, SetTimer, CancelTimer, ArbitrateSignal, ThreadSvc, CreateThread,
           ExitThread, SetThreadPriority, TerminateProcess, ScheduleThreads
      <4>4. status'[t] # "WaitArb"
        BY <3>1, <4>1, <4>2, <4>3, SyncAssumption DEF Entry, SetupMainThread, TimerCallback,
           ThreadWakeupCallback
      <4> QED
        BY <2>1, <2>2, <3>0, <3>1, <4>4, ArbiterKept
    <3>2. CASE status[t] = "WaitArb"
      <4>1. /\ status'[t] = status[t] /\ wakeup_callback'[t] = wakeup_callback[t]
            /\ t \in wakeup_events' => t \in wakeup_events
        BY <3>2, EntryArbitrated
      <4>2. CASE Resume(t) \notin Stacked'
        BY <2>1, <2>2, <3>0, <4>1, <4>2, ArbiterKept
      <4>3. CASE Resume(t) \in Stacked'
        <5>1. PICK x \in Threads : ThreadWakeupCallback(x) /\ Stacked' = Range(WakeupCalls(x))
          BY <4>3, EntryCalls DEF Resume
        <5>2. x = t
          BY <4>3, <5>1, ThreadWakeupCallbackStack DEF Resume, Callback, RemoveWaiting
        <5>3. Callback(t, "Timeout") \in Stacked' /\ t \in wakeup_events
          <6>1. t \in wakeup_events /\ WakeupCalls(t) = <<Callback(t, "Timeout"), RemoveWaiting(t), Resume(t)>>
            BY <3>2, <5>1, <5>2 DEF ThreadWakeupCallback, WakeupCalls
          <6>2. 1 \in DOMAIN WakeupCalls(t) /\ WakeupCalls(t)[1] = Callback(t, "Timeout")
            BY <6>1
          <6>3. Callback(t, "Timeout") \in Range(WakeupCalls(t))
            BY <6>2 DEF Range
          <6> QED
            BY <5>1, <5>2, <6>1, <6>3
        <5> QED
          BY <2>1, <2>2, <3>0, <3>2, <4>1, <5>3 DEF ArbiterOf
      <4> QED
        BY <4>2, <4>3
    <3> QED
      BY <3>1, <3>2
  <2> QED
    BY <2>1, <2>3 DEF ArbiterInv
<1> QED
  BY <1>1, <1>2

LEMMA ArbiterInvNext ==
    ASSUME TypeOK, Nested(work), CoreInv, TimeoutsOfSleepers, WakesResume, ArbiterInv,
           [Next]_vars
    PROVE  ArbiterInv'
<1>1. CASE OtherStep
  BY <1>1, OtherArbiter
<1>2. CASE Entry
  BY <1>2, EntryArbiter
<1>3. CASE Scheduling
  <2>1. /\ UNCHANGED <<arb_waiting, exited, wakeup_callback>>
        /\ wakeup_events' \subseteq wakeup_events
    BY <1>3 DEF Scheduling, BoostStarvedStep, PopNextStep, RequeueStep, SwitchContextStep,
                CancelWakeup, Reschedule, Fail, NoFault, systemVars
  <2>2. \A t : /\ Resume(t) \notin Stacked /\ Resume(t) \notin Stacked'
               /\ Callback(t, "Timeout") \notin Stacked
    BY <1>3, SchedulingStacks DEF SchedulingOps, Resume, Callback
  <2>3. ASSUME NEW t \in Threads
        PROVE  \/ status'[t] = status[t]
               \/ status[t] # "WaitArb" /\ status'[t] # "WaitArb"
    <3>1. CASE SwitchContextStep /\ fault' = NoFault
      BY <3>1, SwitchedStatus
    <3>2. CASE BoostStarvedStep \/ PopNextStep \/ RequeueStep \/ (\E c \in Cores : Reschedule(c))
      BY <3>2 DEF BoostStarvedStep, PopNextStep, RequeueStep, Reschedule, Fail, systemVars
    <3> QED
      BY <1>3, <3>1, <3>2 DEF Scheduling
  <2>4. ASSUME NEW t \in Threads
        PROVE  ArbiterOf(t)'
    BY <2>1, <2>2, <2>3, ArbiterKept DEF ArbiterInv
  <2> QED
    BY <2>1, <2>4 DEF ArbiterInv
<1>4. CASE UNCHANGED systemVars
  <2>1. UNCHANGED <<arb_waiting, exited, wakeup_callback, wakeup_events, status>>
        /\ Stacked' = Stacked
    BY <1>4 DEF systemVars, Stacked
  <2>2. ASSUME NEW t \in Threads
        PROVE  ArbiterOf(t)'
    BY <2>1, ArbiterKept DEF ArbiterInv
  <2> QED
    BY <2>1, <2>2 DEF ArbiterInv
<1> QED
  BY <1>1, <1>2, <1>3, <1>4, NextCases DEF Scheduling

(* A thread of a process that has not ended is listed by an arbiter only   *)
(* while it waits for an address, and then by one only; each thread that   *)
(* waits for an address is listed or about to be resumed; its timeout      *)
(* takes it off the list that it is on (AddressArbiter::WaitThread,        *)
(* ResumeHighestPriorityThread, ResumeAllThreads and WakeUp).              *)
THEOREM ArbitersCorrect == Orderly /\ Spec => []ArbiterInv
<1> DEFINE Arbitration == TimeoutsOfSleepers /\ WakesResume /\ ArbiterInv
<1>1. Init => Arbitration
  <2> SUFFICES ASSUME Init
               PROVE  Arbitration
    OBVIOUS
  <2>1. Stacked = {}
    BY QuietStack DEF Init
  <2>2. TimeoutsOfSleepers /\ WakesResume
    BY <2>1 DEF Init, TimeoutsOfSleepers, WakesResume
  <2>3. \A a \in Arbiters : IsInjective(arb_waiting[a]) /\ Range(arb_waiting[a]) = {}
    BY RangeOfNothing DEF Init, IsInjective
  <2>4. \A t \in Threads : status[t] # "WaitArb"
    BY DEF Init
  <2> QED
    BY <2>2, <2>3, <2>4 DEF ArbiterInv, ArbiterOf
<1>2. TypeOK /\ (Nested(work) /\ CoreInv) /\ Arbitration /\ [Next]_vars => Arbitration'
  BY TimeoutsOfSleepersNext, WakesResumeNext, ArbiterInvNext
<1>3. Arbitration => ArbiterInv
  OBVIOUS
<1> HIDE DEF Arbitration
<1> QED
  BY <1>1, <1>2, <1>3, TypeCorrect, CoresCorrect, PTL DEF Spec

LEMMA NoneOrderly == Terminable = {} => Orderly
BY DEF Orderly

(* While no process is terminated, the arbiters list exactly the threads   *)
(* that wait for an address, each once: no thread that is woken, or whose  *)
(* wait times out, stays on a list (address_arbiter.cpp).                  *)
THEOREM ArbiterListsExact == Terminable = {} /\ Spec => []ArbiterListsMirror
<1> DEFINE None == Terminable = {} /\ exited = {}
<1>1. Terminable = {} /\ Init => None
  BY DEF Init
<1>2. None /\ [Next]_vars => None'
  BY NoneExit
<1>3. TypeOK /\ ArbiterInv /\ None => ArbiterListsMirror
  <2> SUFFICES ASSUME TypeOK, ArbiterInv, None, Quiet
               PROVE  /\ UNION {Range(arb_waiting[a]) : a \in Arbiters} =
                            {t \in Threads : status[t] = "WaitArb"}
                      /\ \A a \in Arbiters : IsInjective(arb_waiting[a])
    BY DEF ArbiterListsMirror
  <2>1. Stacked = {}
    BY QuietStack DEF Quiet
  <2>2. \A a \in Arbiters : Range(arb_waiting[a]) \subseteq Threads
    <3>1. ASSUME NEW a \in Arbiters
          PROVE  Range(arb_waiting[a]) \subseteq Threads
      <4>1. arb_waiting[a] \in Seq(Threads)
        BY DEF TypeOK
      <4> QED
        BY <4>1, RangeEquality
    <3> QED
      BY <3>1
  <2>3. ASSUME NEW t \in Threads
        PROVE  status[t] = "WaitArb" <=> \E a \in Arbiters : t \in Range(arb_waiting[a])
    BY <2>1 DEF ArbiterInv, ArbiterOf
  <2> QED
    BY <2>2, <2>3 DEF ArbiterInv
<1> HIDE DEF None
<1> QED
  BY <1>1, <1>2, <1>3, NoneOrderly, TypeCorrect, ArbitersCorrect, PTL DEF Spec

(***************************************************************************)
(* SECOND PART: no assertion of the kernel fails, when no process is       *)
(* terminated and nobody waits for one object twice at once, or for itself. *)
(***************************************************************************)

(***************************************************************************)
(* Which call is above which.                                              *)
(***************************************************************************)
(* What is under the innermost call of a sound stack is sound.             *)
LEMMA SoundParts ==
    ASSUME NEW w \in Seq(Frames), w # <<>>, NEW dead, Sound(w, dead)
    PROVE  /\ Sound(Tail(w), dead)
           /\ \A g \in Range(Tail(w)) : SoundAbove(Head(w), g, dead)
<1>1. /\ Head(w) = w[1]
      /\ Len(w) \in Nat \ {0} /\ Len(Tail(w)) = Len(w) - 1
      /\ \A i \in 1..Len(Tail(w)) : Tail(w)[i] = w[i + 1]
  BY HeadTailProperties, EmptySeq
<1>2. Range(Tail(w)) = {Tail(w)[i] : i \in 1..Len(Tail(w))}
  BY StackParts, RangeEquality
<1>3. /\ \A i \in 1..Len(Tail(w)) : i + 1 \in 1..Len(w) /\ 1 < i + 1
      /\ 1 \in 1..Len(w)
  BY <1>1
<1>4. \A i, j \in 1..Len(Tail(w)) : i < j => i + 1 < j + 1
  BY <1>1
<1>5. Sound(Tail(w), dead)
  <2> SUFFICES ASSUME NEW i \in 1..Len(Tail(w)), NEW j \in 1..Len(Tail(w)), i < j
               PROVE  SoundAbove(Tail(w)[i], Tail(w)[j], dead)
    BY DEF Sound
  <2>1. SoundAbove(w[i + 1], w[j + 1], dead)
    BY <1>3, <1>4 DEF Sound
  <2> QED
    BY <1>1, <2>1
<1>6. \A i \in 1..Len(Tail(w)) : SoundAbove(Head(w), Tail(w)[i], dead)
  <2> SUFFICES ASSUME NEW i \in 1..Len(Tail(w))
               PROVE  SoundAbove(Head(w), Tail(w)[i], dead)
    OBVIOUS
  <2>1. SoundAbove(w[1], w[i + 1], dead)
    BY <1>3 DEF Sound
  <2> QED
    BY <1>1, <2>1
<1> QED
  BY <1>2, <1>5, <1>6

(* Sound calls put on a sound stack that each of them may be above.        *)
LEMMA SoundPush ==
    ASSUME NEW p \in Seq(Frames), NEW w \in Seq(Frames), NEW dead,
           Sound(p, dead), Sound(w, dead),
           \A f \in Range(p), g \in Range(w) : SoundAbove(f, g, dead)
    PROVE  Sound(p \o w, dead)
<1>1. /\ p \o w \in Seq(Frames) /\ Len(p \o w) = Len(p) + Len(w)
      /\ \A i \in 1..(Len(p) + Len(w)) :
            (p \o w)[i] = IF i <= Len(p) THEN p[i] ELSE w[i - Len(p)]
      /\ Len(p) \in Nat /\ Len(w) \in Nat
  BY ConcatProperties
<1>2. /\ \A i \in 1..Len(p) : p[i] \in Range(p)
      /\ \A i \in 1..Len(w) : w[i] \in Range(w)
  BY RangeEquality
<1> SUFFICES ASSUME NEW i \in 1..Len(p \o w), NEW j \in 1..Len(p \o w), i < j
             PROVE  SoundAbove((p \o w)[i], (p \o w)[j], dead)
  BY DEF Sound
<1>3. CASE j <= Len(p)
  <2>1. (p \o w)[i] = p[i] /\ (p \o w)[j] = p[j] /\ i \in 1..Len(p) /\ j \in 1..Len(p)
    BY <1>1, <1>3
  <2> QED
    BY <2>1 DEF Sound
<1>4. CASE i > Len(p)
  <2>1. /\ (p \o w)[i] = w[i - Len(p)] /\ (p \o w)[j] = w[j - Len(p)]
        /\ i - Len(p) \in 1..Len(w) /\ j - Len(p) \in 1..Len(w) /\ i - Len(p) < j - Len(p)
    BY <1>1, <1>4
  <2> QED
    BY <2>1 DEF Sound
<1>5. CASE i <= Len(p) /\ j > Len(p)
  <2>1. /\ (p \o w)[i] = p[i] /\ (p \o w)[j] = w[j - Len(p)]
        /\ i \in 1..Len(p) /\ j - Len(p) \in 1..Len(w)
    BY <1>1, <1>5
  <2> QED
    BY <1>2, <2>1
<1> QED
  BY <1>1, <1>3, <1>4, <1>5

(* A stack stays sound as threads die.                                     *)
LEMMA SoundMore ==
    ASSUME NEW w, NEW dead, NEW more, dead \subseteq more, Sound(w, dead)
    PROVE  Sound(w, more)
BY DEF Sound, SoundAbove

(* A stack on which nothing is acquired and nobody leaves a list.          *)
LEMMA SoundWithout ==
    ASSUME NEW w \in Seq(Frames), NEW dead,
           \A f \in Range(w) : f.op \notin {"Acquire", "RemoveWaiting"}
    PROVE  Sound(w, dead)
<1>1. \A i \in 1..Len(w) : w[i] \in Range(w)
  BY RangeEquality
<1> QED
  BY <1>1 DEF Sound, SoundAbove

(***************************************************************************)
(* The stack stays sound.                                                  *)
(***************************************************************************)
(* The calls that acquire the objects os for t.                            *)
AcquireCalls(os, t) == [i \in 1..Len(os) |-> Acquire(os[i], t)]

LEMMA AcquireCallsSound ==
    ASSUME NEW t \in Threads, NEW os \in Seq(Objects), IsInjective(os), NEW dead
    PROVE  /\ AcquireCalls(os, t) \in Seq(Frames)
           /\ Sound(AcquireCalls(os, t), dead)
           /\ \A f \in Range(AcquireCalls(os, t)) : f.op = "Acquire"
<1> DEFINE calls == AcquireCalls(os, t)
<1>1. calls \in Seq(Frames)
  BY AcquireCallsType DEF AcquireCalls
<1>2. /\ Len(calls) = Len(os)
      /\ \A i \in 1..Len(os) : calls[i].op = "Acquire" /\ calls[i].object = os[i]
  <2>1. Len(os) \in Nat
    OBVIOUS
  <2> QED
    BY <2>1 DEF Acquire, AcquireCalls
<1>3. \A i, j \in 1..Len(os) : i # j => os[i] # os[j]
  BY DEF IsInjective
<1> HIDE DEF calls
<1>4. \A i, j \in 1..Len(os) : i < j => i # j
  OBVIOUS
<1>5. Sound(calls, dead)
  BY <1>2, <1>3, <1>4 DEF Sound, SoundAbove
<1>6. \A f \in Range(calls) : f.op = "Acquire"
  BY <1>1, <1>2, RangeEquality
<1> QED
  BY <1>1, <1>5, <1>6 DEF calls

(* The calls that wake t once its wait has ended for the reason r.         *)
LEMMA WakeSound ==
    ASSUME NEW t \in Threads, NEW r \in Reasons, NEW dead
    PROVE  LET calls == <<Callback(t, r), RemoveWaiting(t), Resume(t)>>
           IN  /\ calls \in Seq(Frames)
               /\ Sound(calls, dead)
               /\ \A f \in Range(calls) : f.op \in {"Callback", "RemoveWaiting", "Resume"}
<1> DEFINE calls == <<Callback(t, r), RemoveWaiting(t), Resume(t)>>
<1>1. /\ Callback(t, r) \in Frames /\ Callback(t, r).op = "Callback"
      /\ RemoveWaiting(t) \in Frames /\ RemoveWaiting(t).op = "RemoveWaiting"
      /\ Resume(t) \in Frames /\ Resume(t).op = "Resume"
  BY FrameType DEF Callback, RemoveWaiting, Resume
<1>2. calls \in Seq(Frames) /\ Len(calls) = 3
  BY <1>1
<1>3. /\ calls[1] = Callback(t, r) /\ calls[2] = RemoveWaiting(t) /\ calls[3] = Resume(t)
  OBVIOUS
<1> HIDE DEF calls
<1>4. \A i \in 1..Len(calls) : i = 1 \/ i = 2 \/ i = 3
  BY <1>2
<1>5. ASSUME NEW i \in 1..Len(calls), NEW j \in 1..Len(calls), i < j
      PROVE  SoundAbove(calls[i], calls[j], dead)
  <2>1. calls[i].op \in {"Callback", "RemoveWaiting"} /\ calls[j].op \in {"RemoveWaiting", "Resume"}
    BY <1>1, <1>3, <1>4, <1>5
  <2> QED
    BY <2>1 DEF SoundAbove
<1>6. \A f \in Range(calls) : f.op \in {"Callback", "RemoveWaiting", "Resume"}
  BY <1>1, <1>2, <1>3, <1>4, RangeEquality
<1> QED
  BY <1>2, <1>5, <1>6 DEF calls, Sound

(* WakeupAllWaitingThreads calls into a wakeup.                            *)
LEMMA WakeupAllSound ==
    ASSUME TypeOK, Nested(work), Sound(work, DeadThreads), WaitsOnce, WakeupAllStep,
           fault' = NoFault
    PROVE  Sound(work', DeadThreads)
<1> DEFINE o == top.object
           t == HighestPriorityReady(o)
           dead == DeadThreads
<1>1. /\ work # <<>> /\ top.op = "WakeupAll" /\ work \in Seq(Frames)
      /\ ~ \E x \in Range(waiting_threads[o]) : status[x] \notin WaitingOnObjects
  BY DEF WakeupAllStep, Runs, top, TypeOK, Fail, NoFault
<1>2. /\ Stacked = {top} \cup Under
      /\ \A f \in Under : f.op \in Beneath("WakeupAll")
  BY <1>1, Innermost
<1>3. /\ Sound(Tail(work), dead)
      /\ \A g \in Under : SoundAbove(top, g, dead)
  BY <1>1, SoundParts DEF top, Under
<1>4. CASE t = NoThread
  <2>1. work' = Tail(work)
    BY <1>1, <1>4 DEF WakeupAllStep, Return
  <2> QED
    BY <1>3, <2>1
<1>5. CASE t # NoThread
  <2> DEFINE taken == Taken(o, t)
             tail == <<Callback(t, "Signal"), RemoveWaiting(t), Resume(t)>>
             calls == AcquireCalls(taken, t)
  <2>1. t \in Threads /\ taken \in Seq(Objects)
    BY <1>5, WakeupAllStack
  <2>2. IsInjective(taken)
    <3>1. IsInjective(<<o>>)
      BY DEF IsInjective
    <3> HIDE DEF t, o
    <3> QED
      BY <2>1, <3>1 DEF Taken, WaitsOnce
  <2>3. work' = calls \o tail \o work
    BY <1>1, <1>5 DEF WakeupAllStep, AcquireCalls
  <2>4. \A g \in Stacked : g.op # "Acquire" /\ (g.op = "RemoveWaiting" => g.thread \in dead)
    BY <1>1, <1>2, <1>3, BeneathEach DEF SoundAbove, Ending
  <2> HIDE DEF t, dead, taken
  <2>5. /\ calls \in Seq(Frames) /\ Sound(calls, dead)
        /\ \A f \in Range(calls) : f.op = "Acquire"
    BY <2>1, <2>2, AcquireCallsSound
  <2>6. /\ tail \in Seq(Frames) /\ Sound(tail, dead)
        /\ \A f \in Range(tail) : f.op \in {"Callback", "RemoveWaiting", "Resume"}
    BY <2>1, WakeSound DEF Reasons
  <2> HIDE DEF calls, tail
  <2>7. /\ tail \o work \in Seq(Frames)
        /\ Range(tail \o work) = Range(tail) \cup Stacked
    BY <1>1, <2>6, StackPush DEF Stacked
  <2>8. Sound(tail \o work, dead)
    <3>1. \A f \in Range(tail), g \in Range(work) : SoundAbove(f, g, dead)
      BY <2>4, <2>6 DEF SoundAbove, Stacked
    <3> QED
      BY <1>1, <2>6, <3>1, SoundPush DEF dead
  <2>9. Sound(calls \o (tail \o work), dead)
    <3>1. \A f \in Range(calls), g \in Range(tail \o work) : SoundAbove(f, g, dead)
      BY <2>4, <2>5, <2>6, <2>7 DEF SoundAbove
    <3> QED
      BY <2>5, <2>7, <2>8, <3>1, SoundPush
  <2>10. calls \o tail \o work = calls \o (tail \o work)
    BY <1>1, <2>5, <2>6, ConcatAssociative
  <2> QED
    BY <2>3, <2>9, <2>10 DEF dead
<1> QED
  BY <1>4, <1>5

(* Thread::Stop calls on behalf of a thread that is dead from now on.      *)
LEMMA StopSound ==
    ASSUME TypeOK, Nested(work), StopStep
    PROVE  Sound(work', DeadThreads')
<1> DEFINE t == top.thread
<1>1. /\ work # <<>> /\ top.op = "Stop" /\ work \in Seq(Frames)
      /\ work' = StopCalls(t) \o Tail(work)
      /\ status' = [status EXCEPT ![t] = "Dead"]
  BY DEF StopStep, Runs, top, TypeOK
<1>2. t \in Threads /\ Tail(work) \in Seq(Frames)
  BY <1>1, Innermost, FrameFields, StackParts
<1>3. \A f \in Under : f.op = "TerminateThreads"
  BY StopStack
<1>4. t \in DeadThreads'
  BY <1>1, <1>2 DEF DeadThreads, TypeOK
<1> HIDE DEF t
<1> DEFINE a == WakeupAll(t)
           b == RemoveWaiting(t)
           d == ReleaseMutexes(t, held_mutexes[t])
           calls == <<a, b, d>>
<1>5. /\ a \in Frames /\ a.op = "WakeupAll" /\ a.object = t
      /\ b \in Frames /\ b.op = "RemoveWaiting" /\ b.thread = t
      /\ d \in Frames /\ d.op = "ReleaseMutexes"
  <2>1. t \in Objects /\ held_mutexes[t] \in SUBSET Mutexes
    BY <1>2 DEF Objects, TypeOK
  <2> QED
    BY <1>2, <2>1, FrameType DEF WakeupAll, RemoveWaiting, ReleaseMutexes
<1>6. StopCalls(t) = calls
  BY DEF StopCalls
<1> PICK dead : dead = DeadThreads'
  OBVIOUS
<1> HIDE DEF a, b, d
<1>7. calls \in Seq(Frames) /\ Range(calls) = {a, b, d}
  BY <1>5 DEF Range
<1>8. Sound(calls, dead)
  <2>1. Len(calls) = 3 /\ calls[1] = a /\ calls[2] = b /\ calls[3] = d
    OBVIOUS
  <2> HIDE DEF calls
  <2>2. \A i \in 1..Len(calls) : i = 1 \/ i = 2 \/ i = 3
    BY <2>1
  <2>3. SoundAbove(a, b, dead) /\ SoundAbove(a, d, dead) /\ SoundAbove(b, d, dead)
    BY <1>4, <1>5 DEF SoundAbove
  <2> QED
    BY <2>1, <2>2, <2>3 DEF Sound
<1> HIDE DEF calls
<1>9. Sound(Tail(work), dead)
  BY <1>2, <1>3, SoundWithout DEF Under
<1>10. \A f \in Range(calls), g \in Range(Tail(work)) : SoundAbove(f, g, dead)
  BY <1>3 DEF Under, SoundAbove
<1> QED
  BY <1>1, <1>2, <1>6, <1>7, <1>8, <1>9, <1>10, SoundPush

LEMMA OtherSound ==
    ASSUME TypeOK, TypeOK', Nested(work), CoreInv, Sound(work, DeadThreads), WaitsOnce,
           [Next]_vars, OtherStep
    PROVE  Sound(work', DeadThreads')
<1>1. /\ work # <<>> /\ work \in Seq(Frames) /\ work' \in Seq(Frames) /\ fault' = NoFault
      /\ top \in Frames
  BY OtherStepCases DEF TypeOK
<1>2. DeadThreads \subseteq DeadThreads'
  BY DeadStayDeadNext DEF DeadThreads
<1> PICK dead : dead = DeadThreads'
  OBVIOUS
<1>3. CASE work' = Tail(work) \/ work' = work
  <2>1. Sound(work', DeadThreads)
    BY <1>1, <1>3, SoundParts
  <2> QED
    BY <1>2, <2>1, SoundMore
<1>4. CASE \A f \in Stacked' : f.op \notin {"Acquire", "RemoveWaiting"}
  <2>1. \A f \in Range(work') : f.op \notin {"Acquire", "RemoveWaiting"}
    BY <1>4 DEF Stacked
  <2> QED
    BY <1>1, <2>1, SoundWithout
<1>5. CASE AcquireStep \/ CallbackStep \/ ResumeStep
  BY <1>1, <1>3, <1>5 DEF AcquireStep, CallbackStep, ResumeStep, Return, Fail, NoFault
<1>6. CASE RemoveWaitingStep
  BY <1>3, <1>6, RemoveWaitingStack
<1>7. CASE WakeupAllStep
  BY <1>1, <1>2, <1>7, WakeupAllSound, SoundMore
<1>8. CASE StopStep
  BY <1>8, StopSound
<1>9. CASE UpdateMutexesStep \/ AddWaitingStep \/ ReleaseMutexesStep \/ TerminateThreadsStep
           \/ ResumeArbitratedStep
  <2>1. CASE UpdateMutexesStep
    BY <1>4, <2>1, UpdateMutexesStack DEF UpdateMutexes
  <2>2. CASE AddWaitingStep
    BY <1>4, <2>2, AddWaitingStack DEF AddWaiting
  <2>3. CASE ReleaseMutexesStep
    BY <1>4, <2>3, ReleaseMutexesStack DEF WakeupAll, ReleaseMutexes
  <2>4. CASE TerminateThreadsStep
    <3>1. top.op = "TerminateThreads" /\ Stacked = {top} \cup Under
      BY <2>4, OtherStepCases, TopOfStep
    <3>2. \A f \in Under : f.op = "TerminateThreads"
      BY <2>4, TerminateThreadsStack
    <3>3. \A t : Stop(t).op = "Stop"
      BY DEF Stop
    <3>4. \A f \in Stacked' : f.op \in {"Stop", "TerminateThreads"}
      BY <2>4, <3>1, <3>2, <3>3, TerminateThreadsStack
    <3> QED
      BY <1>4, <3>4
  <2>5. CASE ResumeArbitratedStep
    BY <1>1, <1>4, <2>5, ResumeArbitratedStack DEF Resume
  <2> QED
    BY <1>9, <2>1, <2>2, <2>3, <2>4, <2>5
<1> QED
  BY <1>5, <1>6, <1>7, <1>8, <1>9, OtherStepCases

(***************************************************************************)
(* What a wait takes at once.                                              *)
(***************************************************************************)
(* Nobody waits for itself, or names one object twice in one wait.         *)
ProperWaits == ~SelfJoin /\ \A os \in WaitLists : IsInjective(os)

(* The objects ps are there for t to take.                                 *)
Available(ps, t) ==
    /\ ps \in Seq(Objects) /\ IsInjective(ps)
    /\ \A o \in Range(ps) : ~ShouldWait(o, t)

LEMMA WaitOutcome ==
    ASSUME ProperWaits, NEW c \in Cores, NEW t \in Threads, NEW os \in WaitLists, NEW timeout,
           \/ WaitSynchronizationAny(c, t, os, timeout)
           \/ WaitSynchronizationAll(c, t, os, timeout)
    PROVE  /\ os \in Seq(Objects) /\ IsInjective(os) /\ t \notin Range(os)
           /\ \/ \E ps : Grants(t, ps) /\ Available(ps, t)
              \/ \E s \in WaitingOnObjects : Sleeps(c, t, os, s, timeout)
<1>1. os \in Seq(Objects) /\ IsInjective(os)
  BY SyncAssumption DEF ProperWaits
<1>2. t \notin Range(os)
  BY DEF ProperWaits, WaitSynchronizationAny, WaitSynchronizationAll, MayWaitFor
<1>3. CASE WaitSynchronizationAll(c, t, os, timeout)
  <2>1. CASE \A o \in Range(os) : ~ShouldWait(o, t)
    <3>1. Grants(t, os) /\ Available(os, t)
      BY <1>1, <1>3, <2>1 DEF WaitSynchronizationAll, Available
    <3> QED
      BY <1>1, <1>2, <3>1
  <2>2. CASE ~ \A o \in Range(os) : ~ShouldWait(o, t)
    <3>1. Sleeps(c, t, os, "WaitSynchAll", timeout)
      BY <1>3, <2>2 DEF WaitSynchronizationAll
    <3> QED
      BY <1>1, <1>2, <3>1 DEF WaitingOnObjects
  <2> QED
    BY <2>1, <2>2
<1>4. CASE WaitSynchronizationAny(c, t, os, timeout)
  <2> DEFINE available == {i \in 1..Len(os) : ~ShouldWait(os[i], t)}
  <2>1. CASE available = {}
    <3>1. Sleeps(c, t, os, "WaitSynchAny", timeout)
      BY <1>4, <2>1 DEF WaitSynchronizationAny
    <3> QED
      BY <1>1, <1>2, <3>1 DEF WaitingOnObjects
  <2>2. CASE available # {}
    <3>1. Grants(t, <<os[Min(available)]>>)
      BY <1>4, <2>2 DEF WaitSynchronizationAny
    <3>2. available \subseteq Nat
      OBVIOUS
    <3>3. Min(available) \in available
      <4> HIDE DEF available
      <4> QED
        BY <2>2, <3>2, MinNat
    <3>4. os[Min(available)] \in Objects /\ ~ShouldWait(os[Min(available)], t)
      BY <1>1, <3>3
    <3> PICK o : o = os[Min(available)]
      OBVIOUS
    <3>5. Available(<<o>>, t)
      <4>1. <<o>> \in Seq(Objects)
        BY <3>4
      <4>2. Range(<<o>>) = {o}
        BY DEF Range
      <4>3. IsInjective(<<o>>)
        BY DEF IsInjective
      <4> QED
        BY <3>4, <4>1, <4>2, <4>3 DEF Available
    <3>6. Grants(t, <<o>>)
      BY <3>1
    <3> QED
      BY <1>1, <1>2, <3>5, <3>6
  <2> QED
    BY <2>1, <2>2
<1> QED
  BY <1>1, <1>2, <1>3, <1>4

(***************************************************************************)
(* Entry points.                                                           *)
(***************************************************************************)
LEMMA GrantsSound ==
    ASSUME TypeOK, NEW c \in Cores, NEW t \in Threads, NEW ps,
           Waits(c, t), Grants(t, ps), Available(ps, t)
    PROVE  Sound(work', DeadThreads') /\ \A f \in Stacked' : CallSound(f)'
<1>1. ps \in Seq(Objects) /\ IsInjective(ps) /\ \A o \in Range(ps) : ~ShouldWait(o, t)
  BY DEF Available
<1> PICK dead : dead = DeadThreads'
  OBVIOUS
<1>2. work' = AcquireCalls(ps, t)
  BY DEF Grants, AcquireCalls
<1>3. Sound(work', dead)
  BY <1>1, <1>2, AcquireCallsSound
<1>4. ASSUME NEW f \in Stacked'
      PROVE  CallSound(f)'
  <2>1. PICK o \in Range(ps) : f = Acquire(o, t)
    BY <1>1, GrantsStack
  <2>2. f.op = "Acquire" /\ f.object = o /\ f.thread = t
    BY <2>1 DEF Acquire
  <2>3. UNCHANGED <<status, lock_count, holding_thread, available_count, signaled>>
    BY DEF Waits, WaitSynchronizationAny, WaitSynchronizationAll, Grants
  <2>4. ~ShouldWait(o, t)'
    BY <1>1, <2>3 DEF ShouldWait
  <2> QED
    BY <2>2, <2>4 DEF CallSound
<1> QED
  BY <1>3, <1>4

(* A thread whose timeout strikes still sleeps, or has just been woken.    *)
LEMMA TimeoutSound ==
    ASSUME TypeOK, TypeOK', WaitInv, TimeoutsOfSleepers,
           NEW t \in Threads, ThreadWakeupCallback(t), work' # <<>>
    PROVE  Sound(work', DeadThreads') /\ \A f \in Stacked' : CallSound(f)'
<1>1. /\ work = <<>> /\ t \in wakeup_events /\ work' = WakeupCalls(t)
      /\ status' = status /\ wait_objects' = wait_objects
  BY DEF ThreadWakeupCallback, Quiet
<1>2. Stacked = {}
  BY <1>1, QuietStack
<1>3. status[t] \in WaitingStatus \cup {"Ready"}
  BY <1>1 DEF TimeoutsOfSleepers
<1>4. wait_objects[t] # <<>> => status[t] \in WaitingOnObjects
  BY <1>2 DEF WaitInv
<1> PICK dead : dead = DeadThreads'
  OBVIOUS
<1>5. CASE status[t] \in WaitingOnObjects \cup {"WaitArb"}
  <2> DEFINE calls == <<Callback(t, "Timeout"), RemoveWaiting(t), Resume(t)>>
  <2>1. work' = calls
    BY <1>1, <1>5 DEF WakeupCalls
  <2>2. Sound(calls, dead)
    BY WakeSound DEF Reasons
  <2>3. Stacked' = {Callback(t, "Timeout"), RemoveWaiting(t), Resume(t)}
    BY <2>1 DEF Stacked, Range
  <2>4. /\ Callback(t, "Timeout").op = "Callback" /\ Callback(t, "Timeout").reason = "Timeout"
        /\ RemoveWaiting(t).op = "RemoveWaiting"
        /\ Resume(t).op = "Resume" /\ Resume(t).thread = t
    BY DEF Callback, RemoveWaiting, Resume
  <2>5. \A f \in Stacked' : CallSound(f)'
    BY <1>1, <1>3, <2>3, <2>4 DEF CallSound
  <2> QED
    BY <2>1, <2>2, <2>5
<1>6. CASE status[t] \notin WaitingOnObjects \cup {"WaitArb"}
  <2>1. work' = <<Resume(t)>>
    BY <1>1, <1>6 DEF WakeupCalls
  <2>2. Resume(t).op = "Resume" /\ Resume(t).thread = t
    BY DEF Resume
  <2>3. Stacked' = {Resume(t)}
    BY <2>1, OneCallStack, FrameType
  <2>4. \A f \in Range(work') : f.op \notin {"Acquire", "RemoveWaiting"}
    BY <2>2, <2>3 DEF Stacked
  <2>5. Sound(work', dead)
    BY <2>4, SoundWithout DEF TypeOK
  <2>6. \A f \in Stacked' : CallSound(f)'
    BY <1>1, <1>3, <1>4, <1>6, <2>2, <2>3 DEF CallSound
  <2> QED
    BY <2>5, <2>6
<1> QED
  BY <1>5, <1>6

LEMMA EntrySound ==
    ASSUME ProperWaits, TypeOK, TypeOK', WaitInv, TimeoutsOfSleepers, Entry
    PROVE  Sound(work', DeadThreads') /\ \A f \in Stacked' : CallSound(f)'
<1>1. CASE \E f \in Stacked' : f.op = "Acquire"
  <2>1. PICK f \in Stacked' : f.op = "Acquire"
    BY <1>1
  <2>2. PICK c \in Cores, t \in Threads : Waits(c, t)
    BY <2>1, EntryCalls
  <2>3. PICK os \in WaitLists, timeout \in Timeouts :
           \/ WaitSynchronizationAny(c, t, os, timeout)
           \/ WaitSynchronizationAll(c, t, os, timeout)
    BY <2>2 DEF Waits
  <2>4. ASSUME NEW s \in WaitingOnObjects, Sleeps(c, t, os, s, timeout)
        PROVE  FALSE
    <3>1. os \in Seq(Objects)
      BY SyncAssumption
    <3>2. Stacked' = {AddWaiting(t, os)}
      BY <2>4, <3>1, SleepsStack
    <3> QED
      BY <2>1, <3>2 DEF AddWaiting
  <2>5. PICK ps : Grants(t, ps) /\ Available(ps, t)
    BY <2>3, <2>4, WaitOutcome
  <2> QED
    BY <2>2, <2>5, GrantsSound
<1>2. CASE \E f \in Stacked' : f.op \in {"Callback", "RemoveWaiting", "Resume"}
  <2>1. PICK f \in Stacked' : f.op \in {"Callback", "RemoveWaiting", "Resume"}
    BY <1>2
  <2>2. PICK t \in Threads : ThreadWakeupCallback(t)
    BY <2>1, EntryCalls
  <2>3. work' # <<>>
    BY <2>1, RangeOfNothing DEF Stacked
  <2> QED
    BY <2>2, <2>3, TimeoutSound
<1>3. CASE \A f \in Stacked' : f.op \notin {"Acquire", "Callback", "RemoveWaiting", "Resume"}
  <2> PICK dead : dead = DeadThreads'
    OBVIOUS
  <2>1. \A f \in Range(work') : f.op \notin {"Acquire", "RemoveWaiting"}
    BY <1>3 DEF Stacked
  <2>2. Sound(work', dead)
    BY <2>1, SoundWithout DEF TypeOK
  <2>3. \A f \in Stacked' : CallSound(f)'
    BY <1>3 DEF CallSound
  <2> QED
    BY <2>2, <2>3
<1> QED
  BY <1>1, <1>2, <1>3

(***************************************************************************)
(* What the calls that are under way rely on.                              *)
(***************************************************************************)
(* Which code may run above which.                                         *)
LEMMA CallsAbove ==
    ASSUME TypeOK, Nested(work), work # <<>>
    PROVE  /\ \A f \in Under : f.op = "Acquire" => top.op = "Acquire"
           /\ \A f \in Under : f.op = "Callback" => top.op = "Acquire"
           /\ \A f \in Under : f.op = "Resume" => top.op \in {"Acquire", "Callback", "RemoveWaiting"}
<1> USE BeneathEach DEF Ending
<1>1. /\ top \in Frames
      /\ \A f \in Under : f.op \in Beneath(top.op)
  BY Innermost
<1>2. top.op \in {"WakeupAll", "Acquire", "Callback", "AddWaiting", "RemoveWaiting", "Resume", "Stop",
                  "UpdateMutexes", "ReleaseMutexes", "TerminateThreads", "ResumeArbitrated",
                  "BoostStarved", "PopNext", "Requeue", "SwitchContext"}
  BY <1>1 DEF Frames
<1> QED
  BY <1>1, <1>2

(* An object that is not the one being acquired stays available.           *)
LEMMA AcquireKeepsOthers ==
    ASSUME TypeOK, AcquireStep, fault' = NoFault, NEW o \in Objects, NEW t \in Threads,
           o # top.object, ~ShouldWait(o, t)
    PROVE  ~ShouldWait(o, t)'
<1> DEFINE a == top.object
<1>1. ~(a \notin Semaphores /\ ShouldWait(a, top.thread))
  BY DEF AcquireStep, Fail, NoFault
<1>2. status' = status
  BY <1>1 DEF AcquireStep
<1>3. o \in Mutexes => lock_count'[o] = lock_count[o] /\ holding_thread'[o] = holding_thread[o]
  BY <1>1 DEF AcquireStep, AcquireMutex, TypeOK
<1>4. o \in Semaphores => available_count'[o] = available_count[o]
  <2>1. \/ available_count' = available_count
        \/ available_count' = [available_count EXCEPT ![a] = @ - 1]
    BY <1>1 DEF AcquireStep
  <2> QED
    BY <2>1 DEF TypeOK
<1>5. o \in Signals => signaled'[o] = signaled[o]
  <2>1. \/ signaled' = signaled
        \/ signaled' = [signaled EXCEPT ![a] = FALSE]
    BY <1>1 DEF AcquireStep
  <2>2. CASE signaled' = signaled
    BY <2>2
  <2>3. CASE signaled' = [signaled EXCEPT ![a] = FALSE]
    BY <2>3 DEF TypeOK
  <2> QED
    BY <2>1, <2>2, <2>3
<1> HIDE DEF a
<1> QED
  BY <1>2, <1>3, <1>4, <1>5 DEF ShouldWait

(* A call that stays on the stack.                                         *)
LEMMA KeptCallSound ==
    ASSUME TypeOK, TypeOK', Nested(work), CoreInv, CallsSound, [Next]_vars, OtherStep,
           NEW f \in Stacked, f \in Stacked'
    PROVE  CallSound(f)'
<1>1. /\ work # <<>> /\ work \in Seq(Frames) /\ fault' = NoFault
      /\ top \in Frames
      /\ Stacked = {top} \cup Under /\ Stacked \subseteq Frames
  BY OtherStepCases DEF TypeOK
<1>2. CallSound(f) /\ f \in Frames
  BY <1>1 DEF CallsSound
<1>3. CASE f.op = "Acquire"
  <2>1. top.op = "Acquire"
    BY <1>1, <1>3, CallsAbove
  <2>2. AcquireStep
    BY <2>1, StepOfTop DEF OtherStep
  <2>3. f \in Under
    BY <1>1, <2>2, AcquireStack
  <2>4. f.object # top.object
    BY <1>1, <1>3, <2>1, <2>3, SoundParts DEF CallsSound, SoundAbove, Under, top
  <2>5. f.object \in Objects /\ f.thread \in Threads
    BY <1>2, <1>3, FrameFields
  <2>6. f.object \in Semaphores \/ ~ShouldWait(f.object, f.thread)'
    BY <1>1, <1>2, <1>3, <2>2, <2>4, <2>5, AcquireKeepsOthers DEF CallSound
  <2> QED
    BY <1>3, <2>6 DEF CallSound
<1>4. CASE f.op = "Callback" /\ f.reason = "Signal"
  <2>1. top.op \in {"Acquire", "Callback"}
    BY <1>1, <1>4, CallsAbove
  <2>2. ~ResumeStep /\ ~StopStep
    BY <2>1, TopOfStep
  <2>3. status' = status
    BY <2>2, OtherStepStatus
  <2> QED
    BY <1>2, <1>4, <2>3 DEF CallSound
<1>5. CASE f.op = "Resume"
  <2> DEFINE t == f.thread
  <2>1. t \in Threads
    BY <1>2, <1>5, FrameFields
  <2>2. top.op \in {"Acquire", "Callback", "RemoveWaiting", "Resume"}
    BY <1>1, <1>5, CallsAbove
  <2>3. ~StopStep /\ ~AddWaitingStep
    BY <2>2, TopOfStep
  <2>4. status'[t] \in WaitingStatus \cup {"Ready"}
    <3>1. CASE ResumeStep
      <4>1. status' = status \/ status' = [status EXCEPT ![top.thread] = "Ready"]
        BY <1>1, <3>1 DEF ResumeStep, Fail, NoFault
      <4> QED
        BY <1>2, <1>5, <2>1, <4>1 DEF CallSound, TypeOK
    <3>2. CASE ~ResumeStep
      <4>1. status' = status
        BY <2>3, <3>2, OtherStepStatus
      <4> QED
        BY <1>2, <1>5, <4>1 DEF CallSound
    <3> QED
      BY <3>1, <3>2
  <2>5. ASSUME wait_objects'[t] # <<>>
        PROVE  RemoveWaiting(t) \in Stacked'
    <3>1. CASE RemoveWaitingStep
      <4>1. top.thread \in Threads /\ top.op = "RemoveWaiting"
        BY <1>1, <3>1, TopOfStep, FrameFields
      <4>2. CASE wait_objects[top.thread] = <<>>
        <5>1. wait_objects' = wait_objects /\ Stacked' = Under
          BY <3>1, <4>2, RemoveWaitingStack DEF RemoveWaitingStep
        <5>2. RemoveWaiting(t) \in Stacked
          BY <1>2, <1>5, <2>5, <5>1 DEF CallSound
        <5>3. t # top.thread
          BY <2>5, <4>2, <5>1
        <5>4. RemoveWaiting(t) # top
          BY <5>3 DEF RemoveWaiting
        <5> QED
          BY <1>1, <5>1, <5>2, <5>4
      <4>3. CASE wait_objects[top.thread] # <<>>
        <5>1. Stacked' = Stacked
          BY <3>1, <4>3, RemoveWaitingStack
        <5>2. wait_objects' = [wait_objects EXCEPT ![top.thread] = Tail(@)]
          BY <3>1, <4>3 DEF RemoveWaitingStep
        <5>3. wait_objects[t] # <<>>
          BY <2>1, <2>5, <4>1, <4>3, <5>2 DEF TypeOK
        <5> QED
          BY <1>2, <1>5, <5>1, <5>3 DEF CallSound
      <4> QED
        BY <4>2, <4>3
    <3>2. CASE ~RemoveWaitingStep
      <4>1. wait_objects' = wait_objects
        BY <2>3, <3>2, OtherStepLists
      <4>2. RemoveWaiting(t) \in Stacked
        BY <1>2, <1>5, <2>5, <4>1 DEF CallSound
      <4>3. RemoveWaiting(t) # top
        BY <3>2, StepOfTop DEF RemoveWaiting, OtherStep
      <4> QED
        BY <1>1, <4>2, <4>3, UnderStays
    <3> QED
      BY <3>1, <3>2
  <2> QED
    BY <1>5, <2>4, <2>5 DEF CallSound
<1> QED
  BY <1>3, <1>4, <1>5 DEF CallSound

LEMMA StackedThreadsNext ==
    ASSUME TypeOK', NEW f \in Stacked'
    PROVE  /\ f \in Frames
           /\ f.op \in {"Acquire", "Callback", "RemoveWaiting", "Resume"} => f.thread \in Threads
<1>1. f \in Frames
  <2>1. work' \in Seq(Frames)
    BY DEF TypeOK
  <2> QED
    BY <2>1, RangeOfSeq DEF Stacked
<1> QED
  BY <1>1, FrameFields

(* A call that a step makes.                                               *)
LEMMA NewCallSound ==
    ASSUME TypeOK, TypeOK', Nested(work), WaitInv, OtherStep,
           NEW f \in Stacked', f \notin Stacked
    PROVE  CallSound(f)'
<1>1. CASE WakeupAllStep /\ HighestPriorityReady(top.object) # NoThread
  <2> PICK o : o = top.object
    OBVIOUS
  <2> PICK t : t = HighestPriorityReady(o)
    OBVIOUS
  <2> PICK taken : taken = Taken(o, t)
    OBVIOUS
  <2>1. /\ t \in Threads /\ status[t] \in WaitingOnObjects /\ ReadyToRun(o, t)
        /\ UNCHANGED <<status, lock_count, holding_thread, available_count, signaled>>
    BY <1>1, WokenSleeps DEF OtherStep, WakeupAllStep, Fail, NoFault
  <2>2. \A x \in Range(taken) : ~ShouldWait(x, t)
    <3>1. Range(<<o>>) = {o}
      BY DEF Range
    <3> QED
      BY <2>1, <3>1 DEF Taken, ReadyToRun
  <2>3. /\ RemoveWaiting(t) \in Stacked'
        /\ f \in {Acquire(x, t) : x \in Range(taken)}
                 \cup {Callback(t, "Signal"), RemoveWaiting(t), Resume(t)}
    BY <1>1, WakeupAllStack DEF OtherStep
  <2>4. CASE f \in {Acquire(x, t) : x \in Range(taken)}
    <3>1. PICK x \in Range(taken) : f = Acquire(x, t)
      BY <2>4
    <3>2. f.op = "Acquire" /\ f.object = x /\ f.thread = t
      BY <3>1 DEF Acquire
    <3>3. ~ShouldWait(x, t)
      BY <2>2
    <3>4. ~ShouldWait(x, t)'
      BY <2>1, <3>3 DEF ShouldWait
    <3> QED
      BY <3>2, <3>4 DEF CallSound
  <2>5. CASE f = Callback(t, "Signal")
    <3>1. f.op = "Callback" /\ f.thread = t
      BY <2>5 DEF Callback
    <3> QED
      BY <2>1, <3>1 DEF CallSound
  <2>6. CASE f = RemoveWaiting(t)
    BY <2>6 DEF CallSound, RemoveWaiting
  <2>7. CASE f = Resume(t)
    <3>1. f.op = "Resume" /\ f.thread = t
      BY <2>7 DEF Resume
    <3> QED
      BY <2>1, <2>3, <3>1 DEF CallSound, WaitingStatus
  <2> QED
    BY <2>3, <2>4, <2>5, <2>6, <2>7
<1>2. CASE ResumeArbitratedStep /\ f.op = "Resume"
  <2>1. PICK i \in 1..Len(arb_waiting[top.arbiter]), h \in Frames :
           /\ status[arb_waiting[top.arbiter][i]] = "WaitArb"
           /\ h.op = "ResumeArbitrated"
           /\ Stacked' = {Resume(arb_waiting[top.arbiter][i]), h}
    BY <1>2, ResumeArbitratedStack DEF OtherStep
  <2> PICK t : t = arb_waiting[top.arbiter][i]
    OBVIOUS
  <2>2. f = Resume(t) /\ f.thread = t
    BY <1>2, <2>1 DEF Resume
  <2>3. t \in Threads
    BY <1>2, <2>2, StackedThreadsNext
  <2>4. Under = {} /\ top.op = "ResumeArbitrated"
    BY <1>2, ResumeArbitratedStack, TopOfStep DEF OtherStep
  <2>5. RemoveWaiting(t) \notin Stacked
    BY <2>4, OtherStepCases DEF RemoveWaiting
  <2>6. wait_objects[t] = <<>>
    BY <2>1, <2>3, <2>5 DEF WaitInv, WaitingOnObjects
  <2>7. status' = status /\ wait_objects' = wait_objects
    BY <1>2 DEF ResumeArbitratedStep, OtherStep, Fail, NoFault
  <2> QED
    BY <1>2, <2>1, <2>2, <2>6, <2>7 DEF CallSound, WaitingStatus
<1>3. CASE f.op \notin {"Acquire", "Callback", "Resume"}
  BY <1>3 DEF CallSound
<1>4. ~(WakeupAllStep /\ HighestPriorityReady(top.object) = NoThread)
  BY CoreAssumption, WakeupAllStack, OtherStepCases DEF OtherStep
<1>5. ASSUME f.op \in {"Acquire", "Callback", "Resume"},
             ~WakeupAllStep, ~ResumeArbitratedStep
      PROVE  FALSE
  BY <1>5, OtherCalls DEF WakeupAll, RemoveWaiting, ReleaseMutexes
<1>6. ASSUME f.op \in {"Acquire", "Callback"}, ~WakeupAllStep
      PROVE  FALSE
  BY <1>6, OtherCalls DEF WakeupAll, RemoveWaiting, ReleaseMutexes, Resume
<1> QED
  BY <1>1, <1>2, <1>3, <1>4, <1>5, <1>6

(***************************************************************************)
(* Nobody comes to wait for one object twice, or for itself.               *)
(***************************************************************************)
LEMMA TailInjective ==
    ASSUME NEW s \in Seq(Objects), s # <<>>, IsInjective(s), NEW t, t \notin Range(s)
    PROVE  IsInjective(Tail(s)) /\ t \notin Range(Tail(s))
<1>1. /\ Tail(s) \in Seq(Objects) /\ Len(s) \in Nat \ {0} /\ Len(Tail(s)) = Len(s) - 1
      /\ \A i \in 1..Len(Tail(s)) : Tail(s)[i] = s[i + 1]
      /\ DOMAIN s = 1..Len(s) /\ DOMAIN Tail(s) = 1..Len(Tail(s))
  BY HeadTailProperties, EmptySeq, LenProperties
<1>2. \A i \in 1..Len(Tail(s)) : i + 1 \in 1..Len(s)
  BY <1>1
<1>3. \A i, j \in 1..Len(Tail(s)) : i # j => i + 1 # j + 1
  BY <1>1
<1>4. IsInjective(Tail(s))
  <2> SUFFICES ASSUME NEW i \in 1..Len(Tail(s)), NEW j \in 1..Len(Tail(s)), i # j
               PROVE  Tail(s)[i] # Tail(s)[j]
    BY <1>1 DEF IsInjective
  <2>1. s[i + 1] # s[j + 1]
    BY <1>1, <1>2, <1>3 DEF IsInjective
  <2> QED
    BY <1>1, <2>1
<1>5. t \notin Range(Tail(s))
  BY <1>1, <1>2 DEF Range
<1> QED
  BY <1>4, <1>5

LEMMA EntryWaitObjects ==
    ASSUME TypeOK, Entry
    PROVE  \/ wait_objects' = wait_objects
           \/ \E c \in Cores, t \in Threads, os \in WaitLists, timeout \in Timeouts :
                 /\ \/ WaitSynchronizationAny(c, t, os, timeout)
                    \/ WaitSynchronizationAll(c, t, os, timeout)
                 /\ wait_objects' = [wait_objects EXCEPT ![t] = os]
<1>1. ASSUME NEW c \in Cores, NEW t \in Threads, NEW os \in WaitLists, NEW timeout \in Timeouts,
             \/ WaitSynchronizationAny(c, t, os, timeout)
             \/ WaitSynchronizationAll(c, t, os, timeout)
      PROVE  \/ wait_objects' = wait_objects
             \/ wait_objects' = [wait_objects EXCEPT ![t] = os]
  BY <1>1, WaitCases DEF Grants, Sleeps
<1>2. ASSUME NEW c \in Cores, NEW t \in Threads, WaitSvc(c, t), wait_objects' # wait_objects
      PROVE  \E os \in WaitLists, timeout \in Timeouts :
                \/ WaitSynchronizationAny(c, t, os, timeout)
                \/ WaitSynchronizationAll(c, t, os, timeout)
  BY <1>2 DEF WaitSvc, SleepThread, ArbitrateWait
<1>3. ASSUME NEW c \in Cores, NEW t \in Threads, SignalSvc(c, t) \/ ThreadSvc(c, t)
      PROVE  wait_objects' = wait_objects
  BY <1>3 DEF SignalSvc, ReleaseMutex, ReleaseSemaphore, SignalEvent, ClearSignal, SetTimer,
              CancelTimer, ArbitrateSignal, ThreadSvc, CreateThread, ExitThread, MakeThread,
              SetThreadPriority, TerminateProcess, ScheduleThreads
<1> QED
  BY <1>1, <1>2, <1>3 DEF Entry, SetupMainThread, MakeThread, MakeSleeper, TimerCallback, ThreadWakeupCallback

LEMMA WaitsOnceNext ==
    ASSUME ProperWaits, TypeOK, Nested(work), WaitsOnce, [Next]_vars
    PROVE  WaitsOnce'
<1>0. wait_objects \in [Threads -> Seq(Objects)]
  BY DEF TypeOK
<1>1. ASSUME NEW t \in Threads, NEW os, wait_objects' = [wait_objects EXCEPT ![t] = os],
             IsInjective(os), t \notin Range(os)
      PROVE  WaitsOnce'
  BY <1>0, <1>1 DEF WaitsOnce
<1>2. CASE wait_objects' = wait_objects
  BY <1>2 DEF WaitsOnce
<1>3. CASE Entry
  <2>1. ASSUME NEW c \in Cores, NEW t \in Threads, NEW os \in WaitLists, NEW timeout \in Timeouts,
               \/ WaitSynchronizationAny(c, t, os, timeout)
               \/ WaitSynchronizationAll(c, t, os, timeout),
               wait_objects' = [wait_objects EXCEPT ![t] = os]
        PROVE  WaitsOnce'
    <3>1. IsInjective(os) /\ t \notin Range(os)
      BY <2>1, WaitOutcome
    <3> QED
      BY <1>1, <2>1, <3>1
  <2> QED
    BY <1>2, <1>3, <2>1, EntryWaitObjects
<1>4. CASE OtherStep
  <2>1. CASE RemoveWaitingStep
    <3>1. top.thread \in Threads
      BY <1>4, <2>1, OtherStepCases, TopOfStep, FrameFields
    <3>2. \/ wait_objects' = wait_objects
          \/ /\ wait_objects[top.thread] # <<>>
             /\ wait_objects' = [wait_objects EXCEPT ![top.thread] = Tail(@)]
      BY <2>1 DEF RemoveWaitingStep
    <3> PICK t \in Threads : t = top.thread
      BY <3>1
    <3>3. CASE wait_objects[t] # <<>> /\ wait_objects' = [wait_objects EXCEPT ![t] = Tail(@)]
      <4>1. wait_objects[t] \in Seq(Objects) /\ IsInjective(wait_objects[t])
            /\ t \notin Range(wait_objects[t])
        BY <1>0 DEF WaitsOnce
      <4>2. IsInjective(Tail(wait_objects[t])) /\ t \notin Range(Tail(wait_objects[t]))
        BY <3>3, <4>1, TailInjective
      <4> QED
        BY <1>1, <3>3, <4>2
    <3> QED
      BY <1>2, <3>2, <3>3
  <2>2. CASE AddWaitingStep
    BY <1>2, <2>2 DEF AddWaitingStep
  <2>3. CASE ~RemoveWaitingStep /\ ~AddWaitingStep
    BY <1>2, <1>4, <2>3, OtherStepLists
  <2> QED
    BY <2>1, <2>2, <2>3
<1>5. CASE Scheduling \/ UNCHANGED systemVars
  BY <1>2, <1>5 DEF Scheduling, BoostStarvedStep, PopNextStep, RequeueStep, SwitchContextStep,
                    Reschedule, Fail, NoFault, systemVars
<1> QED
  BY <1>3, <1>4, <1>5, NextCases DEF Scheduling

(***************************************************************************)
(* CallsSound is preserved.                                                *)
(***************************************************************************)
LEMMA CallsSoundNext ==
    ASSUME ProperWaits, TypeOK, TypeOK', Nested(work), CoreInv, WaitInv, TimeoutsOfSleepers,
           CallsSound, [Next]_vars
    PROVE  CallsSound'
<1> DEFINE Calls == \A f \in Stacked : CallSound(f)
<1>1. WaitsOnce'
  BY WaitsOnceNext DEF CallsSound
<1>2. CASE Entry
  <2>1. Sound(work', DeadThreads') /\ \A f \in Stacked' : CallSound(f)'
    BY <1>2, EntrySound
  <2> QED
    BY <1>1, <2>1 DEF CallsSound
<1>3. CASE OtherStep
  <2>1. Sound(work', DeadThreads')
    BY <1>3, OtherSound DEF CallsSound
  <2>2. \A f \in Stacked' : CallSound(f)'
    BY <1>3, KeptCallSound, NewCallSound
  <2> QED
    BY <1>1, <2>1, <2>2 DEF CallsSound
<1>4. CASE Scheduling
  <2>1. \A f \in Stacked' : f.op \in SchedulingOps
    BY <1>4, SchedulingStacks
  <2>2. Sound(work', DeadThreads')
    <3> PICK dead : dead = DeadThreads'
      OBVIOUS
    <3>1. work' \in Seq(Frames) /\ \A f \in Range(work') : f.op \notin {"Acquire", "RemoveWaiting"}
      BY <2>1 DEF Stacked, SchedulingOps, TypeOK
    <3> QED
      BY <3>1, SoundWithout
  <2>3. \A f \in Stacked' : CallSound(f)'
    BY <2>1 DEF CallSound, SchedulingOps
  <2> QED
    BY <1>1, <2>2, <2>3 DEF CallsSound
<1>5. CASE UNCHANGED systemVars
  <2>1. /\ work' = work /\ status' = status /\ wait_objects' = wait_objects
        /\ lock_count' = lock_count /\ holding_thread' = holding_thread
        /\ available_count' = available_count /\ signaled' = signaled
    BY <1>5 DEF systemVars
  <2>2. Sound(work', DeadThreads')
    BY <2>1 DEF CallsSound, DeadThreads
  <2>3. ASSUME NEW f \in Stacked
        PROVE  CallSound(f)'
    <3>1. CallSound(f) /\ Stacked' = Stacked
      BY <2>1 DEF CallsSound, Stacked
    <3> QED
      BY <2>1, <3>1 DEF CallSound, ShouldWait
  <2> QED
    BY <1>1, <2>1, <2>2, <2>3 DEF CallsSound, Stacked
<1> QED
  BY <1>2, <1>3, <1>4, <1>5, NextCases DEF Scheduling

(***************************************************************************)
(* No step fails.                                                          *)
(***************************************************************************)
(* What the failing branches would need is ruled out, one assertion at a   *)
(* time.                                                                   *)
LEMMA AcquireHolds ==
    ASSUME TypeOK, Nested(work), CallsSound, AcquireStep
    PROVE  fault' = fault
<1>1. top.op = "Acquire" /\ work # <<>>
  BY DEF AcquireStep, Runs, top
<1>2. CallSound(top)
  BY <1>1, Innermost DEF CallsSound
<1>3. ~(top.object \notin Semaphores /\ ShouldWait(top.object, top.thread))
  BY <1>1, <1>2 DEF CallSound
<1> QED
  BY <1>3 DEF AcquireStep

(* A thread on the list of the object that is signalled still waits for it:*)
(* the only call below that could be taking one off is that of the object  *)
(* itself, a thread that has ended and does not wait for itself.           *)
LEMMA WakeupAllHolds ==
    ASSUME TypeOK, Nested(work), WaitInv, CallsSound, WakeupAllStep
    PROVE  fault' = fault
<1>1. top.op = "WakeupAll" /\ work # <<>> /\ work \in Seq(Frames)
  BY DEF WakeupAllStep, Runs, top, TypeOK
<1>2. /\ top \in Frames /\ top.object \in Objects
      /\ Stacked = {top} \cup Under
      /\ \A g \in Under : SoundAbove(top, g, DeadThreads)
  <2>1. top \in Frames /\ Stacked = {top} \cup Under
    BY <1>1, Innermost
  <2>2. \A g \in Under : SoundAbove(top, g, DeadThreads)
    BY <1>1, SoundParts DEF CallsSound, Under, top
  <2> QED
    BY <1>1, <2>1, <2>2, FrameFields
<1>3. ASSUME NEW x \in Range(waiting_threads[top.object]), status[x] \notin WaitingOnObjects
      PROVE  FALSE
  <2>0. waiting_threads[top.object] \in Seq(Threads)
    BY <1>2 DEF TypeOK
  <2>1. x \in Threads
    BY <1>3, <2>0, RangeEquality
  <2>2. top.object \in Range(wait_objects[x])
    BY <1>2, <1>3, <2>1 DEF WaitInv, ListedBy
  <2>3. wait_objects[x] # <<>>
    BY <2>2, RangeOfNothing
  <2>4. RemoveWaiting(x) \in Stacked
    BY <1>3, <2>1, <2>3 DEF WaitInv
  <2>5. RemoveWaiting(x) \in Under
    BY <1>1, <1>2, <2>4 DEF RemoveWaiting
  <2>6. top.object = x
    BY <1>1, <1>2, <2>5 DEF SoundAbove, RemoveWaiting
  <2> QED
    BY <2>1, <2>2, <2>6 DEF CallsSound, WaitsOnce
<1>4. ~ \E x \in Range(waiting_threads[top.object]) : status[x] \notin WaitingOnObjects
  BY <1>3
<1> QED
  BY <1>4 DEF WakeupAllStep

LEMMA CallbackHolds ==
    ASSUME TypeOK, Nested(work), CallbacksMatch, CallsSound, CallbackStep
    PROVE  fault' = fault
<1>1. top.op = "Callback" /\ work # <<>>
  BY DEF CallbackStep, Runs, top
<1>2. CallSound(top) /\ top.thread \in Threads /\ top.reason \in Reasons
  BY <1>1, Innermost, FrameFields DEF CallsSound
<1>3. top.reason # "Timeout" => wakeup_callback[top.thread] = "sync"
  BY <1>1, <1>2 DEF CallSound, Reasons, CallbacksMatch, CallbackMatches
<1>4. ~(wakeup_callback[top.thread] \in Arbiters /\ top.reason # "Timeout")
  BY <1>3, KindsAssumption
<1> QED
  BY <1>4 DEF CallbackStep

(* A thread that is resumed sleeps, or has been resumed already; it has    *)
(* left its lists, or it has ended.                                        *)
LEMMA ResumeHolds ==
    ASSUME TypeOK, Nested(work), CallbacksMatch, CallsSound, ResumeStep
    PROVE  fault' = fault
<1>1. top.op = "Resume" /\ work # <<>> /\ work \in Seq(Frames)
  BY DEF ResumeStep, Runs, top, TypeOK
<1>2. /\ CallSound(top) /\ top.thread \in Threads
      /\ Stacked = {top} \cup Under
      /\ \A g \in Under : SoundAbove(top, g, DeadThreads)
  <2>1. CallSound(top) /\ top.thread \in Threads /\ Stacked = {top} \cup Under
    BY <1>1, Innermost, FrameFields DEF CallsSound
  <2>2. \A g \in Under : SoundAbove(top, g, DeadThreads)
    BY <1>1, SoundParts DEF CallsSound, Under, top
  <2> QED
    BY <2>1, <2>2
<1>3. PICK t \in Threads : t = top.thread
  BY <1>2
<1>4. status[t] \in WaitingStatus \cup {"Ready"}
  BY <1>1, <1>2, <1>3 DEF CallSound
<1>5. wait_objects[t] = <<>>
  <2>1. SUFFICES ASSUME wait_objects[t] # <<>>
                 PROVE  FALSE
    OBVIOUS
  <2>2. RemoveWaiting(t) \in Stacked
    BY <1>1, <1>2, <1>3, <2>1 DEF CallSound
  <2>3. RemoveWaiting(t) \in Under
    BY <1>1, <1>2, <2>2 DEF RemoveWaiting
  <2>4. t \in DeadThreads
    BY <1>1, <1>2, <2>3 DEF SoundAbove, RemoveWaiting
  <2> QED
    BY <1>4, <2>4 DEF DeadThreads, WaitingStatus, WaitingOnObjects
<1>6. status[t] = "Ready" => wakeup_callback[t] = "none"
  BY DEF CallbacksMatch, CallbackMatches, WaitingOnObjects
<1> QED
  BY <1>3, <1>5, <1>6 DEF ResumeStep

(* Every listed thread waits for an address.                               *)
LEMMA ResumeArbitratedHolds ==
    ASSUME TypeOK, Nested(work), ArbiterInv, exited = {}, ResumeArbitratedStep
    PROVE  fault' = fault
<1>1. top.op = "ResumeArbitrated" /\ work # <<>>
  BY DEF ResumeArbitratedStep, Runs, top
<1>2. PICK a \in Arbiters : a = top.arbiter
  BY <1>1, Innermost, FrameFields
<1>3. arb_waiting[a] \in Seq(Threads)
  BY DEF TypeOK
<1>4. ASSUME NEW i \in 1..Len(arb_waiting[a])
      PROVE  status[arb_waiting[a][i]] = "WaitArb"
  <2>1. arb_waiting[a][i] \in Threads /\ arb_waiting[a][i] \in Range(arb_waiting[a])
    BY <1>3, RangeEquality, ElementOfSeq
  <2> QED
    BY <2>1 DEF ArbiterInv, ArbiterOf
<1> QED
  BY <1>2, <1>4 DEF ResumeArbitratedStep

(* There is a first ready thread while there are starved ones.             *)
LEMMA BoostStarvedHolds ==
    ASSUME TypeOK, Nested(work), CoreInv, QueueInv, BoostStarvedStep
    PROVE  fault' = fault
<1>1. top.op = "BoostStarved" /\ work # <<>>
  BY DEF BoostStarvedStep, Runs, top
<1>2. PICK c \in Cores : c = top.core
  BY <1>1, Innermost, FrameFields
<1>3. /\ top \in Stacked /\ top.threads \in SUBSET Threads
      /\ \A f \in Stacked : f.op \notin {"Requeue", "SwitchContext"}
  BY <1>1, Innermost, FrameFields, SchedulingInnermost DEF SchedulingOps
<1>4. SetAside = {}
  BY <1>1, <1>3, NothingAside DEF CoreInv
<1>5. ASSUME NEW t \in top.threads
      PROVE  get_first(ready_queue[c]) # NoThread
  <2>1. t \in Threads /\ status[t] = "Ready" /\ CoreOf[t] = c
    BY <1>1, <1>2, <1>3 DEF QueueInv, ReadyPicks
  <2>2. t \in Waiting(c)
    BY <1>4, <2>1 DEF Waiting
  <2>3. current_priority[t] \in Occupied(ready_queue[c])
    BY <2>2, OnQueue DEF QueueInv, QueuesExact
  <2>4. ready_queue[c] \in Lists(Priorities, Threads) /\ Priorities \subseteq Nat
    BY CoreAssumption DEF TypeOK, Priorities
  <2>5. front(ready_queue[c], Occupied(ready_queue[c])) \in Threads
    BY <2>3, <2>4, PopType
  <2> QED
    BY <2>5, CoreAssumption DEF get_first
<1> QED
  BY <1>2, <1>5 DEF BoostStarvedStep

(* The level of the running thread is on the chain.                        *)
LEMMA PopNextHolds ==
    ASSUME TypeOK, Nested(work), CoreInv, QueueInv, PopNextStep
    PROVE  fault' = fault
<1>1. top.op = "PopNext" /\ work # <<>>
  BY DEF PopNextStep, Runs, top
<1>2. PICK c \in Cores : c = top.core
  BY <1>1, Innermost, FrameFields
<1>3. PICK old : old = current_thread[c]
  OBVIOUS
<1>4. ASSUME IsRunning(old), \A p \in ready_queue[c].linked : p < current_priority[old]
      PROVE  FALSE
  <2>1. old \in Threads /\ CoreOf[old] = c /\ status[old] # "Free"
    BY <1>3, <1>4 DEF TypeOK, IsRunning, CoreInv, CurrentOwn
  <2>2. current_priority[old] \in ready_queue[c].linked /\ current_priority[old] \in Priorities
    BY <2>1 DEF QueueInv, LevelsLinked, TypeOK
  <2>3. current_priority[old] \in Nat
    BY <2>2, CoreAssumption DEF Priorities
  <2> QED
    BY <1>4, <2>2, <2>3
<1> QED
  BY <1>2, <1>3, <1>4 DEF PopNextStep

(* The picked thread is ready, or it is the running one and made so.       *)
LEMMA SwitchContextHolds ==
    ASSUME TypeOK, Nested(work), QueueInv, SwitchContextStep
    PROVE  fault' = fault
<1>1. top.op = "SwitchContext" /\ work # <<>>
  BY DEF SwitchContextStep, Runs, top
<1>2. /\ top \in Stacked /\ top.core \in Cores /\ top.next \in Threads \cup {NoThread}
  BY <1>1, Innermost, FrameFields
<1>3. PICK saved : saved = IF IsRunning(current_thread[top.core])
                           THEN [status EXCEPT ![current_thread[top.core]] = "Ready"]
                           ELSE status
  OBVIOUS
<1>4. top.next = NoThread \/ saved[top.next] = "Ready"
  <2>1. SUFFICES ASSUME top.next # NoThread
                 PROVE  saved[top.next] = "Ready"
    OBVIOUS
  <2>2. \/ status[top.next] = "Ready"
        \/ status[top.next] = "Running" /\ top.next = current_thread[top.core]
    BY <1>1, <1>2, <2>1 DEF QueueInv, ReadyPicks
  <2>3. top.next \in Threads /\ status \in [Threads -> Status]
    BY <1>2, <2>1 DEF TypeOK
  <2> QED
    BY <1>3, <2>1, <2>2, <2>3 DEF IsRunning
<1> QED
  BY <1>3, <1>4 DEF SwitchContextStep

(* The system in which no process is terminated, as far as the invariants  *)
(* proved so far describe it.                                              *)
LEMMA KernelStepHolds ==
    ASSUME TypeOK, Nested(work), CoreInv, QueueInv, WaitInv, CallbacksMatch, ArbiterInv,
           CallsSound, exited = {}, KernelStep
    PROVE  fault' = fault
<1>1. UpdateMutexesStep \/ AddWaitingStep \/ RemoveWaitingStep \/ StopStep
         \/ ReleaseMutexesStep \/ TerminateThreadsStep \/ RequeueStep => fault' = fault
  BY DEF UpdateMutexesStep, AddWaitingStep, RemoveWaitingStep, StopStep, ReleaseMutexesStep,
         TerminateThreadsStep, RequeueStep
<1> QED
  BY <1>1, AcquireHolds, WakeupAllHolds, CallbackHolds, ResumeHolds, ResumeArbitratedHolds,
     BoostStarvedHolds, PopNextHolds, SwitchContextHolds DEF KernelStep

LEMMA SvcHolds ==
    ASSUME Terminable = {}, NEW c \in Cores, NEW t \in Threads,
           WaitSvc(c, t) \/ SignalSvc(c, t) \/ ThreadSvc(c, t)
    PROVE  fault' = fault
<1>1. CASE WaitSvc(c, t)
  BY <1>1 DEF WaitSvc, WaitSynchronizationAny, WaitSynchronizationAll, SleepThread, ArbitrateWait
<1>2. CASE SignalSvc(c, t)
  BY <1>2 DEF SignalSvc, ReleaseMutex, ReleaseSemaphore, SignalEvent, ClearSignal, SetTimer,
              CancelTimer, ArbitrateSignal
<1>3. CASE ThreadSvc(c, t)
  BY <1>3 DEF ThreadSvc, CreateThread, MakeThread, ExitThread, SetThreadPriority, ScheduleThreads
<1> QED
  BY <1>1, <1>2, <1>3

LEMMA NoFaultNext ==
    ASSUME Terminable = {}, exited = {}, fault = NoFault, TypeOK, Nested(work), CoreInv,
           CreatedInv, QueueInv, WaitInv, TimeoutsOfSleepers, CallbacksMatch, ArbiterInv,
           CallsSound, [Next]_vars
    PROVE  fault' = NoFault
<1>1. ASSUME NEW t \in Threads, ThreadWakeupCallback(t)
      PROVE  fault' = NoFault
  <2>1. status[t] \in WaitingStatus \cup {"Ready"}
    BY <1>1 DEF ThreadWakeupCallback, TimeoutsOfSleepers
  <2>2. t \in thread_list
    BY <2>1 DEF CreatedInv, ListExact, Alive, WaitingStatus, WaitingOnObjects
  <2> QED
    BY <1>1, <2>2 DEF ThreadWakeupCallback
<1>2. ASSUME NEW p \in Processes, SetupMainThread(p)
      PROVE  fault' = NoFault
  BY <1>2 DEF SetupMainThread, MakeThread, MakeSleeper
<1>3. ASSUME NEW c \in Cores,
             Reschedule(c) \/ \E e \in Timers : TimerCallback(c, e)
      PROVE  fault' = NoFault
  BY <1>3 DEF Reschedule, TimerCallback
<1>4. CASE UNCHANGED vars
  BY <1>4 DEF vars
<1> QED
  BY <1>1, <1>2, <1>3, <1>4, KernelStepHolds, SvcHolds DEF Next

(* While no process is terminated, and no thread waits for itself or names *)
(* an object twice in one wait, no assertion of the kernel fails, whatever *)
(* else the guest calls: nothing is acquired that is not available         *)
(* (mutex.cpp, semaphore.cpp, event.cpp, timer.cpp, thread.cpp Acquire),   *)
(* no thread is on the list of an object that it does not wait for         *)
(* (wait_object.cpp), none is resumed that does not sleep or has a callback*)
(* left (thread.cpp ResumeFromWait), the arbiters are told of timeouts only*)
(* and list only threads that wait (address_arbiter.cpp), only ready       *)
(* threads are dispatched and the priority queue never runs off its chain  *)
(* (thread.cpp, thread_queue_list.h).                                      *)
THEOREM NoAssertionEverFails ==
    Terminable = {} /\ ProperWaits /\ Spec => []NoAssertionFails
<1> DEFINE Given == Terminable = {} /\ ProperWaits
           Calls == /\ TimeoutsOfSleepers /\ CallbacksMatch /\ WakesResume /\ ArbiterInv
                    /\ CallsSound
           Fine == Given /\ exited = {} /\ Calls /\ fault = NoFault
<1>1. Given /\ Init => Fine
  <2> SUFFICES ASSUME Given, Init
               PROVE  Fine
    OBVIOUS
  <2>1. work = <<>> /\ Stacked = {} /\ exited = {} /\ fault = NoFault
    BY QuietStack DEF Init
  <2>2. TimeoutsOfSleepers /\ WakesResume /\ CallbacksMatch
    BY <2>1 DEF Init, TimeoutsOfSleepers, WakesResume, CallbacksMatch, CallbackMatches,
                WaitingOnObjects
  <2>3. \A a \in Arbiters : IsInjective(arb_waiting[a]) /\ Range(arb_waiting[a]) = {}
    BY RangeOfNothing DEF Init, IsInjective
  <2>4. \A t \in Threads : status[t] # "WaitArb"
    BY DEF Init
  <2>5. ArbiterInv
    BY <2>3, <2>4 DEF ArbiterInv, ArbiterOf
  <2>6. Sound(work, DeadThreads)
    BY <2>1 DEF Sound
  <2>7. WaitsOnce
    BY RangeOfNothing DEF Init, WaitsOnce, IsInjective
  <2> QED
    BY <2>1, <2>2, <2>5, <2>6, <2>7 DEF CallsSound
<1>2. TypeOK /\ TypeOK' /\ (Nested(work) /\ CoreInv) /\ (LockInv /\ WaitInv)
        /\ (CreatedInv /\ QueueInv) /\ Fine /\ [Next]_vars => Fine'
  <2> SUFFICES ASSUME TypeOK, TypeOK', Nested(work), CoreInv, WaitInv, CreatedInv, QueueInv,
                      Given, exited = {}, Calls, fault = NoFault, [Next]_vars
               PROVE  Fine'
    OBVIOUS
  <2>1. exited' = {}
    BY NoneExit
  <2>2. fault' = NoFault
    BY NoFaultNext
  <2>3. Calls'
    BY TimeoutsOfSleepersNext, CallbacksMatchNext, WakesResumeNext, ArbiterInvNext, CallsSoundNext
  <2> QED
    BY <2>1, <2>2, <2>3
<1>3. Fine => NoAssertionFails
  BY DEF NoAssertionFails
<1> HIDE DEF Fine
<1>4. Given => Orderly
  BY NoneOrderly
<1>5. Given /\ Spec => []Fine
  BY <1>1, <1>2, <1>4, TypeCorrect, CoresCorrect, LocksCorrect, QueuesCorrect, PTL DEF Spec
<1> QED
  BY <1>3, <1>5, PTL
=============================================================================

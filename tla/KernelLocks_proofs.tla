-------------------------- MODULE KernelLocks_proofs --------------------------
(***************************************************************************)
(* Mutexes and waiting lists: who holds and who waits, on both sides of    *)
(* each relation, for every number of threads and objects.  Then the ready *)
(* queues: every ready thread is on its level, once, whatever happens to   *)
(* its priority, and Reschedule picks the best of them.                    *)
(***************************************************************************)
EXTENDS KernelSync_proofs

USE DEF prioVars, ownVars, waitVars, countVars, timeVars, runVars, cpuVars, lifeVars, arbVars,
        setupVars, replyVars

(***************************************************************************)
(* FIRST PART: who is woken, who acquires, who is alive.                   *)
(***************************************************************************)
(* GetHighestPriorityReadyThread returns a thread of the list that could   *)
(* take the object, and none only if there is no such thread.              *)
LEMMA HighestPriorityReadyListed ==
    ASSUME TypeOK, NEW o \in Objects
    PROVE  LET t == HighestPriorityReady(o)
           IN  /\ t # NoThread => t \in Range(waiting_threads[o]) /\ ReadyToRun(o, t)
               /\ t = NoThread => \A x \in Range(waiting_threads[o]) : ~ReadyToRun(o, x)
<1> DEFINE ws == waiting_threads[o]
           ready == {i \in 1..Len(ws) : ReadyToRun(o, ws[i])}
           levels == {current_priority[ws[i]] : i \in ready}
           best == Min(levels)
           firsts == {i \in ready : current_priority[ws[i]] = best}
<1>1. ws \in Seq(Threads) /\ NoThread \notin Threads
  BY CoreAssumption DEF TypeOK
<1>2. Range(ws) = {ws[i] : i \in 1..Len(ws)}
  BY <1>1, RangeEquality
<1>3. CASE ready = {}
  BY <1>2, <1>3 DEF HighestPriorityReady
<1>4. CASE ready # {}
  <2>1. levels \subseteq Priorities /\ levels # {}
    <3>1. \A i \in ready : ws[i] \in Threads
      BY <1>1
    <3>2. \A i \in ready : current_priority[ws[i]] \in Priorities
      BY <3>1 DEF TypeOK
    <3> HIDE DEF ws, ready
    <3> QED
      BY <1>4, <3>2
  <2>2. best \in levels
    <3> HIDE DEF levels
    <3> QED
      BY <2>1, MinPriority
  <2>3. firsts # {} /\ firsts \subseteq Nat /\ firsts \subseteq ready
    <3> HIDE DEF best
    <3> QED
      BY <2>2
  <2>4. Min(firsts) \in ready
    <3> HIDE DEF firsts, ready
    <3> QED
      BY <2>3, MinNat
  <2>5. /\ ws[Min(firsts)] \in Range(ws) /\ ReadyToRun(o, ws[Min(firsts)])
        /\ ws[Min(firsts)] \in Threads
    <3> HIDE DEF firsts, ws
    <3> QED
      BY <1>1, <1>2, <2>4
  <2>6. HighestPriorityReady(o) = ws[Min(firsts)]
    BY <1>4 DEF HighestPriorityReady
  <2> QED
    BY <1>1, <2>5, <2>6
<1> QED
  BY <1>3, <1>4

(* A step that is not a Stop takes no life.                                *)
LEMMA AliveStays ==
    ASSUME TypeOK, Nested(work), CoreInv, [Next]_vars, NEW t \in Threads,
           ~ (StopStep /\ top.thread = t)
    PROVE  /\ Alive(t) => Alive(t)'
           /\ status[t] # "Dead" => status'[t] # "Dead"
<1> DEFINE Kept == /\ Alive(t) => Alive(t)'
                   /\ status[t] # "Dead" => status'[t] # "Dead"
<1>0. status \in [Threads -> Status]
  BY DEF TypeOK
<1>1. CASE UNCHANGED status
  BY <1>1 DEF Alive
<1>2. ASSUME NEW x \in Threads, NEW s, status' = [status EXCEPT ![x] = s], s \notin {"Free", "Dead"}
      PROVE  Kept
  BY <1>0, <1>2 DEF Alive
<1>3. CASE OtherStep
  <2>1. ASSUME NEW x \in Threads, Stops(x)
        PROVE  Kept
    <3>0. Stop(x) \in Stacked /\ Stop(x).op = "Stop"
      BY <2>1 DEF Stops, Stop
    <3>1. work # <<>> /\ top = Stop(x)
      BY <3>0, StopInnermost
    <3>2. top.op = "Stop" /\ top.thread = x /\ KernelStep
      BY <1>3, <3>1 DEF OtherStep, Stop
    <3>3. StopStep
      BY <3>2 DEF KernelStep, UpdateMutexesStep, AcquireStep, AddWaitingStep,
         RemoveWaitingStep, WakeupAllStep, CallbackStep, ResumeStep, ReleaseMutexesStep,
         TerminateThreadsStep, ResumeArbitratedStep, BoostStarvedStep, PopNextStep,
         RequeueStep, SwitchContextStep, Runs, top
    <3> QED
      BY <1>0, <2>1, <3>2, <3>3 DEF Stops, Alive
  <2> QED
    BY <1>1, <1>2, <1>3, <2>1, OtherStepThreads DEF Boosts, Resumes
<1>4. CASE Entry
  <2>1. ASSUME NEW c \in Cores, NEW x \in Threads, NEW s \in WaitingStatus, FallsAsleep(c, x, s)
        PROVE  Kept
    <3>1. s \notin {"Free", "Dead"}
      BY DEF WaitingStatus, WaitingOnObjects
    <3> QED
      BY <1>2, <2>1, <3>1 DEF FallsAsleep
  <2>2. ASSUME NEW x \in Threads, MakeThread(x) \/ MakeSleeper(x)
        PROVE  Kept
    <3>1. \/ status' = [status EXCEPT ![x] = "Ready"]
          \/ status' = [status EXCEPT ![x] = "WaitSleep"]
      BY <2>2 DEF MakeThread, MakeSleeper
    <3> QED
      BY <1>0, <3>1 DEF Alive
  <2> QED
    BY <1>1, <1>4, <2>1, <2>2, EntryThreads DEF Boosts, SetThreadPriority
<1>5. CASE SwitchContextStep /\ fault' = NoFault
  <2> DEFINE old == current_thread[top.core]
             new == top.next
  <2>1. /\ t # new => status'[t] = IF t = old /\ IsRunning(old) THEN "Ready" ELSE status[t]
        /\ t = new => status'[t] = "Running"
    <3>1. t # NoThread
      BY CoreAssumption
    <3> QED
      BY <1>5, <3>1, SwitchContextThreads
  <2> HIDE DEF old, new
  <2> QED
    BY <2>1 DEF Alive
<1>6. CASE BoostStarvedStep \/ PopNextStep \/ RequeueStep \/ (\E c \in Cores : Reschedule(c))
  BY <1>1, <1>6 DEF BoostStarvedStep, PopNextStep, RequeueStep, Reschedule, Fail, systemVars
<1>7. CASE UNCHANGED systemVars
  BY <1>1, <1>7 DEF systemVars
<1> QED
  BY <1>3, <1>4, <1>5, <1>6, <1>7, NextCases

(* The thread calls one of the waits for objects.                          *)
Waits(c, t) ==
    \E os \in WaitLists, timeout \in Timeouts :
       \/ WaitSynchronizationAny(c, t, os, timeout)
       \/ WaitSynchronizationAll(c, t, os, timeout)

(* An entry point acquires for the calling thread only, ends nobody's      *)
(* mutexes, and only a timeout wakes a thread directly.                    *)
LEMMA EntryCalls ==
    ASSUME TypeOK, Entry, NEW f \in Stacked'
    PROVE  /\ f.op # "ReleaseMutexes"
           /\ f.op = "Acquire" => \E c \in Cores, t \in Threads, os \in Seq(Objects) :
                                     /\ Svc(c, t) /\ Grants(t, os)
                                     /\ f.thread = t /\ f.object \in Range(os)
                                     /\ Waits(c, t)
           /\ f.op = "AddWaiting" =>
                 \E c \in Cores, t \in Threads, os \in WaitLists, timeout \in Timeouts :
                    /\ \/ WaitSynchronizationAny(c, t, os, timeout)
                       \/ WaitSynchronizationAll(c, t, os, timeout)
                    /\ \E s \in WaitingOnObjects : Sleeps(c, t, os, s, timeout)
           /\ f.op \in {"Callback", "RemoveWaiting", "Resume"} =>
                 \E t \in Threads : ThreadWakeupCallback(t) /\ Stacked' = Range(WakeupCalls(t))
           /\ f.op = "Stop" => \E c \in Cores, t \in Threads : ExitThread(c, t) /\ f = Stop(t)
<1> DEFINE Goal == /\ f.op # "ReleaseMutexes"
                   /\ f.op = "Acquire" => \E c \in Cores, t \in Threads, os \in Seq(Objects) :
                                             /\ Svc(c, t) /\ Grants(t, os)
                                             /\ f.thread = t /\ f.object \in Range(os)
                                             /\ Waits(c, t)
                   /\ f.op = "AddWaiting" =>
                         \E c \in Cores, t \in Threads, os \in WaitLists, timeout \in Timeouts :
                            /\ \/ WaitSynchronizationAny(c, t, os, timeout)
                               \/ WaitSynchronizationAll(c, t, os, timeout)
                            /\ \E s \in WaitingOnObjects : Sleeps(c, t, os, s, timeout)
                   /\ f.op \in {"Callback", "RemoveWaiting", "Resume"} =>
                         \E t \in Threads : ThreadWakeupCallback(t) /\ Stacked' = Range(WakeupCalls(t))
                   /\ f.op = "Stop" => \E c \in Cores, t \in Threads : ExitThread(c, t) /\ f = Stop(t)
<1> SUFFICES Goal
  OBVIOUS
<1>1. CASE f.op \notin {"ReleaseMutexes", "Acquire", "AddWaiting", "Callback", "RemoveWaiting",
                        "Resume", "Stop"}
  BY <1>1
<1>2. work = <<>>
  BY EntryStack DEF Quiet
<1>3. CASE UNCHANGED work
  BY <1>2, <1>3, NoCallStack
<1>4. ASSUME NEW c \in Cores, NEW t \in Threads, WaitSvc(c, t)
      PROVE  Goal
  <2>1. ASSUME NEW os \in WaitLists, NEW timeout \in Timeouts,
               \/ WaitSynchronizationAny(c, t, os, timeout)
               \/ WaitSynchronizationAll(c, t, os, timeout)
        PROVE  Goal
    <3>1. ASSUME NEW ps \in Seq(Objects), Grants(t, ps)
          PROVE  Goal
      <4>1. PICK o \in Range(ps) : f = Acquire(o, t)
        BY <3>1, GrantsStack
      <4>2. f.op = "Acquire" /\ f.thread = t /\ f.object \in Range(ps)
        BY <4>1 DEF Acquire
      <4>3. Svc(c, t) /\ Waits(c, t)
        BY <1>4, <2>1, SvcCalled DEF Waits
      <4> QED
        BY <3>1, <4>2, <4>3
    <3>2. CASE \E s \in WaitingOnObjects : Sleeps(c, t, os, s, timeout)
      <4>1. os \in Seq(Objects)
        BY <2>1, WaitCases
      <4>2. Stacked' = {AddWaiting(t, os)}
        BY <3>2, <4>1, SleepsStack
      <4>3. f.op = "AddWaiting"
        BY <4>2 DEF AddWaiting
      <4> QED
        BY <2>1, <3>2, <4>3
    <3> HIDE DEF Goal
    <3> QED
      BY <2>1, <3>1, <3>2, WaitCases
  <2> HIDE DEF Goal
  <2> QED
    BY <1>3, <1>4, <2>1 DEF WaitSvc, SleepThread, ArbitrateWait
<1>5. ASSUME NEW c \in Cores, NEW t \in Threads, SignalSvc(c, t)
      PROVE  Goal
  BY <1>1, <1>5, SignalSvcStack
<1>6. ASSUME NEW c \in Cores, NEW t \in Threads, ThreadSvc(c, t)
      PROVE  Goal
  <2>1. CASE ExitThread(c, t)
    <3>1. f = Stop(t)
      BY <2>1, FrameType, OneCallStack DEF ExitThread
    <3>2. f.op = "Stop"
      BY <3>1 DEF Stop
    <3> QED
      BY <2>1, <3>1, <3>2
  <2>2. ASSUME NEW x \in Threads, NEW p, SetThreadPriority(c, t, x, p)
        PROVE  Goal
    <3>1. work' = <<UpdateMutexes(pending_mutexes[x])>> /\ pending_mutexes[x] \in SUBSET Mutexes
      BY <2>2 DEF SetThreadPriority, TypeOK
    <3> QED
      BY <1>1, <3>1, FrameType, OneCallStack DEF UpdateMutexes
  <2>3. ASSUME NEW p \in Terminable, TerminateProcess(c, t, p)
        PROVE  Goal
    BY <1>1, <2>3, TerminateProcessStack DEF TerminateThreads
  <2> HIDE DEF Goal
  <2> QED
    BY <1>3, <1>6, <2>1, <2>2, <2>3 DEF ThreadSvc, CreateThread, MakeThread, ScheduleThreads
<1>7. ASSUME NEW t \in Threads, ThreadWakeupCallback(t)
      PROVE  Goal
  <2>1. CASE UNCHANGED work
    BY <1>3, <2>1
  <2>2. CASE work' = WakeupCalls(t)
    <3>1. Stacked' = Range(WakeupCalls(t))
      BY <2>2 DEF Stacked
    <3>2. f.op \in {"Callback", "RemoveWaiting", "Resume"}
      BY <1>7, <2>2, ThreadWakeupCallbackStack DEF Callback, RemoveWaiting, Resume
    <3> QED
      BY <1>7, <3>1, <3>2
  <2> QED
    BY <1>7, <2>1, <2>2 DEF ThreadWakeupCallback
<1>8. ASSUME NEW c, NEW e \in Timers, TimerCallback(c, e)
      PROVE  Goal
  BY <1>1, <1>8, TimerCallbackStack DEF WakeupAll
<1> HIDE DEF Goal
<1> QED
  BY <1>3, <1>4, <1>5, <1>6, <1>7, <1>8 DEF Entry, SetupMainThread, MakeThread, MakeSleeper

(***************************************************************************)
(* What code outside Reschedule calls.                                     *)
(***************************************************************************)
(* The operation of the running code names the step.                       *)
LEMMA StepOfTop ==
    ASSUME KernelStep
    PROVE  /\ work # <<>>
           /\ top.op = "UpdateMutexes" => UpdateMutexesStep
           /\ top.op = "Acquire" => AcquireStep
           /\ top.op = "AddWaiting" => AddWaitingStep
           /\ top.op = "RemoveWaiting" => RemoveWaitingStep
           /\ top.op = "WakeupAll" => WakeupAllStep
           /\ top.op = "Callback" => CallbackStep
           /\ top.op = "Resume" => ResumeStep
           /\ top.op = "Stop" => StopStep
           /\ top.op = "ReleaseMutexes" => ReleaseMutexesStep
           /\ top.op = "TerminateThreads" => TerminateThreadsStep
           /\ top.op = "ResumeArbitrated" => ResumeArbitratedStep
BY DEF KernelStep, UpdateMutexesStep, AcquireStep, AddWaitingStep, RemoveWaitingStep,
       WakeupAllStep, CallbackStep, ResumeStep, StopStep, ReleaseMutexesStep,
       TerminateThreadsStep, ResumeArbitratedStep, BoostStarvedStep, PopNextStep,
       RequeueStep, SwitchContextStep, Runs, top

LEMMA TopOfStep ==
    /\ UpdateMutexesStep => top.op = "UpdateMutexes" /\ fault = NoFault
    /\ AcquireStep => top.op = "Acquire" /\ fault = NoFault
    /\ AddWaitingStep => top.op = "AddWaiting" /\ fault = NoFault
    /\ RemoveWaitingStep => top.op = "RemoveWaiting" /\ fault = NoFault
    /\ WakeupAllStep => top.op = "WakeupAll" /\ fault = NoFault
    /\ CallbackStep => top.op = "Callback" /\ fault = NoFault
    /\ ResumeStep => top.op = "Resume" /\ fault = NoFault
    /\ StopStep => top.op = "Stop" /\ fault = NoFault
    /\ ReleaseMutexesStep => top.op = "ReleaseMutexes" /\ fault = NoFault
    /\ TerminateThreadsStep => top.op = "TerminateThreads" /\ fault = NoFault
    /\ ResumeArbitratedStep => top.op = "ResumeArbitrated" /\ fault = NoFault
BY DEF UpdateMutexesStep, AcquireStep, AddWaitingStep, RemoveWaitingStep,
       WakeupAllStep, CallbackStep, ResumeStep, StopStep, ReleaseMutexesStep,
       TerminateThreadsStep, ResumeArbitratedStep, Runs, top

(* The eleven kinds of it.                                                 *)
LEMMA OtherStepCases ==
    ASSUME TypeOK, Nested(work), OtherStep
    PROVE  /\ fault' = NoFault /\ work # <<>>
           /\ top \in Frames /\ top \in Stacked
           /\ Stacked = {top} \cup Under /\ Stacked \subseteq Frames /\ Under \subseteq Frames
           /\ \/ UpdateMutexesStep \/ AcquireStep \/ AddWaitingStep \/ RemoveWaitingStep
              \/ WakeupAllStep \/ CallbackStep \/ ResumeStep \/ StopStep \/ ReleaseMutexesStep
              \/ TerminateThreadsStep \/ ResumeArbitratedStep
<1>1. /\ work # <<>> /\ KernelStep /\ fault' = NoFault
      /\ ~ (BoostStarvedStep \/ PopNextStep \/ RequeueStep \/ SwitchContextStep)
  BY OtherKernelStack DEF OtherStep
<1> QED
  BY <1>1, Innermost DEF KernelStep

(* Its calls.                                                              *)
LEMMA OtherCalls ==
    ASSUME TypeOK, Nested(work), OtherStep, NEW f \in Stacked', f \notin Stacked
    PROVE  \/ f.op \in {"UpdateMutexes", "ResumeArbitrated"}
           \/ /\ AddWaitingStep
              /\ f.op = "AddWaiting"
           \/ /\ WakeupAllStep
              /\ LET t == HighestPriorityReady(top.object)
                 IN  /\ t \in Threads
                     /\ Stacked \subseteq Stacked'
                     /\ f \in {Acquire(x, t) : x \in Range(Taken(top.object, t))}
                              \cup {Callback(t, "Signal"), RemoveWaiting(t), Resume(t)}
           \/ /\ StopStep
              /\ f \in {WakeupAll(top.thread), RemoveWaiting(top.thread),
                        ReleaseMutexes(top.thread, held_mutexes[top.thread])}
           \/ /\ ReleaseMutexesStep
              /\ f.op \in {"WakeupAll", "ReleaseMutexes"}
           \/ /\ TerminateThreadsStep
              /\ f.op = "Stop"
           \/ /\ ResumeArbitratedStep
              /\ \E i \in 1..Len(arb_waiting[top.arbiter]) :
                    f = Resume(arb_waiting[top.arbiter][i])
<1>1. /\ fault' = NoFault /\ Stacked = {top} \cup Under
      /\ \/ UpdateMutexesStep \/ AcquireStep \/ AddWaitingStep \/ RemoveWaitingStep
         \/ WakeupAllStep \/ CallbackStep \/ ResumeStep \/ StopStep \/ ReleaseMutexesStep
         \/ TerminateThreadsStep \/ ResumeArbitratedStep
  BY OtherStepCases
<1>2. CASE UpdateMutexesStep
  BY <1>2, UpdateMutexesStack DEF UpdateMutexes
<1>3. CASE AcquireStep
  BY <1>1, <1>3, AcquireStack
<1>4. CASE AddWaitingStep
  BY <1>4, AddWaitingStack DEF AddWaiting
<1>5. CASE RemoveWaitingStep
  BY <1>1, <1>5, RemoveWaitingStack
<1>6. CASE WakeupAllStep
  <2> DEFINE t == HighestPriorityReady(top.object)
  <2>1. /\ t = NoThread => Stacked' = Under
        /\ t # NoThread =>
              /\ t \in Threads
              /\ Stacked' = {Acquire(x, t) : x \in Range(Taken(top.object, t))}
                            \cup {Callback(t, "Signal"), RemoveWaiting(t), Resume(t)}
                            \cup Stacked
    BY <1>1, <1>6, WakeupAllStack
  <2> HIDE DEF t
  <2>2. /\ t \in Threads
        /\ Stacked \subseteq Stacked'
        /\ f \in {Acquire(x, t) : x \in Range(Taken(top.object, t))}
                 \cup {Callback(t, "Signal"), RemoveWaiting(t), Resume(t)}
    BY <1>1, <2>1
  <2> QED
    BY <1>6, <2>2 DEF t
<1>7. CASE CallbackStep
  BY <1>1, <1>7, CallbackStack
<1>8. CASE ResumeStep
  BY <1>1, <1>8, ResumeStack
<1>9. CASE StopStep
  BY <1>1, <1>9, StopStack
<1>10. CASE ReleaseMutexesStep
  BY <1>1, <1>10, ReleaseMutexesStack DEF WakeupAll, ReleaseMutexes
<1>11. CASE TerminateThreadsStep
  BY <1>1, <1>11, TerminateThreadsStack DEF Stop
<1>12. CASE ResumeArbitratedStep
  BY <1>1, <1>12, ResumeArbitratedStack
<1> QED
  BY <1>1, <1>2, <1>3, <1>4, <1>5, <1>6, <1>7, <1>8, <1>9, <1>10, <1>11, <1>12

(* Only the innermost call can end.                                        *)
LEMMA UnderStays ==
    ASSUME TypeOK, Nested(work), OtherStep
    PROVE  Under \subseteq Stacked'
<1>1. /\ fault' = NoFault /\ Stacked = {top} \cup Under
      /\ \/ UpdateMutexesStep \/ AcquireStep \/ AddWaitingStep \/ RemoveWaitingStep
         \/ WakeupAllStep \/ CallbackStep \/ ResumeStep \/ StopStep \/ ReleaseMutexesStep
         \/ TerminateThreadsStep \/ ResumeArbitratedStep
  BY OtherStepCases
<1>2. CASE UpdateMutexesStep \/ AddWaitingStep \/ ResumeArbitratedStep
  BY <1>1, <1>2, UpdateMutexesStack, AddWaitingStack, ResumeArbitratedStack
<1>3. CASE AcquireStep \/ CallbackStep \/ ResumeStep
  BY <1>1, <1>3, AcquireStack, CallbackStack, ResumeStack
<1>4. CASE RemoveWaitingStep
  BY <1>1, <1>4, RemoveWaitingStack
<1>5. CASE WakeupAllStep
  BY <1>1, <1>5, WakeupAllStack
<1>6. CASE StopStep
  BY <1>6, StopStack
<1>7. CASE ReleaseMutexesStep
  BY <1>7, ReleaseMutexesStack
<1>8. CASE TerminateThreadsStep
  BY <1>1, <1>8, TerminateThreadsStack
<1> QED
  BY <1>1, <1>2, <1>3, <1>4, <1>5, <1>6, <1>7, <1>8

(***************************************************************************)
(* Mutexes.                                                                *)
(***************************************************************************)
LEMMA LockInvKept ==
    ASSUME TypeOK, TypeOK', LockInv, UNCHANGED <<holding_thread, held_mutexes>>,
           \A t \in Threads : Alive(t) => Alive(t)',
           \A t \in Threads : status[t] = "Dead" => status'[t] = "Dead",
           \A f \in Stacked' : f.op = "Acquire" =>
              f \in Stacked \/ (f.thread \in Threads /\ Alive(f.thread)),
           \A f \in Stacked' : f.op = "ReleaseMutexes" => f \in Stacked,
           \A f \in Stacked : f.op = "ReleaseMutexes" => f \in Stacked',
           \A f \in Stacked : f.op \in {"Acquire", "ReleaseMutexes"} => f.thread \in Threads
    PROVE  LockInv'
<1>1. \A t \in Threads : Held(t)' = Held(t) /\ held_mutexes'[t] = held_mutexes[t]
  BY DEF Held
<1>2. \A f \in Stacked' : f.op = "Acquire" => Alive(f.thread)'
  BY DEF LockInv
<1>3. \A f \in Stacked' : f.op = "ReleaseMutexes" =>
         status'[f.thread] = "Dead" /\ f.mutexes = Held(f.thread)'
  BY <1>1 DEF LockInv
<1>4. \A t \in Threads : Releasing(t) => Releasing(t)'
  BY DEF Releasing
<1>5. \A t \in Threads : ~Releasing(t)' =>
         held_mutexes'[t] = Held(t)' /\ (Held(t)' # {} => Alive(t)')
  BY <1>1, <1>4 DEF LockInv
<1> QED
  BY <1>2, <1>3, <1>5 DEF LockInv

LEMMA StackedThreads ==
    ASSUME TypeOK, NEW f \in Stacked
    PROVE  /\ f \in Frames
           /\ f.op \in {"Acquire", "Callback", "AddWaiting", "RemoveWaiting", "Resume", "Stop",
                        "ReleaseMutexes"} => f.thread \in Threads
           /\ f.op \in {"Acquire", "WakeupAll"} => f.object \in Objects
<1>1. f \in Frames
  <2>1. work \in Seq(Frames) /\ work # <<>>
    BY QuietStack DEF TypeOK
  <2> QED
    BY <2>1, StackParts DEF Stacked
<1> QED
  BY <1>1, FrameFields

(* A mutex is acquired by a thread that is alive.                          *)
LEMMA AcquireLock ==
    ASSUME TypeOK, TypeOK', Nested(work), CoreInv, HolderIffLocked, LockInv, [Next]_vars,
           AcquireStep, OtherStep
    PROVE  LockInv'
<1>1. /\ top \in Stacked /\ Stacked = {top} \cup Under /\ top.op = "Acquire"
      /\ fault' = NoFault
  BY OtherStepCases, TopOfStep
<1>2. PICK o \in Objects, t \in Threads : o = top.object /\ t = top.thread /\ Alive(t)
  BY <1>1, StackedThreads DEF LockInv
<1>3. Stacked' = Under
  BY <1>1, AcquireStack
<1>4. UNCHANGED status
  BY <1>1 DEF AcquireStep, Fail, NoFault
<1>5. \A x \in Threads : (Alive(x) <=> Alive(x)') /\ (Releasing(x) <=> Releasing(x)')
  BY <1>1, <1>3, <1>4 DEF Alive, Releasing
<1>6. CASE UNCHANGED <<holding_thread, held_mutexes>>
  <2>1. /\ \A f \in Stacked' : f \in Stacked
        /\ \A f \in Stacked : f.op = "ReleaseMutexes" => f \in Stacked'
        /\ \A f \in Stacked : f.op \in {"Acquire", "ReleaseMutexes"} => f.thread \in Threads
    BY <1>1, <1>3, StackedThreads
  <2> QED
    BY <1>4, <1>5, <1>6, <2>1, LockInvKept
<1>7. CASE ~ UNCHANGED <<holding_thread, held_mutexes>>
  <2>1. /\ o \in Mutexes /\ lock_count[o] = 0
        /\ held_mutexes' = [held_mutexes EXCEPT ![t] = @ \cup {o}]
        /\ holding_thread' = [holding_thread EXCEPT ![o] = t]
    BY <1>1, <1>2, <1>7 DEF AcquireStep, AcquireMutex, Fail, NoFault
  <2>2. holding_thread[o] = NoThread
    BY <2>1 DEF HolderIffLocked, TypeOK
  <2>3. /\ Held(t)' = Held(t) \cup {o}
        /\ \A x \in Threads \ {t} : Held(x)' = Held(x)
    BY <1>2, <2>1, <2>2, CoreAssumption DEF Held, TypeOK
  <2>4. ~Releasing(t)
    <3>1. \A f \in Stacked : f.op = "ReleaseMutexes" => status[f.thread] = "Dead"
      BY DEF LockInv
    <3> QED
      BY <1>2, <3>1 DEF Alive, Releasing
  <2>5. /\ held_mutexes'[t] = held_mutexes[t] \cup {o}
        /\ \A x \in Threads \ {t} : held_mutexes'[x] = held_mutexes[x]
    BY <1>2, <2>1 DEF TypeOK
  <2>6. \A f \in Stacked' : f.op = "Acquire" => Alive(f.thread)'
    BY <1>1, <1>3, <1>4 DEF LockInv, Alive
  <2>7. \A f \in Stacked' : f.op = "ReleaseMutexes" =>
           status'[f.thread] = "Dead" /\ f.mutexes = Held(f.thread)'
    <3> SUFFICES ASSUME NEW f \in Stacked', f.op = "ReleaseMutexes"
                 PROVE  status'[f.thread] = "Dead" /\ f.mutexes = Held(f.thread)'
      OBVIOUS
    <3>1. f \in Stacked /\ f.thread \in Threads
      BY <1>1, <1>3, StackedThreads
    <3>2. f.thread # t
      BY <2>4, <3>1 DEF Releasing
    <3> QED
      BY <1>4, <2>3, <3>1, <3>2 DEF LockInv
  <2>8. ASSUME NEW x \in Threads, ~Releasing(x)'
        PROVE  held_mutexes'[x] = Held(x)' /\ (Held(x)' # {} => Alive(x)')
    <3>1. held_mutexes[x] = Held(x) /\ (Held(x) # {} => Alive(x))
      BY <1>5, <2>8 DEF LockInv
    <3> QED
      BY <1>2, <1>5, <2>3, <2>5, <3>1
  <2> QED
    BY <2>6, <2>7, <2>8 DEF LockInv
<1> QED
  BY <1>6, <1>7

(* A thread that ends begins to release what it holds.                     *)
LEMMA StopLock ==
    ASSUME TypeOK, TypeOK', Nested(work), CoreInv, LockInv, [Next]_vars, StopStep, OtherStep
    PROVE  LockInv'
<1>1. /\ top \in Stacked /\ Stacked = {top} \cup Under /\ top.op = "Stop"
  BY OtherStepCases, TopOfStep
<1>2. PICK t \in Threads : t = top.thread
  BY <1>1, StackedThreads
<1>0. PICK h : h = ReleaseMutexes(t, held_mutexes[t])
  OBVIOUS
<1>3. /\ Stacked' = {WakeupAll(t), RemoveWaiting(t), h} \cup Under
      /\ \A f \in Under : f.op = "TerminateThreads"
  BY <1>0, <1>2, StopStack
<1>4. /\ status' = [status EXCEPT ![t] = "Dead"] /\ UNCHANGED <<holding_thread, held_mutexes>>
  BY <1>2 DEF StopStep
<1>5. /\ h.op = "ReleaseMutexes" /\ h.thread = t /\ h.mutexes = held_mutexes[t]
      /\ WakeupAll(t).op = "WakeupAll" /\ RemoveWaiting(t).op = "RemoveWaiting"
  BY <1>0 DEF ReleaseMutexes, WakeupAll, RemoveWaiting
<1>6. \A x \in Threads : ~Releasing(x) /\ Held(x)' = Held(x)
  BY <1>1, <1>3, <1>4 DEF Releasing, Held
<1>7. held_mutexes[t] = Held(t)
  BY <1>2, <1>6 DEF LockInv
<1>8. Releasing(t)'
  BY <1>3, <1>5 DEF Releasing
<1>9. \A f \in Stacked' : f.op # "Acquire" /\ (f.op = "ReleaseMutexes" => f = h)
  BY <1>3, <1>5
<1>10. status'[t] = "Dead" /\ \A x \in Threads \ {t} : status'[x] = status[x]
  BY <1>2, <1>4 DEF TypeOK
<1>11. ASSUME NEW x \in Threads, ~Releasing(x)'
       PROVE  held_mutexes'[x] = Held(x)' /\ (Held(x)' # {} => Alive(x)')
  BY <1>4, <1>6, <1>8, <1>10, <1>11 DEF LockInv, Alive
<1>12. \A f \in Stacked' : f.op = "ReleaseMutexes" =>
          status'[f.thread] = "Dead" /\ f.mutexes = Held(f.thread)'
  BY <1>2, <1>5, <1>6, <1>7, <1>9, <1>10
<1> QED
  BY <1>9, <1>11, <1>12 DEF LockInv

(* The loop that releases them goes on.                                    *)
LEMMA ReleaseLock ==
    ASSUME TypeOK, TypeOK', Nested(work), LockInv, ReleaseMutexesStep, OtherStep
    PROVE  LockInv'
<1>1. /\ top \in Stacked /\ Stacked = {top} \cup Under /\ top.op = "ReleaseMutexes"
      /\ top \in Frames
  BY OtherStepCases, TopOfStep
<1>2. PICK t \in Threads, ms \in SUBSET Mutexes : t = top.thread /\ ms = top.mutexes
  BY <1>1, StackedThreads, FrameFields
<1>3. UNCHANGED status /\ \A x : (Alive(x) <=> Alive(x)')
  BY DEF ReleaseMutexesStep, Alive
<1>4. status[t] = "Dead" /\ ms = Held(t)
  BY <1>1, <1>2 DEF LockInv
<1>5. \A f \in Under : f.op = "TerminateThreads"
  BY ReleaseMutexesStack
<1>6. \A x \in Threads \ {t} : ~Releasing(x)
  BY <1>1, <1>2, <1>5 DEF Releasing
<1>7. CASE ms = {}
  <2>1. /\ Stacked' = Under
        /\ held_mutexes' = [held_mutexes EXCEPT ![t] = {}]
        /\ UNCHANGED holding_thread
    BY <1>2, <1>7, ReleaseMutexesStack DEF ReleaseMutexesStep
  <2>2. \A x \in Threads : Held(x)' = Held(x) /\
           held_mutexes'[x] = IF x = t THEN {} ELSE held_mutexes[x]
    BY <2>1 DEF Held, TypeOK
  <2>3. \A x \in Threads : held_mutexes'[x] = Held(x)' /\ (Held(x)' # {} => Alive(x)')
    <3> SUFFICES ASSUME NEW x \in Threads
                 PROVE  held_mutexes'[x] = Held(x)' /\ (Held(x)' # {} => Alive(x)')
      OBVIOUS
    <3>1. CASE x = t
      BY <1>4, <1>7, <2>2, <3>1
    <3>2. CASE x # t
      BY <1>3, <1>6, <2>2, <3>2 DEF LockInv
    <3> QED
      BY <3>1, <3>2
  <2>4. \A f \in Stacked' : f.op \notin {"Acquire", "ReleaseMutexes"}
    BY <1>5, <2>1
  <2> QED
    BY <2>3, <2>4 DEF LockInv
<1>8. CASE ms # {}
  <2>1. PICK m \in ms :
           /\ holding_thread' = [holding_thread EXCEPT ![m] = NoThread]
           /\ Stacked' = {WakeupAll(m), ReleaseMutexes(t, ms \ {m})} \cup Under
    BY <1>2, <1>8, ReleaseMutexesStack
  <2>2. UNCHANGED held_mutexes
    BY <1>2, <1>8 DEF ReleaseMutexesStep
  <2>0. PICK h : h = ReleaseMutexes(t, ms \ {m})
    OBVIOUS
  <2>3. /\ h.op = "ReleaseMutexes" /\ h.thread = t /\ h.mutexes = ms \ {m}
        /\ WakeupAll(m).op = "WakeupAll"
    BY <2>0 DEF ReleaseMutexes, WakeupAll
  <2>4. Stacked' = {WakeupAll(m), h} \cup Under
    BY <2>0, <2>1
  <2>5. /\ Held(t)' = Held(t) \ {m}
        /\ \A x \in Threads \ {t} : Held(x)' = Held(x)
    BY <1>2, <1>4, <2>1, CoreAssumption DEF Held, TypeOK
  <2>6. \A f \in Stacked' : f.op # "Acquire" /\ (f.op = "ReleaseMutexes" => f = h)
    BY <1>5, <2>3, <2>4
  <2>7. Releasing(t)'
    BY <2>3, <2>4 DEF Releasing
  <2>8. ASSUME NEW x \in Threads, ~Releasing(x)'
        PROVE  held_mutexes'[x] = Held(x)' /\ (Held(x)' # {} => Alive(x)')
    BY <1>3, <1>6, <2>2, <2>5, <2>7, <2>8 DEF LockInv
  <2>9. \A f \in Stacked' : f.op = "ReleaseMutexes" =>
           status'[f.thread] = "Dead" /\ f.mutexes = Held(f.thread)'
    BY <1>3, <1>4, <2>3, <2>5, <2>6
  <2> QED
    BY <2>6, <2>8, <2>9 DEF LockInv
<1> QED
  BY <1>7, <1>8

(* Other code changes no owner.                                            *)
LEMMA OtherStepOwners ==
    ASSUME OtherStep, ~AcquireStep, ~ReleaseMutexesStep
    PROVE  UNCHANGED <<lock_count, holding_thread, held_mutexes>>
<1>1. KernelStep /\ fault' = NoFault /\ ~ (BoostStarvedStep \/ PopNextStep \/ RequeueStep
                                            \/ SwitchContextStep)
  BY DEF OtherStep, BoostStarvedStep, PopNextStep, RequeueStep, SwitchContextStep, Runs, top,
         SchedulingOps
<1> QED
  BY <1>1 DEF KernelStep, UpdateMutexesStep, AddWaitingStep, RemoveWaitingStep, WakeupAllStep,
     CallbackStep, ResumeStep, StopStep, TerminateThreadsStep, ResumeArbitratedStep, Fail, NoFault

(* The thread that WakeupAllWaitingThreads picks sleeps on objects.        *)
LEMMA WokenSleeps ==
    ASSUME TypeOK, Nested(work), WakeupAllStep, fault' = NoFault,
           HighestPriorityReady(top.object) # NoThread
    PROVE  LET o == top.object
               t == HighestPriorityReady(o)
           IN  /\ o \in Objects /\ t \in Threads
               /\ t \in Range(waiting_threads[o])
               /\ status[t] \in WaitingOnObjects
               /\ ReadyToRun(o, t)
               /\ Taken(o, t) \in Seq(Objects)
               /\ UNCHANGED signaled
<1>1. work # <<>> /\ top.op = "WakeupAll"
  BY DEF WakeupAllStep, Runs, top
<1>2. top \in Frames /\ top.object \in Objects
  BY <1>1, Innermost, FrameFields
<1>3. \A x \in Range(waiting_threads[top.object]) : status[x] \in WaitingOnObjects
  BY DEF WakeupAllStep, Fail, NoFault
<1>4. HighestPriorityReady(top.object) \in Threads
  BY <1>2, HighestPriorityReadyType
<1>5. UNCHANGED signaled
  BY DEF WakeupAllStep, Fail, NoFault
<1> QED
  BY <1>2, <1>3, <1>4, <1>5, HighestPriorityReadyListed, WakeupAllStack

LEMMA OtherStepLock ==
    ASSUME TypeOK, TypeOK', Nested(work), CoreInv, HolderIffLocked, LockInv, [Next]_vars,
           OtherStep
    PROVE  LockInv'
<1>1. CASE AcquireStep
  BY <1>1, AcquireLock
<1>2. CASE StopStep
  BY <1>2, StopLock
<1>3. CASE ReleaseMutexesStep
  BY <1>3, ReleaseLock
<1>4. CASE ~AcquireStep /\ ~StopStep /\ ~ReleaseMutexesStep
  <2>1. UNCHANGED <<holding_thread, held_mutexes>>
    BY <1>4, OtherStepOwners
  <2>2. \A t \in Threads : Alive(t) => Alive(t)'
    BY <1>4, AliveStays
  <2>3. \A t \in Threads : status[t] = "Dead" => status'[t] = "Dead"
    BY DeadStayDeadNext
  <2>4. ASSUME NEW f \in Stacked', f \notin Stacked, f.op \in {"Acquire", "ReleaseMutexes"}
        PROVE  f.op = "Acquire" /\ f.thread \in Threads /\ Alive(f.thread)
    <3> DEFINE t == HighestPriorityReady(top.object)
    <3>1. /\ WakeupAllStep /\ t \in Threads
          /\ f \in {Acquire(x, t) : x \in Range(Taken(top.object, t))}
                   \cup {Callback(t, "Signal"), RemoveWaiting(t), Resume(t)}
      BY <1>4, <2>4, OtherCalls DEF Resume
    <3>2. status[t] \in WaitingOnObjects
      BY <3>1, WokenSleeps, CoreAssumption DEF OtherStep
    <3> HIDE DEF t
    <3>3. f.op = "Acquire" /\ f.thread = t
      BY <2>4, <3>1 DEF Acquire, Callback, RemoveWaiting, Resume
    <3> QED
      BY <3>1, <3>2, <3>3 DEF Alive, WaitingOnObjects
  <2>5. \A f \in Stacked : f.op = "ReleaseMutexes" => f \in Stacked'
    <3>1. Stacked = {top} \cup Under /\ KernelStep
      BY OtherStepCases DEF OtherStep
    <3>2. top.op # "ReleaseMutexes"
      BY <1>4, <3>1, StepOfTop
    <3> QED
      BY <3>1, <3>2, UnderStays
  <2>6. \A f \in Stacked : f.op \in {"Acquire", "ReleaseMutexes"} => f.thread \in Threads
    BY StackedThreads
  <2> QED
    BY <2>1, <2>2, <2>3, <2>4, <2>5, <2>6, LockInvKept
<1> QED
  BY <1>1, <1>2, <1>3, <1>4

LEMMA EntryLock ==
    ASSUME TypeOK, TypeOK', Nested(work), CoreInv, HolderIffLocked, LockInv, [Next]_vars, Entry
    PROVE  LockInv'
<1>1. Stacked = {} /\ Quiet
  BY EntryStack
<1>2. \A t \in Threads : Alive(t) => Alive(t)'
  BY <1>1, AliveStays DEF StopStep, Runs, Quiet
<1>3. \A t \in Threads : status[t] = "Dead" => status'[t] = "Dead"
  BY DeadStayDeadNext
<1>4. \A f \in Stacked' : /\ f.op # "ReleaseMutexes"
                          /\ f.op = "Acquire" => f.thread \in Threads /\ Alive(f.thread)
  <2> SUFFICES ASSUME NEW f \in Stacked'
               PROVE  /\ f.op # "ReleaseMutexes"
                      /\ f.op = "Acquire" => f.thread \in Threads /\ Alive(f.thread)
    OBVIOUS
  <2>1. \A c \in Cores, t \in Threads : Svc(c, t) => Alive(t)
    BY CallerRuns DEF CoreInv, Alive
  <2> QED
    BY <2>1, EntryCalls
<1>5. CASE UNCHANGED <<holding_thread, held_mutexes>>
  BY <1>1, <1>2, <1>3, <1>4, <1>5, LockInvKept
<1>6. ASSUME NEW c \in Cores, NEW t \in Threads, NEW m \in Mutexes, ReleaseMutex(c, t, m),
             ~ UNCHANGED <<holding_thread, held_mutexes>>
      PROVE  LockInv'
  <2>1. /\ holding_thread[m] = t
        /\ held_mutexes' = [held_mutexes EXCEPT ![t] = @ \ {m}]
        /\ holding_thread' = [holding_thread EXCEPT ![m] = NoThread]
    BY <1>6 DEF ReleaseMutex
  <2>2. /\ Held(t)' = Held(t) \ {m}
        /\ \A x \in Threads \ {t} : Held(x)' = Held(x)
    BY <2>1, CoreAssumption DEF Held, TypeOK
  <2>3. \A x \in Threads : held_mutexes[x] = Held(x) /\ (Held(x) # {} => Alive(x))
    BY <1>1 DEF LockInv, Releasing
  <2>4. \A x \in Threads : held_mutexes'[x] = IF x = t THEN held_mutexes[x] \ {m} ELSE held_mutexes[x]
    BY <2>1 DEF TypeOK
  <2>5. \A x \in Threads : held_mutexes'[x] = Held(x)' /\ (Held(x)' # {} => Alive(x)')
    BY <1>2, <2>2, <2>3, <2>4
  <2>6. \A f \in Stacked' : f.op \notin {"Acquire", "ReleaseMutexes"}
    BY <1>6, SignalSvcStack DEF SignalSvc
  <2> QED
    BY <2>5, <2>6 DEF LockInv
<1>7. ASSUME NEW c \in Cores, NEW t \in Threads, WaitSvc(c, t)
      PROVE  UNCHANGED <<holding_thread, held_mutexes>>
  BY <1>7 DEF WaitSvc, WaitSynchronizationAny, WaitSynchronizationAll, SleepThread, ArbitrateWait
<1>8. ASSUME NEW c \in Cores, NEW t \in Threads, SignalSvc(c, t),
             ~ \E m \in Mutexes : ReleaseMutex(c, t, m)
      PROVE  UNCHANGED <<holding_thread, held_mutexes>>
  BY <1>8 DEF SignalSvc, ReleaseSemaphore, SignalEvent, ClearSignal, SetTimer, CancelTimer,
              ArbitrateSignal
<1>9. ASSUME NEW c \in Cores, NEW t \in Threads, ThreadSvc(c, t)
      PROVE  UNCHANGED <<holding_thread, held_mutexes>>
  BY <1>9 DEF ThreadSvc, CreateThread, MakeThread, ExitThread, SetThreadPriority,
              TerminateProcess, ScheduleThreads
<1> QED
  BY <1>5, <1>6, <1>7, <1>8, <1>9 DEF Entry, SetupMainThread, MakeThread, MakeSleeper, TimerCallback,
                                     ThreadWakeupCallback

(* Code of Reschedule has nothing else on the stack.                       *)
Scheduling ==
    \/ /\ BoostStarvedStep \/ PopNextStep \/ RequeueStep \/ SwitchContextStep
       /\ fault' = NoFault
    \/ \E c \in Cores : Reschedule(c)

LEMMA SchedulingStacks ==
    ASSUME TypeOK, Nested(work), Scheduling
    PROVE  /\ \A f \in Stacked' : f.op \in SchedulingOps
           /\ \A f \in Stacked : f.op \in SchedulingOps
<1>1. CASE BoostStarvedStep /\ fault' = NoFault
  <2>1. Stacked = {top} \cup Under /\ top.op = "BoostStarved"
    BY <1>1, Innermost DEF BoostStarvedStep, Runs, top
  <2> QED
    BY <1>1, <2>1, BoostStarvedStack DEF BoostStarved, SchedulingOps
<1>2. CASE PopNextStep /\ fault' = NoFault
  <2>1. Stacked = {top} \cup Under /\ top.op = "PopNext"
    BY <1>2, Innermost DEF PopNextStep, Runs, top
  <2>2. Under = {} /\ (Stacked' = Stacked \/ \E n : Stacked' = {Requeue(top.core, n)})
    BY <1>2, PopNextStack
  <2> QED
    BY <2>1, <2>2 DEF Requeue, SchedulingOps
<1>3. CASE RequeueStep
  <2>1. Stacked = {top} \cup Under /\ top.op = "Requeue"
    BY <1>3, Innermost DEF RequeueStep, Runs, top
  <2> QED
    BY <1>3, <2>1, RequeueStack DEF SwitchContext, SchedulingOps
<1>4. CASE SwitchContextStep /\ fault' = NoFault
  <2>1. Stacked = {top} \cup Under /\ top.op = "SwitchContext"
    BY <1>4, Innermost DEF SwitchContextStep, Runs, top
  <2> QED
    BY <1>4, <2>1, SwitchContextStack DEF SchedulingOps
<1>5. ASSUME NEW c \in Cores, Reschedule(c)
      PROVE  /\ \A f \in Stacked' : f.op \in SchedulingOps
             /\ \A f \in Stacked : f.op \in SchedulingOps
  <2>1. Stacked = {}
    BY <1>5, QuietStack DEF Reschedule, Quiet
  <2>2. PICK starved : Stacked' = {BoostStarved(c, starved), PopNext(c)}
    BY <1>5, RescheduleStack
  <2> QED
    BY <2>1, <2>2 DEF BoostStarved, PopNext, SchedulingOps
<1> QED
  BY <1>1, <1>2, <1>3, <1>4, <1>5 DEF Scheduling

LEMMA SchedulingLock ==
    ASSUME TypeOK, TypeOK', Nested(work), CoreInv, LockInv, [Next]_vars, Scheduling
    PROVE  LockInv'
<1>1. UNCHANGED <<holding_thread, held_mutexes>>
  BY DEF Scheduling, BoostStarvedStep, PopNextStep, RequeueStep, SwitchContextStep, Reschedule,
         Fail, NoFault
<1>2. \A t \in Threads : Alive(t) => Alive(t)'
  <2>1. ~StopStep
    BY DEF Scheduling, BoostStarvedStep, PopNextStep, RequeueStep, SwitchContextStep, Reschedule,
           StopStep, Runs, Quiet
  <2> QED
    BY <2>1, AliveStays
<1>3. \A t \in Threads : status[t] = "Dead" => status'[t] = "Dead"
  BY DeadStayDeadNext
<1>4. /\ \A f \in Stacked' : f.op \notin {"Acquire", "ReleaseMutexes"}
      /\ \A f \in Stacked : f.op \notin {"Acquire", "ReleaseMutexes"}
  BY SchedulingStacks DEF SchedulingOps
<1> QED
  BY <1>1, <1>2, <1>3, <1>4, LockInvKept

LEMMA LockInvNext ==
    ASSUME TypeOK, TypeOK', Nested(work), CoreInv, HolderIffLocked, LockInv, [Next]_vars
    PROVE  LockInv'
<1>1. CASE UNCHANGED systemVars
  BY <1>1 DEF systemVars, LockInv, Stacked, Alive, Held, Releasing
<1> QED
  BY <1>1, NextCases, OtherStepLock, EntryLock, SchedulingLock DEF Scheduling

(***************************************************************************)
(* Waiting lists.                                                          *)
(***************************************************************************)
LEMMA ListChange ==
    ASSUME TypeOK, NEW o \in Objects, NEW ws,
           waiting_threads' = [waiting_threads EXCEPT ![o] = ws]
    PROVE  /\ \A x \in Threads :
                 /\ x \in Range(ws) => ListedBy(x)' = ListedBy(x) \cup {o}
                 /\ x \notin Range(ws) => ListedBy(x)' = ListedBy(x) \ {o}
           /\ /\ \A p \in Objects : IsInjective(waiting_threads[p])
              /\ IsInjective(ws)
              => \A p \in Objects : IsInjective(waiting_threads'[p])
<1>1. /\ waiting_threads'[o] = ws
      /\ \A p \in Objects \ {o} : waiting_threads'[p] = waiting_threads[p]
  BY DEF TypeOK
<1>2. ASSUME NEW x \in Threads
      PROVE  /\ x \in Range(ws) => ListedBy(x)' = ListedBy(x) \cup {o}
             /\ x \notin Range(ws) => ListedBy(x)' = ListedBy(x) \ {o}
  BY <1>1 DEF ListedBy
<1>3. ASSUME \A p \in Objects : IsInjective(waiting_threads[p]), IsInjective(ws)
      PROVE  \A p \in Objects : IsInjective(waiting_threads'[p])
  <2> SUFFICES ASSUME NEW p \in Objects
               PROVE  IsInjective(waiting_threads'[p])
    OBVIOUS
  <2> QED
    BY <1>1, <1>3
<1> QED
  BY <1>2, <1>3

LEMMA RangeOfNothing ==
    Range(<<>>) = {}
BY DEF Range

LEMMA NoRange ==
    ASSUME NEW S, NEW s \in Seq(S), Range(s) = {}
    PROVE  s = <<>>
<1>1. ASSUME s # <<>>
      PROVE  FALSE
    BY <1>1, RangeTail
<1> QED
  BY <1>1

(* A step that leaves the lists alone.                                     *)
LEMMA WaitInvKept ==
    ASSUME WaitInv, UNCHANGED <<waiting_threads, wait_objects, pending_mutexes>>,
           work = <<>> \/ top.op \notin {"AddWaiting", "RemoveWaiting"},
           \A f \in Stacked' : f.op # "AddWaiting",
           work' # <<>> => top' \in Stacked',
           \A t \in Threads :
              /\ wait_objects[t] # <<>>
              /\ status[t] \in WaitingOnObjects \/ RemoveWaiting(t) \in Stacked
              => status'[t] \in WaitingOnObjects \/ RemoveWaiting(t) \in Stacked'
    PROVE  WaitInv'
<1>1. \A t \in Threads : ~Adding(t) /\ ~Removing(t) /\ ~Adding(t)'
  BY DEF Adding, Removing
<1>2. \A t \in Threads : ListedBy(t)' = ListedBy(t)
  BY DEF ListedBy
<1>3. \A o \in Objects : IsInjective(waiting_threads'[o])
  BY DEF WaitInv
<1>4. ASSUME NEW t \in Threads
      PROVE  /\ ListedBy(t)' \subseteq Range(wait_objects'[t])
             /\ ~Adding(t)' /\ ~Removing(t)' => Range(wait_objects'[t]) \subseteq ListedBy(t)'
             /\ pending_mutexes'[t] = ListedBy(t)' \cap Mutexes
  BY <1>1, <1>2 DEF WaitInv
<1>5. ASSUME NEW t \in Threads
      PROVE  wait_objects'[t] # <<>> =>
                status'[t] \in WaitingOnObjects \/ RemoveWaiting(t) \in Stacked'
  BY DEF WaitInv
<1> QED
  BY <1>1, <1>3, <1>4, <1>5 DEF WaitInv

LEMMA TopStacked ==
    ASSUME TypeOK'
    PROVE  work' # <<>> => top' \in Stacked'
<1>1. work' \in Seq(Frames)
  BY DEF TypeOK
<1> QED
  BY <1>1, StackParts DEF Stacked, top

(* The thread that goes to sleep is put on one more list.                  *)
LEMMA AddWaitingWait ==
    ASSUME TypeOK, TypeOK', Nested(work), WaitInv, AddWaitingStep
    PROVE  WaitInv'
<1>1. /\ work # <<>> /\ top.op = "AddWaiting"
      /\ UNCHANGED <<status, wait_objects>>
  BY DEF AddWaitingStep, Runs, top
<1>2. Stacked = {top} /\ top \in Frames
  BY <1>1, Innermost, BeneathEach
<1>3. PICK t \in Threads, os \in Seq(Objects) : t = top.thread /\ os = top.objects
  BY <1>1, <1>2, FrameFields
<1>4. \A x \in Threads : /\ RemoveWaiting(x) \notin Stacked
                         /\ ~Removing(x)
                         /\ Adding(x) <=> x = t
  BY <1>1, <1>2, <1>3 DEF Adding, Removing, RemoveWaiting
<1>5. \A x \in Threads : wait_objects[x] # <<>> => status[x] \in WaitingOnObjects
  BY <1>4 DEF WaitInv
<1>6. CASE os = <<>>
  <2>1. UNCHANGED <<waiting_threads, pending_mutexes>>
    BY <1>3, <1>6 DEF AddWaitingStep
  <2>2. Stacked' = {} /\ work' = <<>>
    BY <1>3, <1>6, AddWaitingStack
  <2>3. \A x \in Threads : ~Adding(x)' /\ ListedBy(x)' = ListedBy(x)
    BY <2>1, <2>2 DEF Adding, ListedBy
  <2>4. \A x \in Threads : Range(wait_objects[x]) \subseteq ListedBy(x)
    BY <1>3, <1>4, <1>6, RangeOfNothing DEF WaitInv
  <2>5. \A o \in Objects : IsInjective(waiting_threads'[o])
    BY <2>1 DEF WaitInv
  <2>6. \A x \in Threads : /\ ListedBy(x)' \subseteq Range(wait_objects'[x])
                           /\ Range(wait_objects'[x]) \subseteq ListedBy(x)'
                           /\ pending_mutexes'[x] = ListedBy(x)' \cap Mutexes
                           /\ wait_objects'[x] # <<>> => status'[x] \in WaitingOnObjects
    BY <1>1, <1>5, <2>1, <2>3, <2>4 DEF WaitInv
  <2> QED
    BY <2>3, <2>5, <2>6 DEF WaitInv
<1>7. CASE os # <<>>
  <2>1. PICK o \in Objects : o = Head(os)
    BY <1>7, HeadTailProperties
  <2>2. PICK ws : ws = IF t \in Range(waiting_threads[o])
                       THEN waiting_threads[o]
                       ELSE Append(waiting_threads[o], t)
    OBVIOUS
  <2>3. /\ waiting_threads' = [waiting_threads EXCEPT ![o] = ws]
        /\ pending_mutexes' = [pending_mutexes EXCEPT ![t] = @ \cup ({o} \cap Mutexes)]
    BY <1>3, <1>7, <2>1, <2>2 DEF AddWaitingStep
  <2>4. work' = <<AddWaiting(t, Tail(os))>> /\ Stacked' = {AddWaiting(t, Tail(os))}
    BY <1>3, <1>7, AddWaitingStack
  <2>5. Range(os) = {o} \cup Range(Tail(os))
    BY <1>7, <2>1, RangeTail
  <2>6. /\ Range(ws) = Range(waiting_threads[o]) \cup {t}
        /\ IsInjective(waiting_threads[o]) => IsInjective(ws)
    <3>1. waiting_threads[o] \in Seq(Threads)
      BY DEF TypeOK
    <3> QED
      BY <2>2, <3>1, RangeAppend
  <2>7. /\ \A x \in Threads : ListedBy(x)' = IF x = t THEN ListedBy(x) \cup {o} ELSE ListedBy(x)
        /\ \A p \in Objects : IsInjective(waiting_threads'[p])
    <3>1. \A x \in Threads : o \in ListedBy(x) <=> x \in Range(waiting_threads[o])
      BY DEF ListedBy
    <3>2. \A p \in Objects : IsInjective(waiting_threads[p])
      BY DEF WaitInv
    <3>3. \A x \in Threads : /\ x \in Range(ws) => ListedBy(x)' = ListedBy(x) \cup {o}
                             /\ x \notin Range(ws) => ListedBy(x)' = ListedBy(x) \ {o}
      BY <2>3, ListChange
    <3>4. \A p \in Objects : IsInjective(waiting_threads'[p])
      BY <2>3, <2>6, <3>2, ListChange
    <3>5. ASSUME NEW x \in Threads, x # t
          PROVE  ListedBy(x)' = ListedBy(x)
      <4>0. x \in Range(ws) <=> o \in ListedBy(x)
        BY <2>6, <3>1, <3>5
      <4>1. CASE o \in ListedBy(x)
        BY <3>3, <4>0, <4>1
      <4>2. CASE o \notin ListedBy(x)
        BY <3>3, <4>0, <4>2
      <4> QED
        BY <4>1, <4>2
    <3>6. ListedBy(t)' = ListedBy(t) \cup {o}
      BY <2>6, <3>3
    <3> QED
      BY <3>4, <3>5, <3>6
  <2>8. top' = AddWaiting(t, Tail(os)) /\ work' # <<>>
    BY <2>4 DEF top
  <2>9. /\ top'.op = "AddWaiting" /\ top'.thread = t /\ top'.objects = Tail(os)
    BY <2>8 DEF AddWaiting
  <2>10. \A x \in Threads : ~Removing(x)' /\ (Adding(x)' <=> x = t)
    BY <2>8, <2>9 DEF Adding, Removing
  <2>11. \A x \in Threads : pending_mutexes'[x] = ListedBy(x)' \cap Mutexes
    <3>1. \A x \in Threads : pending_mutexes'[x] = IF x = t THEN pending_mutexes[x] \cup ({o} \cap Mutexes)
                                                            ELSE pending_mutexes[x]
      BY <2>3 DEF TypeOK
    <3> QED
      BY <2>7, <3>1 DEF WaitInv
  <2>12. /\ ListedBy(t)' \subseteq Range(wait_objects[t])
         /\ Range(Tail(os)) \subseteq Range(wait_objects[t])
         /\ Range(wait_objects[t]) \subseteq ListedBy(t)' \cup Range(Tail(os))
    BY <1>3, <1>4, <2>5, <2>7 DEF WaitInv
  <2>13. \A x \in Threads \ {t} : /\ ListedBy(x)' \subseteq Range(wait_objects[x])
                                  /\ Range(wait_objects[x]) \subseteq ListedBy(x)'
    BY <1>4, <2>7 DEF WaitInv
  <2> QED
    BY <1>1, <1>5, <2>7, <2>9, <2>10, <2>11, <2>12, <2>13 DEF WaitInv
<1> QED
  BY <1>6, <1>7

(* A thread that is woken or ends is taken off one more list.              *)
LEMMA RemoveWaitingWait ==
    ASSUME TypeOK, TypeOK', Nested(work), WaitInv, RemoveWaitingStep
    PROVE  WaitInv'
<1>1. /\ work # <<>> /\ top.op = "RemoveWaiting"
      /\ UNCHANGED status
  BY DEF RemoveWaitingStep, Runs, top
<1>2. /\ Stacked = {top} \cup Under /\ top \in Frames /\ top \in Stacked
      /\ \A f \in Under : f.op \notin {"AddWaiting", "RemoveWaiting"} \/ f.op = "RemoveWaiting"
      /\ \A f \in Under : f.op # "AddWaiting"
  BY <1>1, Innermost, BeneathEach DEF Ending
<1>3. PICK t \in Threads : t = top.thread
  BY <1>1, <1>2, FrameFields
<1>4. \A x \in Threads : ~Adding(x) /\ (Removing(x) <=> x = t)
  BY <1>1, <1>3 DEF Adding, Removing
<1>5. top = RemoveWaiting(t)
  BY <1>1, <1>2, <1>3 DEF Frames, RemoveWaiting
<1>6. CASE wait_objects[t] = <<>>
  <2>1. UNCHANGED <<waiting_threads, wait_objects, pending_mutexes>>
    BY <1>3, <1>6 DEF RemoveWaitingStep
  <2>2. Stacked' = Under /\ (work' # <<>> => top' \in Stacked')
    <3>1. Stacked' = Under
      BY <1>3, <1>6, RemoveWaitingStack
    <3> QED
      BY <3>1, TopStacked
  <2>3. \A x \in Threads : ~Adding(x)' /\ ListedBy(x)' = ListedBy(x)
    BY <1>2, <2>1, <2>2 DEF Adding, ListedBy
  <2>4. \A x \in Threads : Range(wait_objects[x]) \subseteq ListedBy(x)
    BY <1>4, <1>6, RangeOfNothing DEF WaitInv
  <2>5. \A o \in Objects : IsInjective(waiting_threads'[o])
    BY <2>1 DEF WaitInv
  <2>6. \A x \in Threads : /\ ListedBy(x)' \subseteq Range(wait_objects'[x])
                           /\ Range(wait_objects'[x]) \subseteq ListedBy(x)'
                           /\ pending_mutexes'[x] = ListedBy(x)' \cap Mutexes
    BY <2>1, <2>3, <2>4 DEF WaitInv
  <2>7. \A x \in Threads : x # t => RemoveWaiting(x) # top
    BY <1>5 DEF RemoveWaiting
  <2>8. ASSUME NEW x \in Threads, wait_objects'[x] # <<>>
        PROVE  status'[x] \in WaitingOnObjects \/ RemoveWaiting(x) \in Stacked'
    <3>1. x # t
      BY <1>6, <2>1, <2>8
    <3> QED
      BY <1>1, <1>2, <2>1, <2>2, <2>7, <2>8, <3>1 DEF WaitInv
  <2> QED
    BY <2>3, <2>5, <2>6, <2>8 DEF WaitInv
<1>7. CASE wait_objects[t] # <<>>
  <2>1. wait_objects[t] \in Seq(Objects)
    BY DEF TypeOK
  <2>2. PICK o \in Objects : o = Head(wait_objects[t])
    BY <1>7, <2>1, HeadTailProperties
  <2>3. PICK ws : ws = Erase(waiting_threads[o], t)
    OBVIOUS
  <2>4. /\ waiting_threads' = [waiting_threads EXCEPT ![o] = ws]
        /\ wait_objects' = [wait_objects EXCEPT ![t] = Tail(@)]
        /\ pending_mutexes' = [pending_mutexes EXCEPT ![t] = @ \ {o}]
    BY <1>3, <1>7, <2>2, <2>3 DEF RemoveWaitingStep
  <2>5. work' = work /\ Stacked' = Stacked
    BY <1>3, <1>7, RemoveWaitingStack
  <2>6. Range(wait_objects[t]) = {o} \cup Range(Tail(wait_objects[t]))
    BY <1>7, <2>1, <2>2, RangeTail
  <2>7. /\ IsInjective(ws)
        /\ Range(ws) = Range(waiting_threads[o]) \ {t}
    <3>1. waiting_threads[o] \in Seq(Threads) /\ IsInjective(waiting_threads[o])
      BY DEF TypeOK, WaitInv
    <3> QED
      BY <2>3, <3>1, RangeErase
  <2>8. /\ \A x \in Threads : ListedBy(x)' = IF x = t THEN ListedBy(x) \ {o} ELSE ListedBy(x)
        /\ \A p \in Objects : IsInjective(waiting_threads'[p])
    <3>1. \A x \in Threads : o \in ListedBy(x) <=> x \in Range(waiting_threads[o])
      BY DEF ListedBy
    <3>2. \A p \in Objects : IsInjective(waiting_threads[p])
      BY DEF WaitInv
    <3>3. \A x \in Threads : /\ x \in Range(ws) => ListedBy(x)' = ListedBy(x) \cup {o}
                             /\ x \notin Range(ws) => ListedBy(x)' = ListedBy(x) \ {o}
      BY <2>4, ListChange
    <3>4. \A p \in Objects : IsInjective(waiting_threads'[p])
      BY <2>4, <2>7, <3>2, ListChange
    <3> QED
      BY <2>7, <3>1, <3>3, <3>4
  <2>9. \A x \in Threads : ~Adding(x)' /\ (Removing(x)' <=> x = t)
    BY <1>4, <2>5 DEF Adding, Removing, top
  <2>10. /\ wait_objects'[t] = Tail(wait_objects[t])
         /\ \A x \in Threads \ {t} : wait_objects'[x] = wait_objects[x]
    BY <2>4 DEF TypeOK
  <2>11. \A x \in Threads : pending_mutexes'[x] = ListedBy(x)' \cap Mutexes
    <3>1. \A x \in Threads : pending_mutexes'[x] = IF x = t THEN pending_mutexes[x] \ {o}
                                                            ELSE pending_mutexes[x]
      BY <2>4 DEF TypeOK
    <3> QED
      BY <2>8, <3>1 DEF WaitInv
  <2>12. ListedBy(t)' \subseteq Range(wait_objects'[t])
    BY <2>6, <2>8, <2>10 DEF WaitInv
  <2>13. \A x \in Threads \ {t} : /\ ListedBy(x)' \subseteq Range(wait_objects'[x])
                                  /\ Range(wait_objects'[x]) \subseteq ListedBy(x)'
    BY <1>4, <2>8, <2>10 DEF WaitInv
  <2>14. \A x \in Threads : wait_objects'[x] # <<>> =>
            status'[x] \in WaitingOnObjects \/ RemoveWaiting(x) \in Stacked'
    BY <1>1, <1>2, <1>5, <2>5, <2>10 DEF WaitInv
  <2> QED
    BY <2>8, <2>9, <2>11, <2>12, <2>13, <2>14 DEF WaitInv
<1> QED
  BY <1>6, <1>7

(* The thread that calls a wait begins to be put on the lists.             *)
LEMMA SleepsWait ==
    ASSUME TypeOK, TypeOK', WaitInv, work = <<>>,
           NEW c, NEW t \in Threads, NEW os \in Seq(Objects), NEW s \in WaitingOnObjects,
           NEW timeout, Sleeps(c, t, os, s, timeout), status[t] = "Running",
           UNCHANGED <<waiting_threads, pending_mutexes>>
    PROVE  WaitInv'
<1>1. Stacked = {} /\ \A x \in Threads : ~Adding(x) /\ ~Removing(x)
  BY QuietStack DEF Adding, Removing
<1>2. \A x \in Threads : wait_objects[x] # <<>> => status[x] \in WaitingOnObjects
  BY <1>1 DEF WaitInv
<1>3. wait_objects[t] = <<>>
  BY <1>2 DEF WaitingOnObjects
<1>4. ListedBy(t) = {}
  BY <1>3, RangeOfNothing DEF WaitInv
<1>5. work' = <<AddWaiting(t, os)>>
  BY DEF Sleeps
<1>6. work' # <<>> /\ top' = AddWaiting(t, os)
  BY <1>5 DEF top
<1>7. top'.op = "AddWaiting" /\ top'.thread = t /\ top'.objects = os
  BY <1>6 DEF AddWaiting
<1>8. \A x \in Threads : ~Removing(x)' /\ (Adding(x)' <=> x = t)
  BY <1>6, <1>7 DEF Adding, Removing
<1>9. \A x \in Threads : ListedBy(x)' = ListedBy(x)
  BY DEF ListedBy
<1>10. /\ wait_objects'[t] = os /\ status'[t] = s
       /\ \A x \in Threads \ {t} : wait_objects'[x] = wait_objects[x] /\ status'[x] = status[x]
  BY DEF Sleeps, TypeOK
<1>11. \A o \in Objects : IsInjective(waiting_threads'[o])
  BY DEF WaitInv
<1>12. \A x \in Threads : pending_mutexes'[x] = ListedBy(x)' \cap Mutexes
  BY <1>9 DEF WaitInv
<1>13. /\ ListedBy(t)' \subseteq Range(wait_objects'[t])
       /\ Range(top'.objects) \subseteq Range(wait_objects'[t])
       /\ Range(wait_objects'[t]) \subseteq ListedBy(t)' \cup Range(top'.objects)
  BY <1>4, <1>7, <1>9, <1>10
<1>14. \A x \in Threads \ {t} : /\ ListedBy(x)' \subseteq Range(wait_objects'[x])
                                /\ Range(wait_objects'[x]) \subseteq ListedBy(x)'
  BY <1>1, <1>9, <1>10 DEF WaitInv
<1>15. \A x \in Threads : wait_objects'[x] # <<>> => status'[x] \in WaitingOnObjects
  BY <1>2, <1>10
<1> QED
  BY <1>8, <1>11, <1>12, <1>13, <1>14, <1>15 DEF WaitInv

(* Code that neither adds nor removes.                                     *)
LEMMA OtherStepStatus ==
    ASSUME OtherStep, ~ResumeStep, ~StopStep
    PROVE  UNCHANGED status
<1>1. KernelStep /\ fault' = NoFault /\ ~ (BoostStarvedStep \/ PopNextStep \/ RequeueStep
                                            \/ SwitchContextStep)
  BY DEF OtherStep, BoostStarvedStep, PopNextStep, RequeueStep, SwitchContextStep, Runs, top,
         SchedulingOps
<1> QED
  BY <1>1 DEF KernelStep, UpdateMutexesStep, AcquireStep, AddWaitingStep, RemoveWaitingStep,
     WakeupAllStep, CallbackStep, ReleaseMutexesStep, TerminateThreadsStep,
     ResumeArbitratedStep, Fail, NoFault

LEMMA OtherStepLists ==
    ASSUME OtherStep, ~AddWaitingStep, ~RemoveWaitingStep
    PROVE  UNCHANGED <<waiting_threads, wait_objects, pending_mutexes>>
<1>1. KernelStep /\ fault' = NoFault /\ ~ (BoostStarvedStep \/ PopNextStep \/ RequeueStep
                                            \/ SwitchContextStep)
  BY DEF OtherStep, BoostStarvedStep, PopNextStep, RequeueStep, SwitchContextStep, Runs, top,
         SchedulingOps
<1> QED
  BY <1>1 DEF KernelStep, UpdateMutexesStep, AcquireStep, ResumeStep, StopStep,
     WakeupAllStep, CallbackStep, ReleaseMutexesStep, TerminateThreadsStep,
     ResumeArbitratedStep, Fail, NoFault

LEMMA OtherStepWait ==
    ASSUME TypeOK, TypeOK', Nested(work), WaitInv, OtherStep
    PROVE  WaitInv'
<1>0. /\ Stacked = {top} \cup Under /\ work # <<>> /\ KernelStep /\ fault' = NoFault
      /\ top \in Stacked
  BY OtherStepCases DEF OtherStep
<1>1. CASE AddWaitingStep
  BY <1>1, AddWaitingWait
<1>2. CASE RemoveWaitingStep
  BY <1>2, RemoveWaitingWait
<1>3. CASE ~AddWaitingStep /\ ~RemoveWaitingStep
  <2>1. UNCHANGED <<waiting_threads, wait_objects, pending_mutexes>>
    BY <1>3, OtherStepLists
  <2>2. top.op \notin {"AddWaiting", "RemoveWaiting"}
    BY <1>0, <1>3, StepOfTop
  <2>3. \A f \in Stacked' : f.op # "AddWaiting"
    <3>1. \A f \in Stacked : f.op # "AddWaiting"
      <4>1. \A f \in Under : f.op \in Beneath(top.op)
        BY <1>0, Innermost
      <4>2. \A op : "AddWaiting" \notin Beneath(op)
        BY DEF Beneath, Ending
      <4> QED
        BY <1>0, <2>2, <4>1, <4>2
    <3>2. \A f \in Stacked' : f \in Stacked \/ f.op # "AddWaiting"
      <4> SUFFICES ASSUME NEW f \in Stacked', f \notin Stacked
                   PROVE  f.op # "AddWaiting"
        OBVIOUS
      <4>1. f.op = "AddWaiting" => AddWaitingStep
        BY OtherCalls DEF Acquire, Callback, RemoveWaiting, Resume, WakeupAll, ReleaseMutexes
      <4> QED
        BY <1>3, <4>1
    <3> QED
      BY <3>1, <3>2
  <2>4. work' # <<>> => top' \in Stacked'
    BY TopStacked
  <2>5. \A x \in Threads : RemoveWaiting(x) \in Stacked => RemoveWaiting(x) \in Stacked'
    BY <1>0, <2>2, UnderStays DEF RemoveWaiting
  <2>6. ASSUME NEW x \in Threads, wait_objects[x] # <<>>,
               status[x] \in WaitingOnObjects \/ RemoveWaiting(x) \in Stacked
        PROVE  status'[x] \in WaitingOnObjects \/ RemoveWaiting(x) \in Stacked'
    <3>1. CASE ResumeStep
      <4>1. PICK t \in Threads : t = top.thread
        BY <1>0, <3>1, StackedThreads, TopOfStep
      <4>2. wait_objects[t] = <<>> /\ (UNCHANGED status \/ status' = [status EXCEPT ![t] = "Ready"])
        BY <1>0, <3>1, <4>1 DEF ResumeStep, Fail, NoFault
      <4>3. x # t
        BY <2>6, <4>2
      <4>4. status'[x] = status[x]
        BY <4>2, <4>3 DEF TypeOK
      <4> QED
        BY <2>5, <2>6, <4>4
    <3>2. CASE StopStep
      <4>1. PICK t \in Threads : t = top.thread
        BY <1>0, <3>2, StackedThreads, TopOfStep
      <4>2. RemoveWaiting(t) \in Stacked' /\ status' = [status EXCEPT ![t] = "Dead"]
        BY <3>2, <4>1, StopStack DEF StopStep
      <4>3. CASE x = t
        BY <4>2, <4>3
      <4>4. CASE x # t
        <5>1. status'[x] = status[x]
          BY <4>2, <4>4 DEF TypeOK
        <5> QED
          BY <2>5, <2>6, <5>1
      <4> QED
        BY <4>3, <4>4
    <3>3. CASE ~ResumeStep /\ ~StopStep
      BY <2>5, <2>6, <3>3, OtherStepStatus
    <3> QED
      BY <3>1, <3>2, <3>3
  <2> QED
    BY <2>1, <2>2, <2>3, <2>4, <2>6, WaitInvKept
<1> QED
  BY <1>1, <1>2, <1>3

LEMMA EntryWait ==
    ASSUME TypeOK, TypeOK', Nested(work), CoreInv, WaitInv, Entry
    PROVE  WaitInv'
<1>1. Stacked = {} /\ work = <<>>
  BY EntryStack DEF Quiet
<1>2. ASSUME NEW c \in Cores, NEW t \in Threads, NEW os \in WaitLists, NEW timeout \in Timeouts,
             \/ WaitSynchronizationAny(c, t, os, timeout)
             \/ WaitSynchronizationAll(c, t, os, timeout),
             NEW s \in WaitingOnObjects, Sleeps(c, t, os, s, timeout)
      PROVE  WaitInv'
  <2>1. os \in Seq(Objects)
    BY SyncAssumption
  <2>2. UNCHANGED <<waiting_threads, pending_mutexes>> /\ Svc(c, t)
    BY <1>2 DEF WaitSynchronizationAny, WaitSynchronizationAll
  <2>3. status[t] = "Running"
    BY <2>2, CallerRuns DEF CoreInv
  <2> QED
    BY <1>1, <1>2, <2>1, <2>2, <2>3, SleepsWait
<1>3. CASE \A f \in Stacked' : f.op # "AddWaiting"
  <2>1. UNCHANGED <<waiting_threads, wait_objects, pending_mutexes>>
    <3>1. ASSUME NEW c \in Cores, NEW t \in Threads, NEW os \in WaitLists,
                 NEW timeout \in Timeouts,
                 \/ WaitSynchronizationAny(c, t, os, timeout)
                 \/ WaitSynchronizationAll(c, t, os, timeout)
          PROVE  UNCHANGED <<waiting_threads, wait_objects, pending_mutexes>>
      <4>1. UNCHANGED <<waiting_threads, pending_mutexes>> /\ os \in Seq(Objects)
        BY <3>1, SyncAssumption DEF WaitSynchronizationAny, WaitSynchronizationAll
      <4>2. ~ \E s \in WaitingOnObjects : Sleeps(c, t, os, s, timeout)
        <5> SUFFICES ASSUME NEW s \in WaitingOnObjects, Sleeps(c, t, os, s, timeout)
                     PROVE  FALSE
          OBVIOUS
        <5>1. Stacked' = {AddWaiting(t, os)}
          BY <4>1, SleepsStack
        <5> QED
          BY <1>3, <5>1 DEF AddWaiting
      <4>3. \E ps \in Seq(Objects) : Grants(t, ps)
        BY <3>1, <4>2, WaitCases
      <4> QED
        BY <4>1, <4>3 DEF Grants
    <3>2. ASSUME NEW c \in Cores, NEW t \in Threads, WaitSvc(c, t)
          PROVE  UNCHANGED <<waiting_threads, wait_objects, pending_mutexes>>
      BY <3>1, <3>2 DEF WaitSvc, SleepThread, ArbitrateWait
    <3>3. ASSUME NEW c \in Cores, NEW t \in Threads, SignalSvc(c, t)
          PROVE  UNCHANGED <<waiting_threads, wait_objects, pending_mutexes>>
      BY <3>3 DEF SignalSvc, ReleaseMutex, ReleaseSemaphore, SignalEvent, ClearSignal, SetTimer,
                  CancelTimer, ArbitrateSignal
    <3>4. ASSUME NEW c \in Cores, NEW t \in Threads, ThreadSvc(c, t)
          PROVE  UNCHANGED <<waiting_threads, wait_objects, pending_mutexes>>
      BY <3>4 DEF ThreadSvc, CreateThread, MakeThread, ExitThread, SetThreadPriority,
                  TerminateProcess, ScheduleThreads
    <3> QED
      BY <3>2, <3>3, <3>4 DEF Entry, SetupMainThread, MakeThread, MakeSleeper, TimerCallback,
                              ThreadWakeupCallback
  <2>2. work' # <<>> => top' \in Stacked'
    BY TopStacked
  <2>3. \A t \in Threads : status[t] \in WaitingOnObjects => status'[t] \in WaitingOnObjects
    <3>1. CASE UNCHANGED status
      BY <3>1
    <3>2. ASSUME NEW c \in Cores, NEW t \in Threads, NEW s \in WaitingStatus, FallsAsleep(c, t, s)
          PROVE  \A x \in Threads : status[x] \in WaitingOnObjects => status'[x] \in WaitingOnObjects
      <4>1. status[t] = "Running"
        BY <3>2, CallerRuns DEF CoreInv, FallsAsleep
      <4>2. \A x \in Threads \ {t} : status'[x] = status[x]
        BY <3>2 DEF FallsAsleep, TypeOK
      <4> QED
        BY <4>1, <4>2 DEF WaitingOnObjects
    <3>3. ASSUME NEW t \in Threads, MakeThread(t) \/ MakeSleeper(t)
          PROVE  \A x \in Threads : status[x] \in WaitingOnObjects => status'[x] \in WaitingOnObjects
      <4>1. status[t] = "Free" /\ \A x \in Threads \ {t} : status'[x] = status[x]
        BY <3>3 DEF MakeThread, MakeSleeper, TypeOK
      <4> QED
        BY <4>1 DEF WaitingOnObjects
    <3> QED
      BY <3>1, <3>2, <3>3, EntryThreads DEF Boosts, SetThreadPriority
  <2> QED
    BY <1>1, <1>3, <2>1, <2>2, <2>3, WaitInvKept
<1>4. CASE \E f \in Stacked' : f.op = "AddWaiting"
  BY <1>2, <1>4, EntryCalls
<1> QED
  BY <1>3, <1>4

LEMMA SchedulingWait ==
    ASSUME TypeOK, TypeOK', Nested(work), WaitInv, Scheduling
    PROVE  WaitInv'
<1>1. UNCHANGED <<waiting_threads, wait_objects, pending_mutexes>>
  BY DEF Scheduling, BoostStarvedStep, PopNextStep, RequeueStep, SwitchContextStep, Reschedule,
         Fail, NoFault
<1>2. /\ \A f \in Stacked' : f.op \in SchedulingOps
      /\ \A f \in Stacked : f.op \in SchedulingOps
  BY SchedulingStacks
<1>3. work = <<>> \/ top.op \notin {"AddWaiting", "RemoveWaiting"}
  BY <1>2, Innermost DEF SchedulingOps
<1>4. \A t \in Threads : RemoveWaiting(t) \notin Stacked
  BY <1>2 DEF RemoveWaiting, SchedulingOps
<1>5. ASSUME NEW t \in Threads, status[t] \in WaitingOnObjects
      PROVE  status'[t] = status[t]
  <2>1. CASE SwitchContextStep /\ fault' = NoFault
    <3> DEFINE old == current_thread[top.core]
               new == top.next
    <3>1. /\ t # new => status'[t] = IF t = old /\ IsRunning(old) THEN "Ready" ELSE status[t]
          /\ new # NoThread => status[new] = "Ready" \/ (new = old /\ IsRunning(old))
      BY <2>1, SwitchContextThreads
    <3>2. t # new
      BY <1>5, <3>1, CoreAssumption DEF IsRunning, WaitingOnObjects
    <3> QED
      BY <1>5, <3>1, <3>2 DEF IsRunning, WaitingOnObjects
  <2> QED
    BY <2>1, StatusUnchanged DEF Scheduling, Reschedule
<1> QED
  BY <1>1, <1>2, <1>3, <1>4, <1>5, TopStacked, WaitInvKept DEF SchedulingOps

LEMMA WaitInvNext ==
    ASSUME TypeOK, TypeOK', Nested(work), CoreInv, WaitInv, [Next]_vars
    PROVE  WaitInv'
<1>1. CASE UNCHANGED systemVars
  BY <1>1 DEF systemVars, WaitInv, Stacked, Adding, Removing, ListedBy, top
<1> QED
  BY <1>1, NextCases, OtherStepWait, EntryWait, SchedulingWait DEF Scheduling

LEMMA LocksInit ==
    ASSUME Init
    PROVE  LockInv /\ WaitInv
<1>1. work = <<>> /\ Stacked = {}
  BY QuietStack DEF Init
<1>2. \A t \in Threads : Held(t) = {} /\ held_mutexes[t] = {}
  BY CoreAssumption DEF Init, Held
<1>3. /\ \A t \in Threads : wait_objects[t] = <<>> /\ pending_mutexes[t] = {}
      /\ \A o \in Objects : waiting_threads[o] = <<>>
  BY DEF Init
<1>4. \A t \in Threads : ListedBy(t) = {}
  BY <1>3, RangeOfNothing DEF ListedBy
<1>5. IsInjective(<<>>)
  BY DEF IsInjective
<1>6. WaitInv
  BY <1>1, <1>3, <1>4, <1>5, RangeOfNothing DEF WaitInv, Adding, Removing
<1> QED
  BY <1>1, <1>2, <1>6 DEF LockInv, Releasing

(* Between any two steps of the kernel code, also inside Acquire, Release, *)
(* ReleaseThreadMutexes, WakeupAllWaitingThreads and Stop: a locked mutex  *)
(* is held by an alive thread and is on its held_mutexes list, unless its  *)
(* holder has ended and is releasing it; and the lists of waiting threads  *)
(* and of awaited objects agree but for the entries that are being added or*)
(* removed (mutex.cpp, thread.cpp, wait_object.cpp).                       *)
THEOREM LocksCorrect == Orderly /\ Spec => [](LockInv /\ WaitInv)
<1> DEFINE Locks == LockInv /\ WaitInv
<1>1. Init => Locks
  BY LocksInit
<1>2. TypeOK /\ TypeOK' /\ (Nested(work) /\ CoreInv) /\ HolderIffLocked /\ Locks /\ [Next]_vars
      => Locks'
  BY LockInvNext, WaitInvNext
<1> QED
  BY <1>1, <1>2, TypeCorrect, CoresCorrect, HoldersCorrect, PTL DEF Spec

LEMMA QuietLists ==
    ASSUME TypeOK, HolderIffLocked, LockInv, WaitInv, Quiet
    PROVE  MutexOwnership /\ WaitListsMirror
<1>1. Stacked = {} /\ \A t \in Threads : ~Adding(t) /\ ~Removing(t) /\ ~Releasing(t)
  BY QuietStack DEF Quiet, Adding, Removing, Releasing
<1>2. \A t \in Threads : /\ ListedBy(t) = Range(wait_objects[t])
                         /\ pending_mutexes[t] = ListedBy(t) \cap Mutexes
                         /\ wait_objects[t] # <<>> => status[t] \in WaitingOnObjects
  BY <1>1 DEF WaitInv
<1>3. ASSUME NEW o \in Objects
      PROVE  /\ Range(waiting_threads[o]) = {t \in Threads : o \in Range(wait_objects[t])}
             /\ IsInjective(waiting_threads[o])
  <2>1. waiting_threads[o] \in Seq(Threads)
    BY DEF TypeOK
  <2>2. Range(waiting_threads[o]) \subseteq Threads
    BY <2>1, RangeEquality
  <2>3. \A t \in Threads : o \in ListedBy(t) <=> t \in Range(waiting_threads[o])
    BY DEF ListedBy
  <2> QED
    BY <1>2, <2>2, <2>3 DEF WaitInv
<1>4. WaitListsMirror
  BY <1>2, <1>3 DEF WaitListsMirror
<1>5. \A t \in Threads : held_mutexes[t] = Held(t) /\ (Held(t) # {} => Alive(t))
  BY <1>1 DEF LockInv
<1>6. ASSUME NEW m \in Mutexes, holding_thread[m] # NoThread
      PROVE  status[holding_thread[m]] \notin {"Free", "Dead"}
  <2>1. PICK t \in Threads : t = holding_thread[m]
    BY <1>6 DEF TypeOK
  <2> QED
    BY <1>5, <2>1 DEF Held, Alive
<1> QED
  BY <1>4, <1>5, <1>6 DEF MutexOwnership, Held

(* Once the kernel is done, held_mutexes lists what each thread holds,     *)
(* holders are alive, and waiting_threads, wait_objects and                *)
(* pending_mutexes mirror each other, whichever way a thread acquired,     *)
(* released, was woken, timed out or ended.                                *)
THEOREM ListsAndLocksCorrect == Orderly /\ Spec => []ListsAndLocks
<1>1. TypeOK /\ HolderIffLocked /\ (LockInv /\ WaitInv) => ListsAndLocks
  BY QuietLists DEF ListsAndLocks, MutexOwnership, WaitListsMirror
<1> QED
  BY <1>1, TypeCorrect, HoldersCorrect, LocksCorrect, PTL

(***************************************************************************)
(* Mutexes implement recursive locks.                                      *)
(***************************************************************************)
LEMMA OthersLive ==
    ASSUME TypeOK, Nested(work), CoreInv, [Next]_vars, ~StopStep
    PROVE  DeadThreads' = DeadThreads
<1>1. \A t \in Threads : status[t] # "Dead" => status'[t] # "Dead"
  BY AliveStays
<1>2. \A t \in Threads : status[t] = "Dead" => status'[t] = "Dead"
  BY DeadStayDeadNext
<1> QED
  BY <1>1, <1>2 DEF DeadThreads

LEMMA AcquireImplementsLock ==
    ASSUME TypeOK, Nested(work), HolderIffLocked, LockInv, OtherStep, AcquireStep,
           DeadThreads' = DeadThreads
    PROVE  [Lock!Next]_<<holding_thread, lock_count, DeadThreads>>
<1>1. /\ top \in Stacked /\ top.op = "Acquire" /\ fault' = NoFault
  BY OtherStepCases, TopOfStep
<1>2. PICK o \in Objects, t \in Threads : o = top.object /\ t = top.thread /\ Alive(t)
  BY <1>1, StackedThreads DEF LockInv
<1>3. CASE o \notin Mutexes
  BY <1>1, <1>2, <1>3 DEF AcquireStep, Fail, NoFault
<1>4. CASE o \in Mutexes
  <2>1. /\ lock_count' = [lock_count EXCEPT ![o] = @ + 1]
        /\ lock_count[o] = 0 => holding_thread' = [holding_thread EXCEPT ![o] = t]
        /\ lock_count[o] # 0 => UNCHANGED holding_thread
        /\ ~ShouldWait(o, t)
    <3>1. o \notin Semaphores
      BY <1>4, KindsAssumption
    <3> QED
      BY <1>1, <1>2, <1>4, <3>1 DEF AcquireStep, AcquireMutex, Fail, NoFault
  <2>2. lock_count[o] \in Nat
    BY <1>4 DEF TypeOK
  <2>3. \/ holding_thread[o] = NoThread /\ lock_count[o] = 0
        \/ holding_thread[o] = t /\ lock_count[o] > 0
    BY <1>4, <2>1, <2>2 DEF ShouldWait, HolderIffLocked
  <2>4. holding_thread' = [holding_thread EXCEPT ![o] = t]
    BY <2>1, <2>2, <2>3 DEF TypeOK
  <2>5. t \notin DeadThreads
    BY <1>2 DEF DeadThreads, Alive
  <2> QED
    BY <1>2, <1>4, <2>1, <2>3, <2>4, <2>5 DEF Lock!Next, Lock!Lock, DeadThreads
<1> QED
  BY <1>3, <1>4

LEMMA LockRefinement ==
    ASSUME TypeOK, Nested(work), CoreInv, HolderIffLocked, LockInv, [Next]_vars
    PROVE  [Lock!Next]_<<holding_thread, lock_count, DeadThreads>>
<1> DEFINE Refined == [Lock!Next]_<<holding_thread, lock_count, DeadThreads>>
<1>1. CASE UNCHANGED <<holding_thread, lock_count>> /\ ~StopStep
  BY <1>1, OthersLive
<1>2. CASE OtherStep /\ AcquireStep
  <2>1. ~StopStep
    BY <1>2, TopOfStep
  <2> QED
    BY <1>2, <2>1, OthersLive, AcquireImplementsLock
<1>3. CASE OtherStep /\ StopStep
  <2>1. PICK t \in Threads : t = top.thread
    BY <1>3, OtherStepCases, StackedThreads, TopOfStep
  <2>2. status' = [status EXCEPT ![t] = "Dead"] /\ UNCHANGED <<holding_thread, lock_count>>
    BY <1>3, <2>1 DEF StopStep
  <2>3. DeadThreads' = DeadThreads \cup {t}
    BY <2>2 DEF DeadThreads, TypeOK
  <2> QED
    BY <2>2, <2>3 DEF Lock!Next, Lock!Die, DeadThreads
<1>4. CASE OtherStep /\ ReleaseMutexesStep
  <2>1. top \in Stacked /\ top \in Frames /\ top.op = "ReleaseMutexes"
    BY <1>4, OtherStepCases, TopOfStep
  <2>2. PICK t \in Threads, ms \in SUBSET Mutexes : t = top.thread /\ ms = top.mutexes
    BY <2>1, StackedThreads, FrameFields
  <2>3. status[t] = "Dead" /\ ms = Held(t)
    BY <2>1, <2>2 DEF LockInv
  <2>4. DeadThreads' = DeadThreads
    BY <1>4 DEF DeadThreads, ReleaseMutexesStep
  <2>5. CASE ms = {}
    BY <1>4, <2>2, <2>4, <2>5 DEF ReleaseMutexesStep
  <2>6. CASE ms # {}
    <3>1. PICK m \in ms : /\ lock_count' = [lock_count EXCEPT ![m] = 0]
                          /\ holding_thread' = [holding_thread EXCEPT ![m] = NoThread]
      BY <1>4, <2>2, <2>6 DEF ReleaseMutexesStep
    <3>2. m \in Mutexes /\ holding_thread[m] = t /\ t \in DeadThreads
      BY <2>3 DEF Held, DeadThreads
    <3> QED
      BY <2>2, <2>4, <3>1, <3>2 DEF Lock!Next, Lock!Abandon, DeadThreads
  <2> QED
    BY <2>5, <2>6
<1>5. ASSUME NEW c \in Cores, NEW t \in Threads, NEW m \in Mutexes, ReleaseMutex(c, t, m)
      PROVE  Refined
  <2>1. /\ holding_thread[m] = t /\ lock_count[m] > 0
        /\ lock_count' = [lock_count EXCEPT ![m] = @ - 1]
        /\ holding_thread' = [holding_thread EXCEPT ![m] = IF lock_count[m] = 1 THEN NoThread ELSE t]
    BY <1>5 DEF ReleaseMutex, TypeOK
  <2>2. DeadThreads' = DeadThreads
    BY <1>5 DEF DeadThreads, ReleaseMutex
  <2>3. t \notin DeadThreads
    BY <1>5, CallerRuns DEF DeadThreads, ReleaseMutex, CoreInv
  <2> QED
    BY <2>1, <2>2, <2>3 DEF Lock!Next, Lock!Unlock, DeadThreads
<1>6. CASE OtherStep /\ ~AcquireStep /\ ~StopStep /\ ~ReleaseMutexesStep
  BY <1>1, <1>6, OtherStepOwners
<1>7. CASE Scheduling \/ UNCHANGED systemVars
  <2>1. UNCHANGED <<holding_thread, lock_count>>
    BY <1>7 DEF Scheduling, BoostStarvedStep, PopNextStep, RequeueStep, SwitchContextStep,
                Reschedule, Fail, NoFault, systemVars
  <2>2. CASE Scheduling
    <3>1. ~StopStep
      BY <2>2 DEF Scheduling, BoostStarvedStep, PopNextStep, RequeueStep, SwitchContextStep,
                  Reschedule, StopStep, Runs, Quiet
    <3> QED
      BY <1>1, <2>1, <3>1
  <2>3. CASE UNCHANGED systemVars
    BY <2>1, <2>3 DEF systemVars, DeadThreads
  <2> QED
    BY <1>7, <2>2, <2>3
<1>8. CASE Entry
  <2>1. ~StopStep
    BY <1>8, EntryStack DEF StopStep, Runs, Quiet
  <2>2. ASSUME NEW c \in Cores, NEW t \in Threads, WaitSvc(c, t)
        PROVE  UNCHANGED <<holding_thread, lock_count>>
    BY <2>2 DEF WaitSvc, WaitSynchronizationAny, WaitSynchronizationAll, SleepThread, ArbitrateWait
  <2>3. ASSUME NEW c \in Cores, NEW t \in Threads, SignalSvc(c, t),
               ~ \E m \in Mutexes : ReleaseMutex(c, t, m)
        PROVE  UNCHANGED <<holding_thread, lock_count>>
    BY <2>3 DEF SignalSvc, ReleaseSemaphore, SignalEvent, ClearSignal, SetTimer, CancelTimer,
                ArbitrateSignal
  <2>4. ASSUME NEW c \in Cores, NEW t \in Threads, ThreadSvc(c, t)
        PROVE  UNCHANGED <<holding_thread, lock_count>>
    BY <2>4 DEF ThreadSvc, CreateThread, MakeThread, ExitThread, SetThreadPriority,
                TerminateProcess, ScheduleThreads
  <2>5. \/ UNCHANGED <<holding_thread, lock_count>>
        \/ \E c \in Cores, t \in Threads, m \in Mutexes : ReleaseMutex(c, t, m)
    BY <1>8, <2>2, <2>3, <2>4 DEF Entry, SetupMainThread, MakeThread, MakeSleeper, TimerCallback,
                                  ThreadWakeupCallback
  <2> QED
    BY <1>1, <1>5, <2>1, <2>5
<1> HIDE DEF Refined
<1> QED
  BY <1>2, <1>3, <1>4, <1>6, <1>7, <1>8, NextCases DEF Scheduling, Refined

(* The kernel's mutexes are recursive locks: only an alive thread acquires *)
(* one, when it is free or its own; only the holder releases it; and only  *)
(* the end of its holder, never another thread, takes it away.             *)
THEOREM MutexesAreLocks == Orderly /\ Spec => ImplementsLock
<1>1. Init => Lock!Init
  BY DEF Init, Lock!Init
<1>2. TypeOK /\ (Nested(work) /\ CoreInv) /\ HolderIffLocked /\ (LockInv /\ WaitInv) /\ [Next]_vars
      => [Lock!Next]_<<holding_thread, lock_count, {t \in Threads : status[t] = "Dead"}>>
  BY LockRefinement DEF DeadThreads
<1> QED
  BY <1>1, <1>2, TypeCorrect, CoresCorrect, HoldersCorrect, LocksCorrect, PTL
     DEF Spec, ImplementsLock, Lock!Spec

(***************************************************************************)
(* SECOND PART: ready queues.                                              *)
(***************************************************************************)
QueuesExact == LevelsExact /\ LevelsLinked /\ FreshPriority

(***************************************************************************)
(* One queue changes.                                                      *)
(***************************************************************************)
LEMMA OnLevel ==
    ASSUME LevelsExact, NEW c \in Cores, NEW p \in Priorities
    PROVE  /\ IsInjective(ready_queue[c].level[p])
           /\ \A x \in Threads : x \in Range(ready_queue[c].level[p]) <=>
                 /\ status[x] = "Ready" /\ CoreOf[x] = c /\ current_priority[x] = p
                 /\ x \notin SetAside
BY DEF LevelsExact, ReadyAt

LEMMA LevelRange ==
    ASSUME NEW list \in Lists(Priorities, Threads), NEW p \in Priorities
    PROVE  list.level[p] \in Seq(Threads) /\ Range(list.level[p]) \subseteq Threads
<1>1. list.level[p] \in Seq(Threads)
  BY DEF Lists
<1> QED
  BY <1>1, RangeEquality

(* Each thread is left as it is, or is of core c and is put where it       *)
(* belongs on the new list.                                                *)
Undisturbed(x, old, new) ==
    /\ status'[x] = "Ready" <=> status[x] = "Ready"
    /\ status'[x] = "Free" <=> status[x] = "Free"
    /\ current_priority'[x] = current_priority[x]
    /\ nominal_priority'[x] = nominal_priority[x]
    /\ x \in SetAside' <=> x \in SetAside
    /\ \A p \in Priorities : x \in Range(new.level[p]) <=> x \in Range(old.level[p])

Replaced(x, new) ==
    /\ status'[x] # "Free"
    /\ {current_priority'[x], nominal_priority'[x]} \subseteq new.linked
    /\ \A p \in Priorities : x \in Range(new.level[p]) <=>
          status'[x] = "Ready" /\ current_priority'[x] = p /\ x \notin SetAside'

LEMMA QueueChange ==
    ASSUME TypeOK, QueuesExact, NEW c \in Cores, NEW list \in Lists(Priorities, Threads),
           ready_queue' = [ready_queue EXCEPT ![c] = list],
           ready_queue[c].linked \subseteq list.linked,
           \A p \in Priorities : IsInjective(list.level[p]),
           \A x \in Threads : \/ Undisturbed(x, ready_queue[c], list)
                              \/ CoreOf[x] = c /\ Replaced(x, list)
    PROVE  QueuesExact'
<1>1. /\ ready_queue'[c] = list
      /\ \A d \in Cores \ {c} : ready_queue'[d] = ready_queue[d]
  BY DEF TypeOK
<1>2. ASSUME NEW d \in Cores, NEW p \in Priorities
      PROVE  /\ IsInjective(ready_queue'[d].level[p])
             /\ Range(ready_queue'[d].level[p]) = ReadyAt(d, p)' \ SetAside'
  <2>1. /\ IsInjective(ready_queue[d].level[p])
        /\ \A x \in Threads : x \in Range(ready_queue[d].level[p]) <=>
              /\ status[x] = "Ready" /\ CoreOf[x] = d /\ current_priority[x] = p
              /\ x \notin SetAside
    BY OnLevel DEF QueuesExact
  <2>2. Range(list.level[p]) \subseteq Threads
    BY LevelRange
  <2>3. Range(ready_queue[d].level[p]) \subseteq Threads
    <3>1. ready_queue[d] \in Lists(Priorities, Threads)
      BY DEF TypeOK
    <3> QED
      BY <3>1, LevelRange
  <2>4. \A x \in Threads : x \in ReadyAt(d, p)' <=>
           status'[x] = "Ready" /\ CoreOf[x] = d /\ current_priority'[x] = p
    BY DEF ReadyAt
  <2>5. ReadyAt(d, p)' \subseteq Threads
    BY DEF ReadyAt
  <2>6. CASE d = c
    <3>1. \A x \in Threads : x \in Range(list.level[p]) <=> x \in ReadyAt(d, p)' \ SetAside'
      BY <2>1, <2>4, <2>6 DEF Undisturbed, Replaced
    <3> QED
      BY <1>1, <2>2, <2>5, <2>6, <3>1
  <2>7. CASE d # c
    <3>1. \A x \in Threads :
             x \in Range(ready_queue[d].level[p]) <=> x \in ReadyAt(d, p)' \ SetAside'
      BY <2>1, <2>4, <2>7 DEF Undisturbed
    <3> QED
      BY <1>1, <2>1, <2>3, <2>5, <2>7, <3>1
  <2> QED
    BY <2>6, <2>7
<1>3. LevelsExact'
  BY <1>2 DEF LevelsExact
<1>4. ASSUME NEW x \in Threads, status'[x] # "Free"
      PROVE  {current_priority'[x], nominal_priority'[x]} \subseteq ready_queue'[CoreOf[x]].linked
  <2>1. CoreOf[x] \in Cores
    BY CoreAssumption
  <2>2. CASE CoreOf[x] = c /\ Replaced(x, list)
    BY <1>1, <2>2 DEF Replaced
  <2>3. CASE Undisturbed(x, ready_queue[c], list)
    <3>1. {current_priority[x], nominal_priority[x]} \subseteq ready_queue[CoreOf[x]].linked
      BY <1>4, <2>3 DEF QueuesExact, LevelsLinked, Undisturbed
    <3> QED
      BY <1>1, <2>1, <2>3, <3>1 DEF Undisturbed
  <2> QED
    BY <2>2, <2>3
<1>5. LevelsLinked'
  BY <1>4 DEF LevelsLinked
<1>6. FreshPriority'
  BY DEF FreshPriority, QueuesExact, Undisturbed, Replaced
<1> QED
  BY <1>3, <1>5, <1>6 DEF QueuesExact

(***************************************************************************)
(* Threads that were created.                                              *)
(***************************************************************************)
LEMMA NotFreeStays ==
    ASSUME TypeOK, Nested(work), CoreInv, [Next]_vars, NEW t \in Threads, status[t] # "Free"
    PROVE  status'[t] # "Free"
<1>1. CASE status[t] = "Dead"
  BY <1>1, DeadStayDeadNext
<1>2. CASE status[t] # "Dead" /\ ~StopStep
  BY <1>2, AliveStays DEF Alive
<1>3. CASE StopStep
  BY <1>3 DEF StopStep, TypeOK
<1> QED
  BY <1>1, <1>2, <1>3

LEMMA FreeStays ==
    ASSUME TypeOK, Nested(work), CoreInv, CreatedInv, [Next]_vars,
           NEW t \in Threads, status[t] = "Free", ~MakeThread(t), ~MakeSleeper(t)
    PROVE  status'[t] = "Free"
<1>0. status \in [Threads -> Status]
  BY DEF TypeOK
<1>1. ASSUME NEW x \in Threads, NEW s, status' = [status EXCEPT ![x] = s], status[x] # "Free"
      PROVE  status'[t] = "Free"
  BY <1>0, <1>1
<1>2. CASE OtherStep
  <2>1. ASSUME NEW x \in Threads, Resumes(x)
        PROVE  status'[t] = "Free"
    BY <1>1, <2>1 DEF Resumes, WaitingStatus, WaitingOnObjects
  <2>2. ASSUME NEW x \in Threads, Stops(x)
        PROVE  status'[t] = "Free"
    <3>1. Stop(x) \in Stacked /\ Stop(x).op = "Stop" /\ Stop(x).thread = x
      BY <2>2 DEF Stops, Stop
    <3>2. status[x] # "Free"
      BY <3>1 DEF CreatedInv
    <3> QED
      BY <1>1, <2>2, <3>2 DEF Stops
  <2> QED
    BY <1>2, <2>1, <2>2, OtherStepThreads DEF Boosts
<1>3. CASE Entry
  <2>1. ASSUME NEW c \in Cores, NEW x \in Threads, NEW s \in WaitingStatus, FallsAsleep(c, x, s)
        PROVE  status'[t] = "Free"
    <3>1. status[x] = "Running"
      BY <2>1, CallerRuns DEF CoreInv, FallsAsleep
    <3> QED
      BY <1>1, <2>1, <3>1 DEF FallsAsleep
  <2>2. ASSUME NEW x \in Threads, MakeThread(x) \/ MakeSleeper(x)
        PROVE  status'[t] = "Free"
    BY <1>0, <2>2 DEF MakeThread, MakeSleeper
  <2> QED
    BY <1>3, <2>1, <2>2, EntryThreads DEF Boosts, SetThreadPriority
<1>4. CASE SwitchContextStep /\ fault' = NoFault
  <2> DEFINE old == current_thread[top.core]
             new == top.next
  <2>1. /\ t # new => status'[t] = IF t = old /\ IsRunning(old) THEN "Ready" ELSE status[t]
        /\ new # NoThread => status[new] = "Ready" \/ (new = old /\ IsRunning(old))
    BY <1>4, SwitchContextThreads
  <2>2. t # NoThread
    BY CoreAssumption
  <2> HIDE DEF old, new
  <2> QED
    BY <2>1, <2>2 DEF IsRunning
<1>5. CASE BoostStarvedStep \/ PopNextStep \/ RequeueStep \/ (\E c \in Cores : Reschedule(c))
  BY <1>5 DEF BoostStarvedStep, PopNextStep, RequeueStep, Reschedule, Fail, systemVars
<1>6. CASE UNCHANGED systemVars
  BY <1>6 DEF systemVars
<1> QED
  BY <1>2, <1>3, <1>4, <1>5, <1>6, NextCases

LEMMA ThreadListChange ==
    ASSUME TypeOK, Nested(work), [Next]_vars
    PROVE  \/ UNCHANGED thread_list /\ ~StopStep
           \/ \E t \in Threads : MakeThread(t) \/ MakeSleeper(t)
           \/ OtherStep /\ StopStep
<1>1. CASE OtherStep
  <2>1. KernelStep /\ fault' = NoFault /\ ~ (BoostStarvedStep \/ PopNextStep \/ RequeueStep
                                              \/ SwitchContextStep)
    BY <1>1 DEF OtherStep, BoostStarvedStep, PopNextStep, RequeueStep, SwitchContextStep, Runs,
                top, SchedulingOps
  <2> QED
    BY <1>1, <2>1 DEF KernelStep, UpdateMutexesStep, AcquireStep, AddWaitingStep,
       RemoveWaitingStep, WakeupAllStep, CallbackStep, ResumeStep, ReleaseMutexesStep,
       TerminateThreadsStep, ResumeArbitratedStep, Fail, NoFault
<1>2. CASE Scheduling
  <2>1. ~StopStep
    BY <1>2 DEF Scheduling, BoostStarvedStep, PopNextStep, RequeueStep, SwitchContextStep,
                Reschedule, StopStep, Runs, Quiet
  <2> QED
    BY <1>2, <2>1 DEF Scheduling, BoostStarvedStep, PopNextStep, RequeueStep, SwitchContextStep,
                      Reschedule, Fail, NoFault
<1>3. CASE Entry
  <2>1. ~StopStep
    BY <1>3, EntryStack DEF StopStep, Runs, Quiet
  <2>2. ASSUME NEW c \in Cores, NEW t \in Threads, WaitSvc(c, t)
        PROVE  UNCHANGED thread_list
    BY <2>2 DEF WaitSvc, WaitSynchronizationAny, WaitSynchronizationAll, SleepThread, ArbitrateWait
  <2>3. ASSUME NEW c \in Cores, NEW t \in Threads, SignalSvc(c, t)
        PROVE  UNCHANGED thread_list
    BY <2>3 DEF SignalSvc, ReleaseMutex, ReleaseSemaphore, SignalEvent, ClearSignal, SetTimer,
                CancelTimer, ArbitrateSignal
  <2>4. ASSUME NEW c \in Cores, NEW t \in Threads, ThreadSvc(c, t),
               ~ \E x \in Threads : MakeThread(x) \/ MakeSleeper(x)
        PROVE  UNCHANGED thread_list
    BY <2>4 DEF ThreadSvc, CreateThread, ExitThread, SetThreadPriority, TerminateProcess,
                ScheduleThreads
  <2>5. ASSUME NEW p \in Processes, SetupMainThread(p)
        PROVE  \E x \in Threads : MakeThread(x) \/ MakeSleeper(x)
    <3>1. MainThread[p] \in Threads
      BY SyncAssumption
    <3> QED
      BY <2>5, <3>1 DEF SetupMainThread
  <2> QED
    BY <1>3, <2>1, <2>2, <2>3, <2>4, <2>5 DEF Entry, TimerCallback, ThreadWakeupCallback
<1>4. CASE UNCHANGED systemVars
  <2>1. CASE StopStep
    <3>1. work # <<>> /\ work \in Seq(Frames) /\ Stacked = {top} \cup Under /\ top.op = "Stop"
      BY <2>1, Innermost DEF StopStep, Runs, top, TypeOK
    <3>2. top.thread \in Threads /\ Under \subseteq Frames
      BY <3>1, Innermost, FrameFields
    <3>3. Stacked' = {WakeupAll(top.thread), RemoveWaiting(top.thread),
                      ReleaseMutexes(top.thread, held_mutexes[top.thread])} \cup Under
          /\ \A f \in Under : f.op = "TerminateThreads"
      BY <2>1, StopStack
    <3>4. Stacked' = Stacked
      BY <1>4 DEF systemVars, Stacked
    <3> QED
      BY <3>1, <3>3, <3>4 DEF WakeupAll, RemoveWaiting, ReleaseMutexes
  <2> QED
    BY <1>4, <2>1 DEF systemVars
<1> QED
  BY <1>1, <1>2, <1>3, <1>4, NextCases DEF Scheduling

LEMMA ListExactNext ==
    ASSUME TypeOK, TypeOK', Nested(work), CoreInv, CreatedInv, [Next]_vars
    PROVE  ListExact'
<1>0. status \in [Threads -> Status] /\ thread_list = {t \in Threads : Alive(t)}
  BY DEF TypeOK, CreatedInv, ListExact
<1>1. CASE /\ UNCHANGED thread_list /\ ~StopStep
           /\ ~ \E t \in Threads : MakeThread(t) \/ MakeSleeper(t)
  <2>1. ASSUME NEW t \in Threads
        PROVE  Alive(t)' <=> Alive(t)
    <3>1. Alive(t) => Alive(t)'
      BY <1>1, AliveStays
    <3>2. CASE status[t] = "Free"
      BY <1>1, <3>2, FreeStays DEF Alive
    <3>3. CASE status[t] = "Dead"
      BY <3>3, DeadStayDeadNext DEF Alive
    <3> QED
      BY <3>1, <3>2, <3>3 DEF Alive
  <2> QED
    BY <1>0, <1>1, <2>1 DEF ListExact
<1>2. ASSUME NEW t \in Threads, MakeThread(t) \/ MakeSleeper(t)
      PROVE  ListExact'
  BY <1>0, <1>2 DEF ListExact, Alive, MakeThread, MakeSleeper
<1>3. CASE OtherStep /\ StopStep
  <2>1. PICK t \in Threads : t = top.thread
    BY <1>3, OtherStepCases, StackedThreads, TopOfStep
  <2>2. status' = [status EXCEPT ![t] = "Dead"] /\ thread_list' = thread_list \ {t}
    BY <1>3, <2>1 DEF StopStep
  <2> QED
    BY <1>0, <2>2 DEF ListExact, Alive
<1> QED
  BY <1>1, <1>2, <1>3, ThreadListChange

LEMMA CreatedInvNext ==
    ASSUME TypeOK, TypeOK', Nested(work), CoreInv, CreatedInv, [Next]_vars
    PROVE  CreatedInv'
<1>1. \A t \in Threads : status[t] # "Free" => status'[t] # "Free"
  BY NotFreeStays
<1>2. ASSUME NEW c \in Cores, current_thread'[c] # NoThread
      PROVE  status'[current_thread'[c]] # "Free"
  <2>1. CASE UNCHANGED current_thread
    BY <1>1, <1>2, <2>1 DEF CreatedInv, TypeOK
  <2>2. CASE SwitchContextStep /\ fault' = NoFault
    <3>1. /\ current_thread' = [current_thread EXCEPT ![top.core] = top.next]
          /\ top.core \in Cores /\ top.next \in Threads \cup {NoThread}
          /\ top.next # NoThread => status'[top.next] = "Running"
      BY <2>2, SwitchContextThreads DEF SwitchContextStep, NoFault
    <3> QED
      BY <1>1, <1>2, <3>1 DEF CreatedInv, TypeOK
  <2>3. CASE OtherStep
    BY <2>1, <2>3, OtherStepCores, OtherKernelStack DEF OtherStep
  <2>4. CASE Entry
    BY <2>1, <2>4, EntryCores
  <2> QED
    BY <2>1, <2>2, <2>3, <2>4, NextCases DEF BoostStarvedStep, PopNextStep, RequeueStep,
       Reschedule, Fail, NoFault, systemVars
<1>3. ASSUME NEW f \in Stacked', f.op = "Stop"
      PROVE  status'[f.thread] # "Free"
  <2>1. ASSUME f \in Stacked
        PROVE  status'[f.thread] # "Free"
    BY <1>1, <1>3, <2>1, StackedThreads DEF CreatedInv
  <2>2. CASE OtherStep
    <3>1. CASE f \in Stacked
      BY <2>1, <3>1
    <3>2. CASE f \notin Stacked
      <4>1. TerminateThreadsStep /\ top.op = "TerminateThreads" /\ top \in Frames
        BY <1>3, <2>2, StopFrames, OtherStepCases, TopOfStep
      <4>2. PICK t \in Threads : f = Stop(t) /\ (t \in thread_list \/ t = current_thread[top.core])
        <5>1. PICK c \in Cores : c = top.core
          BY <4>1, FrameFields
        <5>2. current_thread[c] \in Threads \cup {NoThread} /\ thread_list \subseteq Threads
          BY DEF TypeOK
        <5>3. /\ \A g \in Under : g.op = "TerminateThreads"
              /\ \/ \E t \in thread_list : Stacked' = {Stop(t)} \cup Stacked
                 \/ /\ current_thread[c] # NoThread
                    /\ Stacked' = {Stop(current_thread[c])} \cup Under
                 \/ Stacked' = Under
          BY <4>1, <5>1, TerminateThreadsStack
        <5>4. Stacked = {top} \cup Under
          BY <2>2, OtherStepCases
        <5> QED
          BY <1>3, <3>2, <5>1, <5>2, <5>3, <5>4
      <4>3. status[t] # "Free"
        <5>1. PICK c \in Cores : c = top.core
          BY <4>1, FrameFields
        <5> QED
          BY <4>2, <5>1, CoreAssumption DEF CreatedInv, ListExact, Alive
      <4> QED
        BY <1>1, <4>2, <4>3 DEF Stop
    <3> QED
      BY <3>1, <3>2
  <2>3. CASE Entry
    <3>1. PICK c \in Cores, t \in Threads : ExitThread(c, t)
      BY <1>3, <2>3, EntryCalls
    <3>2. Stacked' = {Stop(t)} /\ status[t] = "Running"
      BY <3>1, FrameType, OneCallStack, CallerRuns DEF ExitThread, CoreInv
    <3> QED
      BY <1>1, <3>2 DEF Stop
  <2>4. CASE Scheduling
    BY <1>3, <2>4, SchedulingStacks DEF SchedulingOps
  <2>5. CASE UNCHANGED systemVars
    BY <2>1, <2>5 DEF systemVars, Stacked
  <2> QED
    BY <2>2, <2>3, <2>4, <2>5, NextCases DEF Scheduling
<1> QED
  BY <1>2, <1>3, ListExactNext DEF CreatedInv

(***************************************************************************)
(* What happens to one thread, and its queue.                              *)
(***************************************************************************)
LEMMA PrepareContents ==
    ASSUME NEW list \in Lists(Priorities, Threads), NEW p \in Priorities
    PROVE  /\ prepare(list, p) \in Lists(Priorities, Threads)
           /\ prepare(list, p).linked = list.linked \cup {p}
           /\ prepare(list, p).level = list.level
BY DEF prepare, Lists

LEMMA QueueOf ==
    ASSUME TypeOK, QueuesExact, NEW t \in Threads
    PROVE  /\ CoreOf[t] \in Cores
           /\ ready_queue[CoreOf[t]] \in Lists(Priorities, Threads)
           /\ current_priority[t] \in Priorities /\ nominal_priority[t] \in Priorities
           /\ \A p \in Priorities : IsInjective(ready_queue[CoreOf[t]].level[p])
           /\ \A p \in Priorities : t \in Range(ready_queue[CoreOf[t]].level[p]) <=>
                 status[t] = "Ready" /\ current_priority[t] = p /\ t \notin SetAside
           /\ status[t] # "Free" => {current_priority[t], nominal_priority[t]}
                                       \subseteq ready_queue[CoreOf[t]].linked
<1>1. CoreOf[t] \in Cores
  BY CoreAssumption
<1>2. \A p \in Priorities :
         /\ IsInjective(ready_queue[CoreOf[t]].level[p])
         /\ t \in Range(ready_queue[CoreOf[t]].level[p]) <=>
               status[t] = "Ready" /\ current_priority[t] = p /\ t \notin SetAside
  BY <1>1, OnLevel DEF QueuesExact
<1> QED
  BY <1>1, <1>2 DEF QueuesExact, LevelsLinked, TypeOK

(* The list operations on a ready queue.                                   *)
LEMMA QueuePushBack ==
    ASSUME NEW list \in Lists(Priorities, Threads), NEW p \in Priorities, NEW e \in Threads
    PROVE  LET new == push_back(list, p, e)
           IN  /\ new \in Lists(Priorities, Threads)
               /\ new.linked = list.linked
               /\ Range(new.level[p]) = Range(list.level[p]) \cup {e}
               /\ IsInjective(list.level[p]) /\ e \notin Range(list.level[p]) =>
                     IsInjective(new.level[p])
               /\ \A r \in Priorities \ {p} : new.level[r] = list.level[r]
<1>1. push_back(list, p, e) \in Lists(Priorities, Threads)
  BY ListOperationsType
<1> QED
  BY <1>1, PushBackContents

LEMMA QueuePushFront ==
    ASSUME NEW list \in Lists(Priorities, Threads), NEW p \in Priorities, NEW e \in Threads
    PROVE  LET new == push_front(list, p, e)
           IN  /\ new \in Lists(Priorities, Threads)
               /\ new.linked = list.linked
               /\ Range(new.level[p]) = Range(list.level[p]) \cup {e}
               /\ IsInjective(list.level[p]) /\ e \notin Range(list.level[p]) =>
                     IsInjective(new.level[p])
               /\ \A r \in Priorities \ {p} : new.level[r] = list.level[r]
<1>1. push_front(list, p, e) \in Lists(Priorities, Threads)
  BY ListOperationsType
<1> QED
  BY <1>1, PushFrontContents

LEMMA QueueRemove ==
    ASSUME NEW list \in Lists(Priorities, Threads), NEW p \in Priorities, NEW e \in Threads
    PROVE  LET new == remove(list, p, e)
           IN  /\ new \in Lists(Priorities, Threads)
               /\ new.linked = list.linked
               /\ IsInjective(list.level[p]) =>
                     /\ Range(new.level[p]) = Range(list.level[p]) \ {e}
                     /\ IsInjective(new.level[p])
               /\ \A r \in Priorities \ {p} : new.level[r] = list.level[r]
<1>1. remove(list, p, e) \in Lists(Priorities, Threads)
  BY ListOperationsType
<1> QED
  BY <1>1, RemoveContents

(* No thread is twice on a level of the list, and e is on no level but p.  *)
OnlyOn(list, p, e) ==
    \A r \in Priorities : /\ IsInjective(list.level[r])
                          /\ r # p => e \notin Range(list.level[r])

(* The list new is list with e taken off, or put on, level p.              *)
Removed(list, p, e, new) ==
    /\ new \in Lists(Priorities, Threads)
    /\ new.linked = list.linked
    /\ Range(new.level[p]) = Range(list.level[p]) \ {e} /\ IsInjective(new.level[p])
    /\ \A r \in Priorities \ {p} : new.level[r] = list.level[r]

Added(list, p, e, new) ==
    /\ new \in Lists(Priorities, Threads)
    /\ new.linked = list.linked
    /\ Range(new.level[p]) = Range(list.level[p]) \cup {e} /\ IsInjective(new.level[p])
    /\ \A r \in Priorities \ {p} : new.level[r] = list.level[r]

LEMMA QueueRemoved ==
    ASSUME NEW list \in Lists(Priorities, Threads), NEW p \in Priorities, NEW e \in Threads,
           IsInjective(list.level[p])
    PROVE  Removed(list, p, e, remove(list, p, e))
BY QueueRemove DEF Removed

LEMMA QueueAdded ==
    ASSUME NEW list \in Lists(Priorities, Threads), NEW p \in Priorities, NEW e \in Threads,
           IsInjective(list.level[p]), e \notin Range(list.level[p])
    PROVE  /\ Added(list, p, e, push_back(list, p, e))
           /\ Added(list, p, e, push_front(list, p, e))
<1>1. Added(list, p, e, push_back(list, p, e))
  BY QueuePushBack DEF Added
<1>2. Added(list, p, e, push_front(list, p, e))
  BY QueuePushFront DEF Added
<1> QED
  BY <1>1, <1>2

LEMMA QueueMove ==
    ASSUME NEW list \in Lists(Priorities, Threads),
           NEW p \in Priorities, NEW q \in Priorities, NEW e \in Threads, OnlyOn(list, p, e)
    PROVE  LET new == move(list, e, p, q)
           IN  /\ new \in Lists(Priorities, Threads)
               /\ new.linked = list.linked \cup {q}
               /\ \A r \in Priorities :
                     /\ IsInjective(new.level[r])
                     /\ \A x \in Threads \ {e} : x \in Range(new.level[r]) <=> x \in Range(list.level[r])
                     /\ e \in Range(new.level[r]) <=> r = q
<1>0. IsInjective(list.level[p])
  BY DEF OnlyOn
<1>1. PICK rest : rest = remove(list, p, e)
  OBVIOUS
<1>2. Removed(list, p, e, rest)
  BY <1>0, <1>1, QueueRemoved
<1>3. PICK ready : ready = prepare(rest, q)
  OBVIOUS
<1>4. /\ ready \in Lists(Priorities, Threads)
      /\ ready.linked = list.linked \cup {q}
      /\ ready.level = rest.level
  BY <1>2, <1>3, PrepareContents DEF Removed
<1>5. PICK new : new = push_back(ready, q, e)
  OBVIOUS
<1>6. /\ \A r \in Priorities : e \notin Range(ready.level[r])
      /\ \A r \in Priorities : IsInjective(ready.level[r])
  BY <1>2, <1>4 DEF OnlyOn, Removed
<1>7. Added(ready, q, e, new)
  <2>1. IsInjective(ready.level[q]) /\ e \notin Range(ready.level[q])
    BY <1>6
  <2> QED
    BY <1>4, <1>5, <2>1, QueueAdded
<1>8. ASSUME NEW r \in Priorities
      PROVE  /\ IsInjective(new.level[r])
             /\ \A x \in Threads \ {e} : x \in Range(new.level[r]) <=> x \in Range(list.level[r])
             /\ e \in Range(new.level[r]) <=> r = q
  <2>1. \A x \in Threads \ {e} : x \in Range(ready.level[r]) <=> x \in Range(list.level[r])
    <3>1. CASE r = p
      BY <1>2, <1>4, <3>1 DEF Removed
    <3>2. CASE r # p
      BY <1>2, <1>4, <3>2 DEF Removed
    <3> QED
      BY <3>1, <3>2
  <2>2. CASE r = q
    BY <1>7, <2>1, <2>2 DEF Added
  <2>3. CASE r # q
    BY <1>6, <1>7, <2>1, <2>3 DEF Added
  <2> QED
    BY <2>2, <2>3
<1>9. move(list, e, p, q) = new
  BY <1>1, <1>3, <1>5 DEF move
<1> QED
  BY <1>4, <1>7, <1>8, <1>9 DEF Added

(* The case of one thread.                                                 *)
LEMMA ThreadQueueChange ==
    ASSUME TypeOK, QueuesExact, NEW t \in Threads, NEW list \in Lists(Priorities, Threads),
           ready_queue' = [ready_queue EXCEPT ![CoreOf[t]] = list],
           \A x \in Threads \ {t} : /\ status'[x] = "Ready" <=> status[x] = "Ready"
                                    /\ status'[x] = "Free" <=> status[x] = "Free"
                                    /\ current_priority'[x] = current_priority[x]
                                    /\ nominal_priority'[x] = nominal_priority[x]
                                    /\ x \in SetAside' <=> x \in SetAside,
           ready_queue[CoreOf[t]].linked \subseteq list.linked,
           \A p \in Priorities :
              /\ IsInjective(list.level[p])
              /\ \A x \in Threads \ {t} :
                    x \in Range(list.level[p]) <=> x \in Range(ready_queue[CoreOf[t]].level[p])
              /\ t \in Range(list.level[p]) <=>
                    status'[t] = "Ready" /\ current_priority'[t] = p /\ t \notin SetAside',
           status'[t] # "Free",
           {current_priority'[t], nominal_priority'[t]} \subseteq list.linked
    PROVE  QueuesExact'
<1>1. CoreOf[t] \in Cores
  BY CoreAssumption
<1>2. ASSUME NEW x \in Threads
      PROVE  \/ Undisturbed(x, ready_queue[CoreOf[t]], list)
             \/ CoreOf[x] = CoreOf[t] /\ Replaced(x, list)
  <2>1. CASE x = t
    BY <2>1 DEF Replaced
  <2>2. CASE x # t
    BY <2>2 DEF Undisturbed
  <2> QED
    BY <2>1, <2>2
<1> QED
  BY <1>1, <1>2, QueueChange

(* A thread gets another priority.                                         *)
LEMMA BoostQueues ==
    ASSUME TypeOK, QueuesExact, UNCHANGED <<status, nominal_priority>>,
           \A x \in Threads : x \in SetAside' <=> x \in SetAside,
           NEW t \in Threads, t \notin SetAside, status[t] # "Free",
           NEW p \in Priorities, BoostPriority(t, p)
    PROVE  QueuesExact'
<1>1. PICK queue, old : queue = ready_queue[CoreOf[t]] /\ old = current_priority[t]
  OBVIOUS
<1>2. /\ queue \in Lists(Priorities, Threads) /\ old \in Priorities
      /\ nominal_priority[t] \in queue.linked
      /\ \A r \in Priorities : IsInjective(queue.level[r])
      /\ \A r \in Priorities : t \in Range(queue.level[r]) <=> status[t] = "Ready" /\ old = r
  BY <1>1, QueueOf
<1>3. PICK list : list = IF status[t] = "Ready" THEN move(queue, t, old, p) ELSE prepare(queue, p)
  OBVIOUS
<1>4. /\ list \in Lists(Priorities, Threads)
      /\ list.linked = queue.linked \cup {p}
      /\ \A r \in Priorities :
            /\ IsInjective(list.level[r])
            /\ \A x \in Threads \ {t} : x \in Range(list.level[r]) <=> x \in Range(queue.level[r])
            /\ t \in Range(list.level[r]) <=> status[t] = "Ready" /\ p = r
  <2>1. CASE status[t] = "Ready"
    <3>1. list = move(queue, t, old, p)
      BY <1>3, <2>1
    <3>2. OnlyOn(queue, old, t)
      BY <1>2 DEF OnlyOn
    <3> QED
      BY <1>2, <2>1, <3>1, <3>2, QueueMove
  <2>2. CASE status[t] # "Ready"
    <3>1. list = prepare(queue, p)
      BY <1>3, <2>2
    <3>2. list \in Lists(Priorities, Threads) /\ list.linked = queue.linked \cup {p}
          /\ list.level = queue.level
      BY <1>2, <3>1, PrepareContents
    <3> QED
      BY <1>2, <2>2, <3>2
  <2> QED
    BY <2>1, <2>2
<1>5. ready_queue' = [ready_queue EXCEPT ![CoreOf[t]] = list]
  BY <1>1, <1>3 DEF BoostPriority, Requeued
<1>6. /\ current_priority'[t] = p /\ nominal_priority'[t] = nominal_priority[t]
      /\ \A x \in Threads \ {t} : current_priority'[x] = current_priority[x]
  BY DEF BoostPriority, TypeOK
<1>7. \A r \in Priorities :
         /\ IsInjective(list.level[r])
         /\ \A x \in Threads \ {t} :
               x \in Range(list.level[r]) <=> x \in Range(ready_queue[CoreOf[t]].level[r])
         /\ t \in Range(list.level[r]) <=>
               status'[t] = "Ready" /\ current_priority'[t] = r /\ t \notin SetAside'
  BY <1>1, <1>4, <1>6
<1>8. /\ ready_queue[CoreOf[t]].linked \subseteq list.linked
      /\ {current_priority'[t], nominal_priority'[t]} \subseteq list.linked
      /\ status'[t] # "Free"
  BY <1>1, <1>2, <1>4, <1>6
<1> QED
  BY <1>4, <1>5, <1>6, <1>7, <1>8, ThreadQueueChange

(* A sleeping thread becomes ready.                                        *)
LEMMA ResumeQueues ==
    ASSUME TypeOK, QueuesExact, \A x \in Threads : x \in SetAside' <=> x \in SetAside,
           NEW t \in Threads, t \notin SetAside, Resumes(t)
    PROVE  QueuesExact'
<1>1. PICK queue, p : queue = ready_queue[CoreOf[t]] /\ p = current_priority[t]
  OBVIOUS
<1>2. /\ queue \in Lists(Priorities, Threads) /\ p \in Priorities
      /\ status[t] \notin {"Ready", "Free"}
      /\ {p, nominal_priority[t]} \subseteq queue.linked
      /\ \A r \in Priorities : IsInjective(queue.level[r]) /\ t \notin Range(queue.level[r])
  BY <1>1, QueueOf DEF Resumes, WaitingStatus, WaitingOnObjects
<1>3. PICK list : list = push_back(queue, p, t)
  OBVIOUS
<1>4. /\ list \in Lists(Priorities, Threads)
      /\ list.linked = queue.linked
      /\ Range(list.level[p]) = Range(queue.level[p]) \cup {t}
      /\ IsInjective(list.level[p])
      /\ \A r \in Priorities \ {p} : list.level[r] = queue.level[r]
  BY <1>2, <1>3, QueuePushBack
<1>5. /\ ready_queue' = [ready_queue EXCEPT ![CoreOf[t]] = list]
      /\ current_priority' = current_priority /\ nominal_priority' = nominal_priority
      /\ status'[t] = "Ready" /\ \A x \in Threads \ {t} : status'[x] = status[x]
  BY <1>1, <1>3 DEF Resumes, TypeOK
<1>6. \A r \in Priorities :
         /\ IsInjective(list.level[r])
         /\ \A x \in Threads \ {t} :
               x \in Range(list.level[r]) <=> x \in Range(ready_queue[CoreOf[t]].level[r])
         /\ t \in Range(list.level[r]) <=>
               status'[t] = "Ready" /\ current_priority'[t] = r /\ t \notin SetAside'
  <2> SUFFICES ASSUME NEW r \in Priorities
               PROVE  /\ IsInjective(list.level[r])
                      /\ \A x \in Threads \ {t} :
                            x \in Range(list.level[r]) <=> x \in Range(ready_queue[CoreOf[t]].level[r])
                      /\ t \in Range(list.level[r]) <=>
                            status'[t] = "Ready" /\ current_priority'[t] = r /\ t \notin SetAside'
    OBVIOUS
  <2>1. CASE r = p
    BY <1>1, <1>4, <1>5, <2>1
  <2>2. CASE r # p
    BY <1>1, <1>2, <1>4, <1>5, <2>2
  <2> QED
    BY <2>1, <2>2
<1>7. /\ ready_queue[CoreOf[t]].linked \subseteq list.linked
      /\ {current_priority'[t], nominal_priority'[t]} \subseteq list.linked
  BY <1>1, <1>2, <1>4, <1>5
<1>8. \A x \in Threads \ {t} : /\ status'[x] = "Ready" <=> status[x] = "Ready"
                               /\ status'[x] = "Free" <=> status[x] = "Free"
                               /\ current_priority'[x] = current_priority[x]
                               /\ nominal_priority'[x] = nominal_priority[x]
  BY <1>5
<1> QED
  BY <1>4, <1>5, <1>6, <1>7, <1>8, ThreadQueueChange

(* A thread ends.                                                          *)
LEMMA StopQueues ==
    ASSUME TypeOK, QueuesExact, \A x \in Threads : x \in SetAside' <=> x \in SetAside,
           NEW t \in Threads, t \notin SetAside, status[t] # "Free", Stops(t)
    PROVE  QueuesExact'
<1>1. PICK queue, p : queue = ready_queue[CoreOf[t]] /\ p = current_priority[t]
  OBVIOUS
<1>2. /\ queue \in Lists(Priorities, Threads) /\ p \in Priorities
      /\ {p, nominal_priority[t]} \subseteq queue.linked
      /\ \A r \in Priorities : IsInjective(queue.level[r])
      /\ \A r \in Priorities : t \in Range(queue.level[r]) <=> status[t] = "Ready" /\ p = r
  BY <1>1, QueueOf
<1>3. PICK list : list = IF status[t] = "Ready" THEN remove(queue, p, t) ELSE queue
  OBVIOUS
<1>4. /\ list \in Lists(Priorities, Threads)
      /\ list.linked = queue.linked
      /\ \A r \in Priorities : IsInjective(list.level[r])
      /\ \A r \in Priorities : Range(list.level[r]) = Range(queue.level[r]) \ {t}
  <2>1. CASE status[t] = "Ready"
    <3>1. list = remove(queue, p, t)
      BY <1>3, <2>1
    <3>2. /\ list \in Lists(Priorities, Threads)
          /\ list.linked = queue.linked
          /\ Range(list.level[p]) = Range(queue.level[p]) \ {t} /\ IsInjective(list.level[p])
          /\ \A r \in Priorities \ {p} : list.level[r] = queue.level[r]
      BY <1>2, <3>1, QueueRemove
    <3> QED
      BY <1>2, <3>2
  <2>2. CASE status[t] # "Ready"
    BY <1>2, <1>3, <2>2
  <2> QED
    BY <2>1, <2>2
<1>5. /\ ready_queue' = [ready_queue EXCEPT ![CoreOf[t]] = list]
      /\ current_priority' = current_priority /\ nominal_priority' = nominal_priority
      /\ status'[t] = "Dead" /\ \A x \in Threads \ {t} : status'[x] = status[x]
  BY <1>1, <1>3 DEF Stops, TypeOK
<1>6. \A r \in Priorities :
         /\ IsInjective(list.level[r])
         /\ \A x \in Threads \ {t} :
               x \in Range(list.level[r]) <=> x \in Range(ready_queue[CoreOf[t]].level[r])
         /\ t \in Range(list.level[r]) <=>
               status'[t] = "Ready" /\ current_priority'[t] = r /\ t \notin SetAside'
  BY <1>1, <1>4, <1>5
<1>7. /\ ready_queue[CoreOf[t]].linked \subseteq list.linked
      /\ {current_priority'[t], nominal_priority'[t]} \subseteq list.linked
  BY <1>1, <1>2, <1>4, <1>5
<1>8. \A x \in Threads \ {t} : /\ status'[x] = "Ready" <=> status[x] = "Ready"
                               /\ status'[x] = "Free" <=> status[x] = "Free"
                               /\ current_priority'[x] = current_priority[x]
                               /\ nominal_priority'[x] = nominal_priority[x]
  BY <1>5
<1> QED
  BY <1>4, <1>5, <1>6, <1>7, <1>8, ThreadQueueChange

(* No ready queue is touched.                                              *)
LEMMA KeepQueues ==
    ASSUME TypeOK, QueuesExact, UNCHANGED <<ready_queue, current_priority, nominal_priority>>,
           \A x \in Threads : /\ status'[x] = "Ready" <=> status[x] = "Ready"
                              /\ status'[x] = "Free" <=> status[x] = "Free"
                              /\ x \in SetAside' <=> x \in SetAside
    PROVE  QueuesExact'
<1>1. ASSUME NEW c \in Cores, NEW p \in Priorities
      PROVE  /\ IsInjective(ready_queue'[c].level[p])
             /\ Range(ready_queue'[c].level[p]) = ReadyAt(c, p)' \ SetAside'
  <2>1. IsInjective(ready_queue[c].level[p])
        /\ Range(ready_queue[c].level[p]) = ReadyAt(c, p) \ SetAside
    BY <1>1 DEF QueuesExact, LevelsExact
  <2>2. ReadyAt(c, p)' \ SetAside' = ReadyAt(c, p) \ SetAside
    BY DEF ReadyAt
  <2> QED
    BY <2>1, <2>2
<1>2. LevelsExact'
  BY <1>1 DEF LevelsExact
<1>3. LevelsLinked'
  BY DEF QueuesExact, LevelsLinked
<1>4. FreshPriority'
  BY DEF QueuesExact, FreshPriority
<1> QED
  BY <1>2, <1>3, <1>4 DEF QueuesExact

(* A thread is created, ready or asleep.                                   *)
LEMMA MakeQueues ==
    ASSUME TypeOK, QueuesExact, \A x \in Threads : x \in SetAside' <=> x \in SetAside,
           NEW t \in Threads, t \notin SetAside, MakeThread(t), UNCHANGED nominal_priority
    PROVE  QueuesExact'
<1>1. PICK queue, p : queue = ready_queue[CoreOf[t]] /\ p = InitialPriority[t]
  OBVIOUS
<1>2. /\ queue \in Lists(Priorities, Threads) /\ p \in Priorities
      /\ status[t] = "Free"
      /\ current_priority[t] = p /\ nominal_priority[t] = p
      /\ \A r \in Priorities : IsInjective(queue.level[r]) /\ t \notin Range(queue.level[r])
  BY <1>1, QueueOf, SyncAssumption DEF MakeThread, QueuesExact, FreshPriority
<1>3. PICK ready : ready = prepare(queue, p)
  OBVIOUS
<1>4. /\ ready \in Lists(Priorities, Threads)
      /\ ready.linked = queue.linked \cup {p}
      /\ ready.level = queue.level
  BY <1>2, <1>3, PrepareContents
<1>5. PICK list : list = push_back(ready, p, t)
  OBVIOUS
<1>6. Added(ready, p, t, list)
  <2>1. IsInjective(ready.level[p]) /\ t \notin Range(ready.level[p])
    BY <1>2, <1>4
  <2> QED
    BY <1>2, <1>4, <1>5, <2>1, QueueAdded
<1>7. /\ ready_queue' = [ready_queue EXCEPT ![CoreOf[t]] = list]
      /\ current_priority' = current_priority /\ nominal_priority' = nominal_priority
      /\ status'[t] = "Ready" /\ \A x \in Threads \ {t} : status'[x] = status[x]
  BY <1>1, <1>3, <1>5 DEF MakeThread, TypeOK
<1>8. ASSUME NEW r \in Priorities
      PROVE  /\ IsInjective(list.level[r])
             /\ \A x \in Threads \ {t} :
                   x \in Range(list.level[r]) <=> x \in Range(ready_queue[CoreOf[t]].level[r])
             /\ t \in Range(list.level[r]) <=>
                   status'[t] = "Ready" /\ current_priority'[t] = r /\ t \notin SetAside'
  <2>1. CASE r = p
    BY <1>1, <1>2, <1>4, <1>6, <1>7, <2>1 DEF Added
  <2>2. CASE r # p
    BY <1>1, <1>2, <1>4, <1>6, <1>7, <2>2 DEF Added
  <2> QED
    BY <2>1, <2>2
<1>9. /\ list \in Lists(Priorities, Threads)
      /\ ready_queue[CoreOf[t]].linked \subseteq list.linked
      /\ {current_priority'[t], nominal_priority'[t]} \subseteq list.linked
      /\ status'[t] # "Free"
  BY <1>1, <1>2, <1>4, <1>6, <1>7 DEF Added
<1>10. \A x \in Threads \ {t} : /\ status'[x] = "Ready" <=> status[x] = "Ready"
                                /\ status'[x] = "Free" <=> status[x] = "Free"
                                /\ current_priority'[x] = current_priority[x]
                                /\ nominal_priority'[x] = nominal_priority[x]
  BY <1>7
<1> QED
  BY <1>7, <1>8, <1>9, <1>10, ThreadQueueChange

LEMMA SleeperQueues ==
    ASSUME TypeOK, QueuesExact, \A x \in Threads : x \in SetAside' <=> x \in SetAside,
           NEW t \in Threads, MakeSleeper(t), UNCHANGED nominal_priority
    PROVE  QueuesExact'
<1>1. PICK queue, p : queue = ready_queue[CoreOf[t]] /\ p = InitialPriority[t]
  OBVIOUS
<1>2. /\ queue \in Lists(Priorities, Threads) /\ p \in Priorities
      /\ status[t] = "Free"
      /\ current_priority[t] = p /\ nominal_priority[t] = p
      /\ \A r \in Priorities : IsInjective(queue.level[r]) /\ t \notin Range(queue.level[r])
  BY <1>1, QueueOf, SyncAssumption DEF MakeSleeper, QueuesExact, FreshPriority
<1>3. PICK list : list = prepare(queue, p)
  OBVIOUS
<1>4. /\ list \in Lists(Priorities, Threads)
      /\ list.linked = queue.linked \cup {p}
      /\ list.level = queue.level
  BY <1>2, <1>3, PrepareContents
<1>5. /\ ready_queue' = [ready_queue EXCEPT ![CoreOf[t]] = list]
      /\ current_priority' = current_priority /\ nominal_priority' = nominal_priority
      /\ status'[t] = "WaitSleep" /\ \A x \in Threads \ {t} : status'[x] = status[x]
  BY <1>1, <1>3 DEF MakeSleeper, TypeOK
<1>6. ASSUME NEW r \in Priorities
      PROVE  /\ IsInjective(list.level[r])
             /\ \A x \in Threads \ {t} :
                   x \in Range(list.level[r]) <=> x \in Range(ready_queue[CoreOf[t]].level[r])
             /\ t \in Range(list.level[r]) <=>
                   status'[t] = "Ready" /\ current_priority'[t] = r /\ t \notin SetAside'
  BY <1>1, <1>2, <1>4, <1>5
<1>7. /\ list \in Lists(Priorities, Threads)
      /\ ready_queue[CoreOf[t]].linked \subseteq list.linked
      /\ {current_priority'[t], nominal_priority'[t]} \subseteq list.linked
      /\ status'[t] # "Free"
  BY <1>1, <1>2, <1>4, <1>5
<1>8. \A x \in Threads \ {t} : /\ status'[x] = "Ready" <=> status[x] = "Ready"
                               /\ status'[x] = "Free" <=> status[x] = "Free"
                               /\ current_priority'[x] = current_priority[x]
                               /\ nominal_priority'[x] = nominal_priority[x]
                               /\ x \in SetAside' <=> x \in SetAside
  BY <1>5
<1>9. ready_queue' = [ready_queue EXCEPT ![CoreOf[t]] = list]
  BY <1>5
<1> QED
  BY <1>6, <1>7, <1>8, <1>9, ThreadQueueChange

(* Both priorities of a thread are set.                                    *)
LEMMA SetPriorityQueues ==
    ASSUME TypeOK, QueuesExact, \A x \in Threads : x \in SetAside' <=> x \in SetAside,
           NEW c \in Cores, NEW t \in Threads, NEW x \in Threads, NEW p \in SetPriorities,
           x \notin SetAside, SetThreadPriority(c, t, x, p)
    PROVE  QueuesExact'
<1>1. PICK queue, old : queue = ready_queue[CoreOf[x]] /\ old = current_priority[x]
  OBVIOUS
<1>2. PICK best : best = Min({p} \cup {mutex_priority[m] : m \in held_mutexes[x]})
  OBVIOUS
<1>3. /\ queue \in Lists(Priorities, Threads) /\ old \in Priorities
      /\ \A r \in Priorities : IsInjective(queue.level[r])
      /\ \A r \in Priorities : x \in Range(queue.level[r]) <=> status[x] = "Ready" /\ old = r
  BY <1>1, QueueOf
<1>4. p \in Priorities /\ best \in Priorities
  <2>1. p \in Priorities
    BY SyncAssumption
  <2>2. {p} \cup {mutex_priority[m] : m \in held_mutexes[x]} \subseteq Priorities
    BY <2>1 DEF TypeOK
  <2> QED
    BY <1>2, <2>1, <2>2, MinPriority
<1>5. PICK list : list = IF status[x] = "Ready" THEN move(move(queue, x, old, p), x, p, best)
                                                ELSE prepare(prepare(queue, p), best)
  OBVIOUS
<1>6. /\ list \in Lists(Priorities, Threads)
      /\ list.linked = queue.linked \cup {p, best}
      /\ \A r \in Priorities :
            /\ IsInjective(list.level[r])
            /\ \A y \in Threads \ {x} : y \in Range(list.level[r]) <=> y \in Range(queue.level[r])
            /\ x \in Range(list.level[r]) <=> status[x] = "Ready" /\ best = r
  <2>1. CASE status[x] = "Ready"
    <3>1. OnlyOn(queue, old, x)
      BY <1>3 DEF OnlyOn
    <3>2. PICK moved : moved = move(queue, x, old, p)
      OBVIOUS
    <3>3. /\ moved \in Lists(Priorities, Threads)
          /\ moved.linked = queue.linked \cup {p}
          /\ \A r \in Priorities :
                /\ IsInjective(moved.level[r])
                /\ \A y \in Threads \ {x} :
                      y \in Range(moved.level[r]) <=> y \in Range(queue.level[r])
                /\ x \in Range(moved.level[r]) <=> r = p
      BY <1>3, <1>4, <3>1, <3>2, QueueMove
    <3>4. OnlyOn(moved, p, x)
      BY <3>3 DEF OnlyOn
    <3>5. list = move(moved, x, p, best)
      BY <1>5, <2>1, <3>2
    <3>6. /\ list \in Lists(Priorities, Threads)
          /\ list.linked = moved.linked \cup {best}
          /\ \A r \in Priorities :
                /\ IsInjective(list.level[r])
                /\ \A y \in Threads \ {x} :
                      y \in Range(list.level[r]) <=> y \in Range(moved.level[r])
                /\ x \in Range(list.level[r]) <=> r = best
      BY <1>4, <3>3, <3>4, <3>5, QueueMove
    <3> QED
      BY <2>1, <3>3, <3>6
  <2>2. CASE status[x] # "Ready"
    <3>1. PICK ready : ready = prepare(queue, p)
      OBVIOUS
    <3>2. /\ ready \in Lists(Priorities, Threads) /\ ready.linked = queue.linked \cup {p}
          /\ ready.level = queue.level
      BY <1>3, <1>4, <3>1, PrepareContents
    <3>3. list = prepare(ready, best)
      BY <1>5, <2>2, <3>1
    <3>4. /\ list \in Lists(Priorities, Threads) /\ list.linked = ready.linked \cup {best}
          /\ list.level = ready.level
      BY <1>4, <3>2, <3>3, PrepareContents
    <3> QED
      BY <1>3, <2>2, <3>2, <3>4
  <2> QED
    BY <2>1, <2>2
<1>7. /\ status' = status /\ status[x] # "Free"
      /\ ready_queue' = [ready_queue EXCEPT ![CoreOf[x]] = list]
      /\ current_priority'[x] = best /\ nominal_priority'[x] = p
      /\ \A y \in Threads \ {x} : /\ current_priority'[y] = current_priority[y]
                                  /\ nominal_priority'[y] = nominal_priority[y]
  BY <1>1, <1>2, <1>5 DEF SetThreadPriority, TypeOK
<1>8. \A r \in Priorities :
         /\ IsInjective(list.level[r])
         /\ \A y \in Threads \ {x} :
               y \in Range(list.level[r]) <=> y \in Range(ready_queue[CoreOf[x]].level[r])
         /\ x \in Range(list.level[r]) <=>
               status'[x] = "Ready" /\ current_priority'[x] = r /\ x \notin SetAside'
  BY <1>1, <1>6, <1>7
<1>9. /\ ready_queue[CoreOf[x]].linked \subseteq list.linked
      /\ {current_priority'[x], nominal_priority'[x]} \subseteq list.linked
      /\ status'[x] # "Free"
  BY <1>1, <1>6, <1>7
<1> QED
  BY <1>6, <1>7, <1>8, <1>9, ThreadQueueChange

(***************************************************************************)
(* The steps outside the scheduler.                                        *)
(***************************************************************************)
LEMMA NothingAside ==
    ASSUME TypeOK, PicksOwn, work = <<>> \/ top.op \notin {"PopNext", "Requeue"},
           \A f \in Stacked : f.op \notin {"Requeue", "SwitchContext"}
    PROVE  unscheduled_ready_queue = <<>> /\ SetAside = {}
<1>1. unscheduled_ready_queue = <<>>
  BY DEF PicksOwn
<1>2. Picked = {}
  BY DEF Picked
<1> QED
  BY <1>1, <1>2, RangeOfNothing DEF SetAside

LEMMA NonScheduling ==
    ASSUME TypeOK, Nested(work), CoreInv, OtherStep \/ Entry
    PROVE  /\ unscheduled_ready_queue = <<>> /\ unscheduled_ready_queue' = <<>>
           /\ SetAside = {} /\ SetAside' = {}
           /\ \A f \in Stacked' : f.op \notin SchedulingOps
<1>1. /\ \A f \in Stacked : f.op \notin SchedulingOps
      /\ \A f \in Stacked' : f.op \notin SchedulingOps
      /\ unscheduled_ready_queue' = unscheduled_ready_queue
  BY OtherKernelStack, EntryStack, OtherStepCores, EntryCores DEF OtherStep
<1>2. work = <<>> \/ top.op \notin {"PopNext", "Requeue"}
  <2>1. CASE OtherStep
    BY <2>1 DEF OtherStep, SchedulingOps
  <2>2. CASE Entry
    BY <2>2, EntryStack DEF Quiet
  <2> QED
    BY <2>1, <2>2
<1>3. unscheduled_ready_queue = <<>> /\ SetAside = {}
  BY <1>1, <1>2, NothingAside DEF CoreInv, SchedulingOps
<1>4. Picked' = {}
  BY <1>1 DEF Picked, SchedulingOps
<1>5. Range(unscheduled_ready_queue') = {}
  BY <1>1, <1>3, RangeOfNothing
<1> QED
  BY <1>1, <1>3, <1>4, <1>5 DEF SetAside

LEMMA BoostedCreated ==
    ASSUME TypeOK, LockInv, NEW t \in Threads, NEW p, Boosts(t, p)
    PROVE  status[t] # "Free"
<1>1. CASE \E m \in Mutexes : holding_thread[m] = t
  <2>1. Held(t) # {}
    BY <1>1 DEF Held
  <2>2. CASE Releasing(t)
    BY <2>2 DEF LockInv, Releasing
  <2>3. CASE ~Releasing(t)
    BY <2>1, <2>3 DEF LockInv, Alive
  <2> QED
    BY <2>2, <2>3
<1>2. CASE \E f \in Stacked : f.op = "Acquire" /\ f.thread = t
  BY <1>2 DEF LockInv, Alive
<1> QED
  BY <1>1, <1>2 DEF Boosts

LEMMA QueuesOther ==
    ASSUME TypeOK, Nested(work), CoreInv, CreatedInv, LockInv, QueuesExact, OtherStep \/ Entry
    PROVE  QueuesExact'
<1>1. SetAside = {} /\ SetAside' = {}
  BY NonScheduling
<1>2. \A x \in Threads : x \in SetAside' <=> x \in SetAside
  BY <1>1
<1>3. ASSUME UNCHANGED <<status, nominal_priority, prioVars>>
      PROVE  QueuesExact'
  BY <1>2, <1>3, KeepQueues
<1>4. ASSUME NEW t \in Threads, NEW p \in Priorities, Boosts(t, p)
      PROVE  QueuesExact'
  BY <1>1, <1>2, <1>4, BoostedCreated, BoostQueues DEF Boosts
<1>5. ASSUME NEW t \in Threads, Resumes(t)
      PROVE  QueuesExact'
  BY <1>1, <1>2, <1>5, ResumeQueues
<1>6. ASSUME NEW t \in Threads, Stops(t)
      PROVE  QueuesExact'
  <2>1. status[t] # "Free"
    BY <1>6 DEF CreatedInv, Stops, Stop
  <2> QED
    BY <1>1, <1>2, <1>6, <2>1, StopQueues
<1>7. ASSUME NEW c \in Cores, NEW t \in Threads, NEW s \in WaitingStatus, FallsAsleep(c, t, s)
      PROVE  QueuesExact'
  <2>1. status[t] = "Running" /\ status' = [status EXCEPT ![t] = s]
        /\ UNCHANGED <<ready_queue, current_priority, nominal_priority>>
    BY <1>7, CallerRuns DEF FallsAsleep, CoreInv
  <2>2. s \notin {"Ready", "Free"}
    BY DEF WaitingStatus, WaitingOnObjects
  <2>3. \A x \in Threads : /\ status'[x] = "Ready" <=> status[x] = "Ready"
                           /\ status'[x] = "Free" <=> status[x] = "Free"
    BY <2>1, <2>2 DEF TypeOK
  <2> QED
    BY <1>2, <2>1, <2>3, KeepQueues
<1>8. ASSUME NEW t \in Threads, MakeThread(t)
      PROVE  QueuesExact'
  <2>1. UNCHANGED nominal_priority
    BY <1>8 DEF MakeThread
  <2> QED
    BY <1>1, <1>2, <1>8, <2>1, MakeQueues
<1>9. ASSUME NEW c \in Cores, NEW t \in Threads, NEW x \in Threads, NEW p \in SetPriorities,
             SetThreadPriority(c, t, x, p)
      PROVE  QueuesExact'
  BY <1>1, <1>2, <1>9, SetPriorityQueues
<1>10. ASSUME NEW t \in Threads, MakeSleeper(t)
       PROVE  QueuesExact'
  <2>1. UNCHANGED nominal_priority
    BY <1>10 DEF MakeSleeper
  <2> QED
    BY <1>1, <1>2, <1>10, <2>1, SleeperQueues
<1> QED
  BY <1>3, <1>4, <1>5, <1>6, <1>7, <1>8, <1>9, <1>10, OtherStepThreads, EntryThreads

LEMMA ReadyPicksOther ==
    ASSUME TypeOK, Nested(work), CoreInv, OtherStep \/ Entry
    PROVE  ReadyPicks'
<1>1. unscheduled_ready_queue' = <<>> /\ \A f \in Stacked' : f.op \notin SchedulingOps
  BY NonScheduling
<1>2. IsInjective(<<>>)
  BY DEF IsInjective
<1>3. Range(unscheduled_ready_queue') = {}
  BY <1>1, RangeOfNothing
<1> QED
  BY <1>1, <1>2, <1>3 DEF ReadyPicks, SchedulingOps

(***************************************************************************)
(* The steps of the scheduler.                                             *)
(***************************************************************************)
LEMMA RescheduleQueues ==
    ASSUME TypeOK, Nested(work), CoreInv, QueuesExact, NEW c \in Cores, Reschedule(c)
    PROVE  QueuesExact' /\ ReadyPicks'
<1>1. Stacked = {} /\ work = <<>>
  BY QuietStack DEF Reschedule, Quiet
<1>2. unscheduled_ready_queue = <<>> /\ SetAside = {}
  BY <1>1, NothingAside DEF CoreInv
<1>3. PICK starved \in SUBSET {t \in thread_list : CoreOf[t] = c /\ status[t] = "Ready"} :
         Stacked' = {BoostStarved(c, starved), PopNext(c)}
  BY RescheduleStack
<1>4. /\ status' = status /\ current_priority' = current_priority /\ ready_queue' = ready_queue
      /\ nominal_priority' = nominal_priority
      /\ unscheduled_ready_queue' = unscheduled_ready_queue
  BY DEF Reschedule
<1>5. /\ \A f \in Stacked' : f.op \notin {"Requeue", "SwitchContext"}
      /\ \A f \in Stacked' : f.op = "BoostStarved" =>
            \A t \in f.threads : status'[t] = "Ready" /\ CoreOf[t] = f.core
  BY <1>3, <1>4 DEF BoostStarved, PopNext
<1>6. SetAside' = {}
  BY <1>2, <1>4, <1>5, RangeOfNothing DEF SetAside, Picked
<1>7. QueuesExact'
  BY <1>2, <1>4, <1>6, KeepQueues
<1>8. IsInjective(<<>>)
  BY DEF IsInjective
<1>9. ReadyPicks'
  BY <1>2, <1>4, <1>5, <1>8, RangeOfNothing DEF ReadyPicks
<1> QED
  BY <1>7, <1>9

LEMMA BoostStarvedQueues ==
    ASSUME TypeOK, Nested(work), CoreInv, QueuesExact, ReadyPicks, BoostStarvedStep,
           fault' = NoFault
    PROVE  QueuesExact' /\ ReadyPicks'
<1>1. /\ work # <<>> /\ top.op = "BoostStarved" /\ top \in Frames
      /\ Stacked = {top} \cup Under
  <2>1. work # <<>> /\ top.op = "BoostStarved"
    BY DEF BoostStarvedStep, Runs, top
  <2> QED
    BY <2>1, Innermost
<1>2. top.core \in Cores /\ top.threads \in SUBSET Threads
  BY <1>1, FrameFields
<1>3. \A f \in Under : f.op = "PopNext"
  BY BoostStarvedStack
<1>4. unscheduled_ready_queue = <<>> /\ SetAside = {}
  BY <1>1, <1>3, NothingAside DEF CoreInv
<1>5. /\ status' = status /\ nominal_priority' = nominal_priority
      /\ unscheduled_ready_queue' = unscheduled_ready_queue
  BY DEF BoostStarvedStep, NoFault, Fail
<1>6. IsInjective(<<>>)
  BY DEF IsInjective
<1>7. CASE top.threads = {}
  <2>1. Stacked' = Under /\ UNCHANGED prioVars
    BY <1>7, BoostStarvedStack
  <2>2. SetAside' = {}
    BY <1>3, <1>4, <1>5, <2>1, RangeOfNothing DEF SetAside, Picked
  <2>3. QueuesExact'
    BY <1>4, <1>5, <2>1, <2>2, KeepQueues
  <2> QED
    BY <1>3, <1>4, <1>5, <1>6, <2>1, <2>3, RangeOfNothing DEF ReadyPicks
<1>8. CASE top.threads # {}
  <2>1. PICK first : first = get_first(ready_queue[top.core])
    OBVIOUS
  <2>2. PICK t \in top.threads :
           /\ first # NoThread
           /\ BoostPriority(t, Max({current_priority[first], BoostFloor}))
           /\ Stacked' = {BoostStarved(top.core, top.threads \ {t})} \cup Under
    BY <1>8, <2>1, BoostStarvedStack
  <2>3. PICK p : p = Max({current_priority[first], BoostFloor})
    OBVIOUS
  <2>4. p \in Priorities
    <3>1. first \in Threads
      BY <1>2, <2>1, <2>2, FirstType
    <3>2. current_priority[first] \in Priorities /\ BoostFloor \in Priorities
      BY <3>1, CoreAssumption DEF TypeOK
    <3>3. p = current_priority[first] \/ p = BoostFloor
      BY <2>3, <3>2, MaxPair DEF Priorities
    <3> QED
      BY <3>2, <3>3
  <2>5. SetAside' = {}
    BY <1>3, <1>4, <1>5, <2>2, RangeOfNothing DEF SetAside, Picked, BoostStarved
  <2>6. t \in Threads /\ status[t] = "Ready" /\ \A x \in top.threads : CoreOf[x] = top.core
        /\ status[x] = "Ready"
    BY <1>1, <1>2 DEF ReadyPicks
  <2>7. QueuesExact'
    BY <1>4, <1>5, <2>2, <2>3, <2>4, <2>5, <2>6, BoostQueues
  <2>8. \A f \in Stacked' : /\ f.op \notin {"Requeue", "SwitchContext"}
                            /\ f.op = "BoostStarved" =>
                                  \A x \in f.threads : status'[x] = "Ready" /\ CoreOf[x] = f.core
    BY <1>3, <1>5, <2>2, <2>6 DEF BoostStarved
  <2> QED
    BY <1>4, <1>5, <1>6, <2>7, <2>8, RangeOfNothing DEF ReadyPicks
<1> QED
  BY <1>7, <1>8

LEMMA PriorityOrder ==
    \A a, b, d \in Priorities :
       /\ a < b \/ b <= a
       /\ a <= a
       /\ a < b => a <= b
       /\ a < b /\ b <= d => a <= d
       /\ a <= b /\ b <= d => a <= d
       /\ a <= b /\ b < d => a < d
BY CoreAssumption DEF Priorities

LEMMA QueuePop ==
    ASSUME NEW list \in Lists(Priorities, Threads),
           NEW levels, levels \subseteq Occupied(list), levels # {}
    PROVE  \E p \in Priorities, e \in Threads :
              /\ p \in levels /\ \A l \in levels : p <= l
              /\ e = front(list, levels) /\ e \in Range(list.level[p])
              /\ IsInjective(list.level[p]) => Removed(list, p, e, pop(list, levels))
<1>1. Priorities \subseteq Nat
  BY CoreAssumption DEF Priorities
<1>2. LET p == Min(levels)
          e == front(list, levels)
      IN  /\ p \in levels /\ p \in Priorities
          /\ \A l \in levels : p <= l
          /\ e \in Range(list.level[p])
          /\ pop(list, levels).linked = list.linked
          /\ IsInjective(list.level[p]) =>
                /\ IsInjective(pop(list, levels).level[p])
                /\ Range(pop(list, levels).level[p]) = Range(list.level[p]) \ {e}
          /\ \A r \in Priorities \ {p} : pop(list, levels).level[r] = list.level[r]
  BY <1>1, PopContents
<1>3. PICK p, e, new : p = Min(levels) /\ e = front(list, levels) /\ new = pop(list, levels)
  OBVIOUS
<1>4. new \in Lists(Priorities, Threads) /\ p \in Priorities /\ e \in Threads
  <2>1. new \in Lists(Priorities, Threads)
    BY <1>1, <1>3, PopType
  <2>2. p \in Priorities /\ e \in Range(list.level[p])
    BY <1>2, <1>3
  <2>3. e \in Threads
    BY <2>2, LevelRange
  <2> QED
    BY <2>1, <2>2, <2>3
<1>5. IsInjective(list.level[p]) => Removed(list, p, e, new)
  BY <1>2, <1>3, <1>4 DEF Removed
<1> QED
  BY <1>2, <1>3, <1>4, <1>5

(* The ready threads of core c that Reschedule has not set aside, which it *)
(* finds on the queue.                                                     *)
Waiting(c) == {t \in Threads : status[t] = "Ready" /\ CoreOf[t] = c /\ t \notin SetAside}

LEMMA OnQueue ==
    ASSUME TypeOK, QueuesExact, NEW c \in Cores, NEW t \in Waiting(c)
    PROVE  current_priority[t] \in Occupied(ready_queue[c])
<1>1. t \in Threads /\ status[t] = "Ready" /\ CoreOf[t] = c /\ t \notin SetAside
  BY DEF Waiting
<1>2. current_priority[t] \in Priorities /\ ready_queue[c] \in Lists(Priorities, Threads)
  BY <1>1 DEF TypeOK
<1>3. t \in Range(ready_queue[c].level[current_priority[t]])
  BY <1>1, <1>2, OnLevel DEF QueuesExact
<1>4. ready_queue[c].level[current_priority[t]] # <<>>
  BY <1>3, RangeOfNothing
<1>5. current_priority[t] \in ready_queue[c].linked
  BY <1>1 DEF QueuesExact, LevelsLinked
<1> QED
  BY <1>4, <1>5 DEF Occupied

(* What PopNextReadyThread does: it leaves the queue alone if nothing is   *)
(* better than what the core runs, or takes the best thread off it.        *)
NothingBetter(c) ==
    /\ ready_queue' = ready_queue
    /\ \A t \in Waiting(c) :
          /\ IsRunning(current_thread[c])
          /\ current_priority[current_thread[c]] <= current_priority[t]
    /\ Stacked' = {Requeue(c, IF IsRunning(current_thread[c]) THEN current_thread[c] ELSE NoThread)}
    /\ UNCHANGED unscheduled_ready_queue

TakesBest(c, next) ==
    /\ next \in Waiting(c)
    /\ \A t \in Waiting(c) : current_priority[next] <= current_priority[t]
    /\ IsRunning(current_thread[c]) =>
          current_priority[next] < current_priority[current_thread[c]]
    /\ \E list \in Lists(Priorities, Threads) :
          /\ Removed(ready_queue[c], current_priority[next], next, list)
          /\ ready_queue' = [ready_queue EXCEPT ![c] = list]
    /\ IF can_schedule[next]
       THEN Stacked' = {Requeue(c, next)} /\ UNCHANGED unscheduled_ready_queue
       ELSE /\ Stacked' = Stacked
            /\ unscheduled_ready_queue' = Append(unscheduled_ready_queue, next)

LEMMA PopNextCases ==
    ASSUME TypeOK, Nested(work), CoreInv, QueuesExact, PopNextStep, fault' = NoFault
    PROVE  \E c \in Cores :
              /\ Stacked = {PopNext(c)} /\ top.core = c
              /\ NothingBetter(c) \/ \E next \in Threads : TakesBest(c, next)
<1>1. /\ work # <<>> /\ top.op = "PopNext"
  BY DEF PopNextStep, Runs, top
<1>2. top \in Frames /\ Stacked = {top} /\ top.core \in Cores /\ top = PopNext(top.core)
  <2>1. top \in Frames /\ Stacked = {top}
    BY <1>1, Innermost, PopNextStack
  <2>2. top \in [op : {"PopNext"}, core : Cores]
    BY <1>1, <2>1 DEF Frames
  <2> QED
    BY <2>1, <2>2 DEF PopNext
<1>3. PICK c \in Cores : c = top.core
  BY <1>2
<1>4. PICK old, queue : old = current_thread[c] /\ queue = ready_queue[c]
  OBVIOUS
<1>5. PICK levels : levels = IF IsRunning(old) THEN OccupiedBelow(queue, current_priority[old])
                                               ELSE Occupied(queue)
  OBVIOUS
<1>6. PICK next : next = front(queue, levels)
  OBVIOUS
<1>7. PICK n : n = IF next = NoThread /\ IsRunning(old) THEN old ELSE next
  OBVIOUS
<1>8. /\ ready_queue' = [ready_queue EXCEPT ![c] = pop(queue, levels)]
      /\ levels \subseteq Occupied(queue)
      /\ IF next # NoThread /\ ~can_schedule[next]
         THEN /\ unscheduled_ready_queue' = Append(unscheduled_ready_queue, next)
              /\ work' = work /\ Stacked' = Stacked
         ELSE /\ work' = <<Requeue(c, n)>> /\ Stacked' = {Requeue(c, n)}
              /\ UNCHANGED unscheduled_ready_queue
  BY <1>3, <1>4, <1>5, <1>6, <1>7, PopNextStack
<1>9. /\ queue \in Lists(Priorities, Threads) /\ old \in Threads \cup {NoThread}
      /\ ready_queue \in [Cores -> Lists(Priorities, Threads)]
      /\ current_priority \in [Threads -> Priorities] /\ Priorities \subseteq Int
  BY <1>4, CoreAssumption DEF TypeOK, Priorities
<1>10. ASSUME NEW t \in Waiting(c), NEW p \in Priorities, p = current_priority[t]
       PROVE  /\ p \in Occupied(queue)
              /\ IsRunning(old) => p \in levels \/ current_priority[old] <= p
              /\ ~IsRunning(old) => p \in levels
  <2>1. p \in Occupied(queue)
    BY <1>4, <1>10, OnQueue
  <2>2. IsRunning(old) => current_priority[old] \in Priorities
    BY <1>9 DEF IsRunning
  <2> QED
    BY <1>5, <2>1, <2>2, PriorityOrder DEF OccupiedBelow
<1>11. \A t \in Waiting(c) : current_priority[t] \in Priorities
  BY <1>9 DEF Waiting
<1>12. CASE levels = {}
  <2>1. next = NoThread /\ pop(queue, levels) = queue
    BY <1>6, <1>12 DEF front, pop
  <2>2. ready_queue' = ready_queue
    BY <1>4, <1>8, <1>9, <2>1
  <2>3. \A t \in Waiting(c) : IsRunning(old) /\ current_priority[old] <= current_priority[t]
    BY <1>10, <1>11, <1>12
  <2>4. n = IF IsRunning(old) THEN old ELSE NoThread
    BY <1>7, <2>1
  <2>5. NothingBetter(c)
    BY <1>4, <1>8, <2>1, <2>2, <2>3, <2>4 DEF NothingBetter
  <2> QED
    BY <1>2, <1>3, <2>5
<1>13. CASE levels # {}
  <2>1. ASSUME NEW r \in Priorities
        PROVE  IsInjective(queue.level[r])
    BY <1>4, OnLevel DEF QueuesExact
  <2>2. PICK p \in Priorities, e \in Threads :
           /\ p \in levels /\ \A l \in levels : p <= l
           /\ e = front(queue, levels) /\ e \in Range(queue.level[p])
           /\ Removed(queue, p, e, pop(queue, levels))
    BY <1>8, <1>9, <1>13, <2>1, QueuePop
  <2>3. next \in Threads /\ next # NoThread /\ n = next /\ next = e
    BY <1>6, <1>7, <2>2, CoreAssumption
  <2>4. /\ status[next] = "Ready" /\ CoreOf[next] = c /\ current_priority[next] = p
        /\ next \notin SetAside
    BY <1>4, <2>2, <2>3, OnLevel DEF QueuesExact
  <2>5. next \in Waiting(c)
    BY <2>3, <2>4 DEF Waiting
  <2>6. IsRunning(old) => p < current_priority[old]
    BY <1>5, <2>2 DEF OccupiedBelow
  <2>7. ASSUME NEW t \in Waiting(c)
        PROVE  p <= current_priority[t]
    <3>1. PICK q \in Priorities : q = current_priority[t]
      BY <1>11
    <3>2. CASE q \in levels
      BY <2>2, <3>1, <3>2
    <3>3. CASE q \notin levels
      <4>1. IsRunning(old) /\ current_priority[old] <= q
        BY <1>10, <3>1, <3>3
      <4>2. current_priority[old] \in Priorities
        BY <1>9, <4>1 DEF IsRunning
      <4> QED
        BY <2>6, <3>1, <4>1, <4>2, PriorityOrder
    <3> QED
      BY <3>2, <3>3
  <2>8. pop(queue, levels) \in Lists(Priorities, Threads)
    BY <2>2 DEF Removed
  <2>9. TakesBest(c, next)
    BY <1>4, <1>8, <2>2, <2>3, <2>4, <2>5, <2>6, <2>7, <2>8 DEF TakesBest
  <2> QED
    BY <1>2, <1>3, <2>3, <2>9
<1> QED
  BY <1>12, <1>13

LEMMA PickOfRequeue ==
    ASSUME NEW c, NEW n, Stacked' = {Requeue(c, n)}
    PROVE  Picked' = {n}
<1>1. Requeue(c, n).op = "Requeue" /\ Requeue(c, n).next = n
  BY DEF Requeue
<1>2. {g \in Stacked' : g.op \in {"Requeue", "SwitchContext"}} = {Requeue(c, n)}
  BY <1>1
<1>3. Picked' = {f.next : f \in {Requeue(c, n)}}
  BY <1>2 DEF Picked
<1> QED
  BY <1>1, <1>3

LEMMA PopNextUnchanged ==
    ASSUME PopNextStep, fault' = NoFault
    PROVE  /\ status' = status /\ current_priority' = current_priority
           /\ nominal_priority' = nominal_priority /\ can_schedule' = can_schedule
           /\ current_thread' = current_thread
BY DEF PopNextStep, NoFault, Fail

LEMMA PopNextQueues ==
    ASSUME TypeOK, Nested(work), CoreInv, CreatedInv, QueuesExact, ReadyPicks, PopNextStep,
           fault' = NoFault
    PROVE  QueuesExact' /\ ReadyPicks'
<1>1. PICK c \in Cores : /\ Stacked = {PopNext(c)} /\ top.core = c
                         /\ NothingBetter(c) \/ \E next \in Threads : TakesBest(c, next)
  BY PopNextCases
<1>2. /\ status' = status /\ current_priority' = current_priority
      /\ nominal_priority' = nominal_priority /\ can_schedule' = can_schedule
      /\ current_thread' = current_thread
  BY PopNextUnchanged
<1>3. \A f \in Stacked : f.op = "PopNext"
  BY <1>1 DEF PopNext
<1>4. SetAside = Range(unscheduled_ready_queue)
  BY <1>3 DEF SetAside, Picked
<1>5. PICK old : old = current_thread[c]
  OBVIOUS
<1>6. old \in Threads \cup {NoThread} /\ unscheduled_ready_queue \in Seq(Threads)
      /\ (old # NoThread => CoreOf[old] = c)
  BY <1>5 DEF TypeOK, CoreInv, CurrentOwn
<1>7. CASE NothingBetter(c)
  <2>1. PICK n : n = IF IsRunning(old) THEN old ELSE NoThread
    OBVIOUS
  <2>2. /\ ready_queue' = ready_queue /\ Stacked' = {Requeue(c, n)}
        /\ unscheduled_ready_queue' = unscheduled_ready_queue
    BY <1>5, <1>7, <2>1 DEF NothingBetter
  <2>3. SetAside' = Range(unscheduled_ready_queue) \cup {n}
    BY <2>2, PickOfRequeue DEF SetAside
  <2>4. n # NoThread => n \in Threads /\ status[n] = "Running" /\ n = old
    BY <1>6, <2>1 DEF IsRunning
  <2>5. ASSUME NEW d \in Cores, NEW p \in Priorities
        PROVE  ReadyAt(d, p)' \ SetAside' = ReadyAt(d, p) \ SetAside
    BY <1>2, <1>4, <2>3, <2>4, CoreAssumption DEF ReadyAt
  <2>6. LevelsExact'
    BY <2>2, <2>5 DEF QueuesExact, LevelsExact
  <2>7. LevelsLinked' /\ FreshPriority'
    BY <1>2, <2>2 DEF QueuesExact, LevelsLinked, FreshPriority
  <2>8. /\ \A f \in Stacked' : f.op = "Requeue" /\ f.core = c /\ f.next = n
        /\ n # NoThread => status'[n] = "Running" /\ n = current_thread'[c]
    BY <1>2, <1>5, <2>2, <2>4 DEF Requeue
  <2>9. ReadyPicks'
    BY <1>2, <2>2, <2>8 DEF ReadyPicks
  <2> QED
    BY <2>6, <2>7, <2>9 DEF QueuesExact
<1>8. ASSUME NEW next \in Threads, TakesBest(c, next)
      PROVE  QueuesExact' /\ ReadyPicks'
  <2>1. /\ status[next] = "Ready" /\ CoreOf[next] = c /\ next \notin SetAside
        /\ next \notin Range(unscheduled_ready_queue)
    BY <1>4, <1>8 DEF TakesBest, Waiting
  <2>2. PICK list \in Lists(Priorities, Threads) :
           /\ Removed(ready_queue[c], current_priority[next], next, list)
           /\ ready_queue' = [ready_queue EXCEPT ![c] = list]
    BY <1>8 DEF TakesBest
  <2>3. SetAside' = SetAside \cup {next}
    <3>1. CASE can_schedule[next]
      <4>1. Stacked' = {Requeue(c, next)} /\ unscheduled_ready_queue' = unscheduled_ready_queue
        BY <1>8, <3>1 DEF TakesBest
      <4> QED
        BY <1>4, <4>1, PickOfRequeue DEF SetAside
    <3>2. CASE ~can_schedule[next]
      <4>1. Stacked' = Stacked
            /\ unscheduled_ready_queue' = Append(unscheduled_ready_queue, next)
        BY <1>8, <3>2 DEF TakesBest
      <4>2. Range(unscheduled_ready_queue') = Range(unscheduled_ready_queue) \cup {next}
        BY <1>6, <4>1, RangeAppend
      <4>3. Picked' = {}
        BY <1>3, <4>1 DEF Picked
      <4> QED
        BY <1>4, <4>2, <4>3 DEF SetAside
    <3> QED
      BY <3>1, <3>2
  <2>4. \A r \in Priorities :
           /\ IsInjective(ready_queue[c].level[r])
           /\ next \in Range(ready_queue[c].level[r]) <=> current_priority[next] = r
    BY <2>1, OnLevel DEF QueuesExact
  <2>5. current_priority[next] \in Priorities
    BY DEF TypeOK
  <2>6. PICK p, queue : p = current_priority[next] /\ queue = ready_queue[c]
    OBVIOUS
  <2>7. ASSUME NEW r \in Priorities
        PROVE  /\ IsInjective(list.level[r])
               /\ \A x \in Threads \ {next} :
                     x \in Range(list.level[r]) <=> x \in Range(queue.level[r])
               /\ next \notin Range(list.level[r])
    <3>1. CASE r = p
      BY <2>2, <2>4, <2>6, <3>1 DEF Removed
    <3>2. CASE r # p
      BY <2>2, <2>4, <2>6, <3>2 DEF Removed
    <3> QED
      BY <3>1, <3>2
  <2>8. QueuesExact'
    <3>1. list.linked = queue.linked
          /\ {current_priority[next], nominal_priority[next]} \subseteq queue.linked
      BY <2>1, <2>2, <2>6 DEF Removed, QueuesExact, LevelsLinked
    <3>2. \A x \in Threads \ {next} : x \in SetAside' <=> x \in SetAside
      BY <2>3
    <3>3. next \in SetAside' /\ status'[next] # "Free"
      BY <1>2, <2>1, <2>3
    <3>4. ready_queue' = [ready_queue EXCEPT ![CoreOf[next]] = list] /\ queue = ready_queue[CoreOf[next]]
      BY <2>1, <2>2, <2>6
    <3> QED
      BY <1>2, <2>2, <2>7, <3>1, <3>2, <3>3, <3>4, ThreadQueueChange
  <2>9. ReadyPicks'
    <3>1. CASE can_schedule[next]
      <4>1. Stacked' = {Requeue(c, next)} /\ unscheduled_ready_queue' = unscheduled_ready_queue
        BY <1>8, <3>1 DEF TakesBest
      <4>2. \A f \in Stacked' : f.op = "Requeue" /\ f.next = next
        BY <4>1 DEF Requeue
      <4> QED
        BY <1>2, <2>1, <4>1, <4>2 DEF ReadyPicks
    <3>2. CASE ~can_schedule[next]
      <4>1. Stacked' = Stacked
            /\ unscheduled_ready_queue' = Append(unscheduled_ready_queue, next)
        BY <1>8, <3>2 DEF TakesBest
      <4>2. /\ Range(unscheduled_ready_queue') = Range(unscheduled_ready_queue) \cup {next}
            /\ IsInjective(unscheduled_ready_queue')
        BY <1>6, <2>1, <4>1, RangeAppend DEF ReadyPicks
      <4> QED
        BY <1>2, <1>3, <2>1, <3>2, <4>1, <4>2 DEF ReadyPicks
    <3> QED
      BY <3>1, <3>2
  <2> QED
    BY <2>8, <2>9
<1> QED
  BY <1>1, <1>7, <1>8

LEMMA RangeFront ==
    ASSUME NEW s \in Seq(Threads), s # <<>>
    PROVE  /\ Front(s) \in Seq(Threads) /\ Last(s) \in Threads
           /\ Range(s) = Range(Front(s)) \cup {Last(s)}
           /\ IsInjective(s) => IsInjective(Front(s)) /\ Last(s) \notin Range(Front(s))
<1>1. Len(s) \in Nat \ {0} /\ DOMAIN s = 1..Len(s) /\ \A i \in 1..Len(s) : s[i] \in Threads
  BY EmptySeq, LenProperties
<1>2. /\ Front(s) \in Seq(Threads)
      /\ Len(Front(s)) = Len(s) - 1
      /\ DOMAIN Front(s) = 1..(Len(s) - 1)
      /\ \A i \in 1..(Len(s) - 1) : Front(s)[i] = s[i]
  BY <1>1 DEF Front
<1>3. /\ Range(s) = {s[i] : i \in 1..Len(s)}
      /\ Range(Front(s)) = {s[i] : i \in 1..(Len(s) - 1)}
  BY <1>1, <1>2 DEF Range
<1>4. Last(s) = s[Len(s)]
  BY DEF Last
<1>5. 1..Len(s) = 1..(Len(s) - 1) \cup {Len(s)} /\ Len(s) \notin 1..(Len(s) - 1)
  BY <1>1
<1>6. ASSUME IsInjective(s)
      PROVE  IsInjective(Front(s)) /\ Last(s) \notin Range(Front(s))
  <2>1. \A i, j \in 1..Len(s) : s[i] = s[j] => i = j
    BY <1>1, <1>6 DEF IsInjective
  <2>2. IsInjective(Front(s))
    BY <1>2, <1>5, <2>1 DEF IsInjective
  <2>3. Last(s) \notin Range(Front(s))
    BY <1>3, <1>4, <1>5, <2>1
  <2> QED
    BY <2>2, <2>3
<1> QED
  BY <1>1, <1>2, <1>3, <1>4, <1>5, <1>6

LEMMA RequeueQueues ==
    ASSUME TypeOK, Nested(work), CoreInv, CreatedInv, QueuesExact, ReadyPicks, RequeueStep
    PROVE  QueuesExact' /\ ReadyPicks'
<1>1. /\ work # <<>> /\ top.op = "Requeue"
      /\ status' = status /\ current_priority' = current_priority
      /\ nominal_priority' = nominal_priority /\ can_schedule' = can_schedule
      /\ current_thread' = current_thread
  BY DEF RequeueStep, Runs, top
<1>2. top \in Frames /\ Stacked = {top}
  BY <1>1, Innermost, RequeueStack
<1>3. PICK c \in Cores, n \in Threads \cup {NoThread} : c = top.core /\ n = top.next
  BY <1>1, <1>2, FrameFields
<1>4. {g \in Stacked : g.op \in {"Requeue", "SwitchContext"}} = {top}
  BY <1>1, <1>2
<1>5. Picked = {n}
  BY <1>3, <1>4 DEF Picked
<1>6. PICK u : u = unscheduled_ready_queue
  OBVIOUS
<1>7. /\ u \in Seq(Threads) /\ IsInjective(u)
      /\ \A t \in Range(u) : status[t] = "Ready" /\ ~can_schedule[t] /\ CoreOf[t] = c
      /\ n # NoThread => \/ status[n] = "Ready" /\ n \notin Range(u)
                         \/ status[n] = "Running" /\ n = current_thread[c]
  BY <1>1, <1>2, <1>3, <1>6 DEF TypeOK, ReadyPicks, CoreInv, PicksOwn
<1>8. CASE u = <<>>
  <2>1. /\ ready_queue' = ready_queue /\ unscheduled_ready_queue' = u
        /\ Stacked' = {SwitchContext(c, n)}
    BY <1>3, <1>6, <1>8, RequeueStack DEF RequeueStep
  <2>2. SwitchContext(c, n).op = "SwitchContext" /\ SwitchContext(c, n).next = n
        /\ SwitchContext(c, n).core = c
    BY DEF SwitchContext
  <2>3. {g \in Stacked' : g.op \in {"Requeue", "SwitchContext"}} = {SwitchContext(c, n)}
    BY <2>1, <2>2
  <2>4. Picked' = {n}
    BY <2>2, <2>3 DEF Picked
  <2>5. SetAside' = SetAside
    BY <1>5, <1>6, <2>1, <2>4 DEF SetAside
  <2>6. QueuesExact'
    BY <1>1, <2>1, <2>5, KeepQueues
  <2>7. ReadyPicks'
    BY <1>1, <1>6, <1>7, <2>1, <2>2 DEF ReadyPicks
  <2> QED
    BY <2>6, <2>7
<1>9. CASE u # <<>>
  <2>1. PICK t, rest : t = Last(u) /\ rest = Front(u)
    OBVIOUS
  <2>2. /\ rest \in Seq(Threads) /\ t \in Threads
        /\ Range(u) = Range(rest) \cup {t}
        /\ IsInjective(rest) /\ t \notin Range(rest)
    BY <1>7, <1>9, <2>1, RangeFront
  <2>3. /\ ready_queue' = [ready_queue EXCEPT
              ![c] = push_back(ready_queue[c], current_priority[t], t)]
        /\ unscheduled_ready_queue' = rest
        /\ work' = work /\ Stacked' = Stacked
    BY <1>3, <1>6, <1>9, <2>1, RequeueStack DEF RequeueStep
  <2>4. Picked' = {n}
    BY <1>5, <2>3 DEF Picked
  <2>5. SetAside = Range(rest) \cup {t, n} /\ SetAside' = Range(rest) \cup {n}
    BY <1>5, <1>6, <2>2, <2>3, <2>4 DEF SetAside
  <2>6. /\ status[t] = "Ready" /\ CoreOf[t] = c /\ t \in SetAside /\ t # n /\ t \notin SetAside'
        /\ \A x \in Threads \ {t} : x \in SetAside' <=> x \in SetAside
    BY <1>7, <2>2, <2>5, CoreAssumption
  <2>7. PICK queue, p, list : /\ queue = ready_queue[c] /\ p = current_priority[t]
                              /\ list = push_back(queue, p, t)
    OBVIOUS
  <2>8. queue \in Lists(Priorities, Threads) /\ p \in Priorities
    BY <2>2, <2>7 DEF TypeOK
  <2>9. \A r \in Priorities : IsInjective(queue.level[r]) /\ t \notin Range(queue.level[r])
    BY <2>2, <2>6, <2>7, OnLevel DEF QueuesExact
  <2>10. Added(queue, p, t, list)
    <3>1. IsInjective(queue.level[p]) /\ t \notin Range(queue.level[p])
      BY <2>8, <2>9
    <3> QED
      BY <2>2, <2>7, <2>8, <3>1, QueueAdded
  <2>11. ASSUME NEW r \in Priorities
         PROVE  /\ IsInjective(list.level[r])
                /\ \A x \in Threads \ {t} :
                      x \in Range(list.level[r]) <=> x \in Range(queue.level[r])
                /\ t \in Range(list.level[r]) <=> p = r
    <3>1. CASE r = p
      BY <2>9, <2>10, <3>1 DEF Added
    <3>2. CASE r # p
      BY <2>9, <2>10, <3>2 DEF Added
    <3> QED
      BY <3>1, <3>2
  <2>12. QueuesExact'
    <3>1. /\ list \in Lists(Priorities, Threads) /\ list.linked = queue.linked
          /\ {current_priority[t], nominal_priority[t]} \subseteq queue.linked
      BY <2>2, <2>6, <2>7, <2>10 DEF Added, QueuesExact, LevelsLinked
    <3>2. ready_queue' = [ready_queue EXCEPT ![CoreOf[t]] = list] /\ queue = ready_queue[CoreOf[t]]
      BY <2>3, <2>6, <2>7
    <3>3. status'[t] = "Ready"
      BY <1>1, <2>6
    <3>4. \A x \in Threads \ {t} : /\ status'[x] = "Ready" <=> status[x] = "Ready"
                                   /\ status'[x] = "Free" <=> status[x] = "Free"
                                   /\ current_priority'[x] = current_priority[x]
                                   /\ nominal_priority'[x] = nominal_priority[x]
                                   /\ x \in SetAside' <=> x \in SetAside
      BY <1>1, <2>6
    <3>5. \A r \in Priorities :
             /\ IsInjective(list.level[r])
             /\ \A x \in Threads \ {t} :
                   x \in Range(list.level[r]) <=> x \in Range(ready_queue[CoreOf[t]].level[r])
             /\ t \in Range(list.level[r]) <=>
                   status'[t] = "Ready" /\ current_priority'[t] = r /\ t \notin SetAside'
      BY <1>1, <2>6, <2>7, <2>11, <3>2, <3>3
    <3>6. /\ ready_queue[CoreOf[t]].linked \subseteq list.linked
          /\ {current_priority'[t], nominal_priority'[t]} \subseteq list.linked
      BY <1>1, <3>1, <3>2
    <3> QED
      BY <2>2, <3>1, <3>2, <3>3, <3>4, <3>5, <3>6, ThreadQueueChange
  <2>13. ReadyPicks'
    <3>1. \A f \in Stacked' : f.op = "Requeue" /\ f.core = c /\ f.next = n
      BY <1>1, <1>2, <1>3, <2>3
    <3> QED
      BY <1>1, <1>7, <2>2, <2>3, <3>1 DEF ReadyPicks
  <2> QED
    BY <2>12, <2>13
<1> QED
  BY <1>8, <1>9

LEMMA SwitchContextQueues ==
    ASSUME TypeOK, Nested(work), CoreInv, CreatedInv, QueuesExact, ReadyPicks,
           SwitchContextStep, fault' = NoFault
    PROVE  QueuesExact' /\ ReadyPicks'
<1>1. /\ work # <<>> /\ top.op = "SwitchContext"
      /\ Stacked' = {} /\ work' = <<>> /\ Under = {}
      /\ nominal_priority' = nominal_priority
      /\ unscheduled_ready_queue' = unscheduled_ready_queue
  BY SwitchContextStack DEF SwitchContextStep, Runs, top
<1>2. top \in Frames /\ Stacked = {top}
  BY <1>1, Innermost
<1>3. PICK c \in Cores, new \in Threads \cup {NoThread} : c = top.core /\ new = top.next
  BY <1>1, <1>2, FrameFields
<1>4. unscheduled_ready_queue = <<>>
  BY <1>1 DEF CoreInv, PicksOwn
<1>5. SetAside = {new} /\ SetAside' = {}
  <2>1. {g \in Stacked : g.op \in {"Requeue", "SwitchContext"}} = {top}
    BY <1>1, <1>2
  <2>2. Picked = {new} /\ Picked' = {}
    BY <1>1, <1>3, <2>1 DEF Picked
  <2> QED
    BY <1>1, <1>4, <2>2, RangeOfNothing DEF SetAside
<1>6. PICK old, Q : old = current_thread[c] /\ Q = ready_queue[c]
  OBVIOUS
<1>7. PICK queue : queue = IF IsRunning(old) THEN push_front(Q, current_priority[old], old) ELSE Q
  OBVIOUS
<1>8. PICK list : list = IF new = NoThread THEN queue ELSE remove(queue, current_priority[new], new)
  OBVIOUS
<1>9. /\ Q \in Lists(Priorities, Threads)
      /\ old \in Threads \cup {NoThread} /\ (old # NoThread => CoreOf[old] = c)
      /\ new # NoThread => CoreOf[new] = c /\ status[new] # "Free"
  BY <1>1, <1>2, <1>3, <1>6 DEF TypeOK, CoreInv, CurrentOwn, PicksOwn, ReadyPicks
<1>10. /\ ready_queue' = [ready_queue EXCEPT ![c] = list]
       /\ current_priority' = IF new = NoThread THEN current_priority
                              ELSE [current_priority EXCEPT ![new] = nominal_priority[new]]
  BY <1>3, <1>6, <1>7, <1>8 DEF SwitchContextStep, NoFault
<1>11. /\ \A t \in Threads : t # new =>
             status'[t] = IF t = old /\ IsRunning(old) THEN "Ready" ELSE status[t]
       /\ new # NoThread => status'[new] = "Running"
  BY <1>3, <1>6, SwitchContextThreads
<1>12. \A r \in Priorities :
          /\ IsInjective(Q.level[r])
          /\ \A x \in Threads : x \in Range(Q.level[r]) <=>
                status[x] = "Ready" /\ CoreOf[x] = c /\ current_priority[x] = r /\ x # new
  BY <1>5, <1>6, OnLevel DEF QueuesExact
<1>13. /\ queue \in Lists(Priorities, Threads) /\ queue.linked = Q.linked
       /\ \A r \in Priorities :
             /\ IsInjective(queue.level[r])
             /\ \A x \in Threads : x \in Range(queue.level[r]) <=>
                   \/ x \in Range(Q.level[r])
                   \/ IsRunning(old) /\ x = old /\ r = current_priority[old]
  <2>1. CASE ~IsRunning(old)
    BY <1>7, <1>9, <1>12, <2>1
  <2>2. CASE IsRunning(old)
    <3>1. PICK p : p = current_priority[old]
      OBVIOUS
    <3>2. old \in Threads /\ status[old] = "Running" /\ p \in Priorities
      BY <1>9, <2>2, <3>1 DEF IsRunning, TypeOK
    <3>3. IsInjective(Q.level[p]) /\ old \notin Range(Q.level[p])
      BY <1>12, <3>2
    <3>4. queue = push_front(Q, p, old)
      BY <1>7, <2>2, <3>1
    <3>5. Added(Q, p, old, queue)
      BY <1>9, <3>2, <3>3, <3>4, QueueAdded
    <3>6. ASSUME NEW r \in Priorities
          PROVE  /\ IsInjective(queue.level[r])
                 /\ \A x \in Threads : x \in Range(queue.level[r]) <=>
                       x \in Range(Q.level[r]) \/ (x = old /\ r = p)
      <4>1. CASE r = p
        BY <3>5, <4>1 DEF Added
      <4>2. CASE r # p
        BY <1>12, <3>5, <4>2 DEF Added
      <4> QED
        BY <4>1, <4>2
    <3> QED
      BY <2>2, <3>1, <3>5, <3>6 DEF Added
  <2> QED
    BY <2>1, <2>2
<1>14. /\ list \in Lists(Priorities, Threads) /\ list.linked = Q.linked
       /\ \A r \in Priorities :
             /\ IsInjective(list.level[r])
             /\ \A x \in Threads :
                   x \in Range(list.level[r]) <=> x \in Range(queue.level[r]) /\ x # new
  <2>1. CASE new = NoThread
    BY <1>8, <1>13, <2>1, CoreAssumption
  <2>2. CASE new # NoThread
    <3>1. PICK p : p = current_priority[new]
      OBVIOUS
    <3>2. new \in Threads /\ p \in Priorities
      BY <2>2, <3>1 DEF TypeOK
    <3>3. \A r \in Priorities : new \in Range(queue.level[r]) => r = p
      BY <1>12, <1>13, <3>1, <3>2
    <3>4. list = remove(queue, p, new) /\ IsInjective(queue.level[p])
      BY <1>8, <1>13, <2>2, <3>1, <3>2
    <3>5. Removed(queue, p, new, list)
      BY <1>13, <3>2, <3>4, QueueRemoved
    <3>6. ASSUME NEW r \in Priorities
          PROVE  /\ IsInjective(list.level[r])
                 /\ \A x \in Threads :
                       x \in Range(list.level[r]) <=> x \in Range(queue.level[r]) /\ x # new
      <4>1. CASE r = p
        BY <3>5, <4>1 DEF Removed
      <4>2. CASE r # p
        BY <1>13, <3>3, <3>5, <4>2 DEF Removed
      <4> QED
        BY <4>1, <4>2
    <3> QED
      BY <1>13, <3>5, <3>6 DEF Removed
  <2> QED
    BY <2>1, <2>2
<1>15. ASSUME NEW x \in Threads
       PROVE  \/ Undisturbed(x, Q, list)
              \/ CoreOf[x] = c /\ Replaced(x, list)
  <2>1. CASE x = new
    <3>1. status'[x] = "Running" /\ current_priority'[x] = nominal_priority[x]
          /\ x \notin SetAside'
      BY <1>5, <1>10, <1>11, <2>1, CoreAssumption DEF TypeOK
    <3>2. nominal_priority[x] \in Q.linked
      BY <1>6, <1>9, <2>1, CoreAssumption DEF QueuesExact, LevelsLinked
    <3> QED
      BY <1>1, <1>9, <1>14, <2>1, <3>1, <3>2, CoreAssumption DEF Replaced
  <2>2. CASE x # new /\ x = old /\ IsRunning(old)
    <3>1. status'[x] = "Ready" /\ current_priority'[x] = current_priority[x]
          /\ x \notin SetAside' /\ status[x] = "Running"
      BY <1>5, <1>10, <1>11, <2>2 DEF TypeOK, IsRunning
    <3>2. {nominal_priority[x], current_priority[x]} \subseteq Q.linked /\ CoreOf[x] = c
      BY <1>6, <1>9, <2>2, <3>1, CoreAssumption DEF QueuesExact, LevelsLinked
    <3>3. \A r \in Priorities : x \in Range(list.level[r]) <=> r = current_priority[x]
      BY <1>12, <1>13, <1>14, <2>2, <3>1
    <3> QED
      BY <1>1, <1>14, <3>1, <3>2, <3>3 DEF Replaced
  <2>3. CASE x # new /\ ~(x = old /\ IsRunning(old))
    <3>1. status'[x] = status[x] /\ current_priority'[x] = current_priority[x]
          /\ x \notin SetAside' /\ x \notin SetAside
      BY <1>5, <1>10, <1>11, <2>3 DEF TypeOK
    <3>2. \A r \in Priorities : x \in Range(list.level[r]) <=> x \in Range(Q.level[r])
      BY <1>13, <1>14, <2>3
    <3> QED
      BY <1>1, <3>1, <3>2 DEF Undisturbed
  <2> QED
    BY <2>1, <2>2, <2>3
<1>16. QueuesExact'
  <2>1. \A r \in Priorities : IsInjective(list.level[r])
    BY <1>14
  <2>2. list \in Lists(Priorities, Threads) /\ ready_queue[c].linked \subseteq list.linked
    BY <1>6, <1>14
  <2>3. \A x \in Threads : \/ Undisturbed(x, ready_queue[c], list)
                           \/ CoreOf[x] = c /\ Replaced(x, list)
    BY <1>6, <1>15
  <2> QED
    BY <1>10, <2>1, <2>2, <2>3, QueueChange
<1>17. IsInjective(<<>>)
  BY DEF IsInjective
<1>18. ReadyPicks'
  BY <1>1, <1>4, <1>17, RangeOfNothing DEF ReadyPicks
<1> QED
  BY <1>16, <1>18

LEMMA QueueInvNext ==
    ASSUME TypeOK, Nested(work), CoreInv, CreatedInv, LockInv, QueueInv, [Next]_vars
    PROVE  QueueInv'
<1>1. QueuesExact /\ ReadyPicks
  BY DEF QueueInv, QueuesExact
<1>2. QueuesExact' /\ ReadyPicks'
  <2>1. CASE OtherStep \/ Entry
    BY <1>1, <2>1, QueuesOther, ReadyPicksOther
  <2>2. CASE (\E c \in Cores : Reschedule(c))
    BY <1>1, <2>2, RescheduleQueues
  <2>3. CASE /\ BoostStarvedStep \/ PopNextStep \/ RequeueStep \/ SwitchContextStep
             /\ fault' = NoFault
    BY <1>1, <2>3, BoostStarvedQueues, PopNextQueues, RequeueQueues, SwitchContextQueues
  <2>4. CASE UNCHANGED systemVars
    <3>1. /\ status' = status /\ current_priority' = current_priority
          /\ nominal_priority' = nominal_priority /\ can_schedule' = can_schedule
          /\ current_thread' = current_thread /\ ready_queue' = ready_queue
          /\ unscheduled_ready_queue' = unscheduled_ready_queue /\ work' = work
      BY <2>4 DEF systemVars
    <3>2. Stacked' = Stacked /\ SetAside' = SetAside
      BY <3>1 DEF Stacked, SetAside, Picked
    <3>3. QueuesExact'
      BY <1>1, <3>1, <3>2, KeepQueues
    <3> QED
      BY <1>1, <3>1, <3>2, <3>3 DEF ReadyPicks
  <2> QED
    BY <2>1, <2>2, <2>3, <2>4, NextCases
<1> QED
  BY <1>2 DEF QueueInv, QueuesExact

LEMMA QueueInvInit ==
    ASSUME Init
    PROVE  CreatedInv /\ QueueInv
<1>1. /\ Stacked = {} /\ work = <<>> /\ unscheduled_ready_queue = <<>>
      /\ \A t \in Threads : status[t] = "Free"
      /\ current_priority = InitialPriority /\ nominal_priority = InitialPriority
      /\ thread_list = {} /\ \A c \in Cores : current_thread[c] = NoThread
  BY QuietStack DEF Init
<1>2. CreatedInv
  BY <1>1 DEF CreatedInv, ListExact, Alive
<1>3. IsInjective(<<>>) /\ Range(<<>>) = {}
  BY RangeOfNothing DEF IsInjective
<1>4. ASSUME NEW c \in Cores, NEW p \in Priorities
      PROVE  ready_queue[c].level[p] = <<>> /\ ReadyAt(c, p) = {}
  BY <1>1 DEF Init, EmptyList, ReadyAt
<1>5. LevelsExact
  BY <1>3, <1>4 DEF LevelsExact
<1>6. LevelsLinked /\ FreshPriority
  BY <1>1 DEF LevelsLinked, FreshPriority
<1>7. ReadyPicks
  BY <1>1, <1>3 DEF ReadyPicks
<1> QED
  BY <1>2, <1>5, <1>6, <1>7 DEF QueueInv

(* Between any two steps of the kernel code the ready queues list, each    *)
(* once and on the level of its current priority, the ready threads that   *)
(* Reschedule does not hold in its hands; a level a thread may be pushed   *)
(* on is on the chain (Thread's SetPriority, BoostPriority,                *)
(* ResumeFromWait, Stop; PopNextReadyThread, SwitchContext); thread_list   *)
(* is the threads that were created and have not ended.                    *)
THEOREM QueuesCorrect == Orderly /\ Spec => [](CreatedInv /\ QueueInv)
<1>1. Init => CreatedInv /\ QueueInv
  BY QueueInvInit
<1>2. TypeOK /\ TypeOK' /\ (Nested(work) /\ CoreInv) /\ (LockInv /\ WaitInv)
      /\ (CreatedInv /\ QueueInv) /\ [Next]_vars => (CreatedInv /\ QueueInv)'
  BY QueueInvNext, CreatedInvNext
<1> QED
  BY <1>1, <1>2, TypeCorrect, CoresCorrect, LocksCorrect, PTL DEF Spec

LEMMA QuietQueues ==
    ASSUME TypeOK, CoreInv, QueueInv
    PROVE  ReadyQueueExact
<1> SUFFICES ASSUME Quiet, NEW c \in Cores, NEW p \in Priorities
             PROVE  /\ Range(ready_queue[c].level[p]) = ReadyAt(c, p)
                    /\ IsInjective(ready_queue[c].level[p])
                    /\ ready_queue[c].level[p] # <<>> => p \in ready_queue[c].linked
  BY DEF ReadyQueueExact, ReadyAt
<1>1. SetAside = {}
  BY QuietStack, NothingAside DEF CoreInv, Quiet
<1>2. /\ Range(ready_queue[c].level[p]) = ReadyAt(c, p)
      /\ IsInjective(ready_queue[c].level[p])
  BY <1>1 DEF QueueInv, LevelsExact
<1>3. ASSUME ready_queue[c].level[p] # <<>>
      PROVE  p \in ready_queue[c].linked
  <2>1. ready_queue[c] \in Lists(Priorities, Threads)
    BY DEF TypeOK
  <2>2. ready_queue[c].level[p] \in Seq(Threads)
    BY <2>1 DEF Lists
  <2>3. PICK t \in Threads : t \in Range(ready_queue[c].level[p])
    BY <1>3, <2>2, NoRange, LevelRange, <2>1
  <2>4. status[t] = "Ready" /\ CoreOf[t] = c /\ current_priority[t] = p
    BY <1>2, <2>3 DEF ReadyAt
  <2> QED
    BY <2>4 DEF QueueInv, LevelsLinked
<1> QED
  BY <1>2, <1>3

(* When no kernel code runs, each ready thread is on its core's queue,     *)
(* once, at the level of its current priority, and a pop can see it; no    *)
(* other thread is on any level (thread.cpp, thread_queue_list.h).         *)
THEOREM ReadyQueuesExact == Orderly /\ Spec => []ReadyQueueExact
<1>1. TypeOK /\ (Nested(work) /\ CoreInv) /\ (CreatedInv /\ QueueInv) => ReadyQueueExact
  BY QuietQueues
<1> QED
  BY <1>1, TypeCorrect, CoresCorrect, QueuesCorrect, PTL

(***************************************************************************)
(* The pick of Reschedule is the best.                                     *)
(***************************************************************************)
LEMMA BestStays ==
    ASSUME status' = status, can_schedule' = can_schedule, current_thread' = current_thread,
           current_priority' = current_priority,
           NEW c, NEW next, Best(c, next)
    PROVE  Best(c, next)'
BY DEF Best, IsRunning

LEMMA PopNextBest ==
    ASSUME TypeOK, Nested(work), CoreInv, QueuesExact, ReadyPicks, PopNextStep, fault' = NoFault
    PROVE  PicksBest'
<1>1. PICK c \in Cores : /\ Stacked = {PopNext(c)} /\ top.core = c
                         /\ NothingBetter(c) \/ \E next \in Threads : TakesBest(c, next)
  BY PopNextCases
<1>2. /\ status' = status /\ current_priority' = current_priority
      /\ can_schedule' = can_schedule /\ current_thread' = current_thread
  BY PopNextUnchanged
<1>3. \A f \in Stacked : f.op = "PopNext"
  BY <1>1 DEF PopNext
<1>4. SetAside = Range(unscheduled_ready_queue)
  BY <1>3 DEF SetAside, Picked
<1>5. ASSUME NEW t \in Threads, CoreOf[t] = c, status[t] = "Ready", can_schedule[t]
      PROVE  t \in Waiting(c)
  BY <1>4, <1>5 DEF Waiting, ReadyPicks
<1>6. ASSUME NEW n, Stacked' = {Requeue(c, n)}, Best(c, n)
      PROVE  PicksBest'
  <2>1. \A f \in Stacked' : f.core = c /\ f.next = n
    BY <1>6 DEF Requeue
  <2>2. Best(c, n)'
    BY <1>2, <1>6, BestStays
  <2> QED
    BY <2>1, <2>2 DEF PicksBest
<1>7. CASE NothingBetter(c)
  <2>1. PICK n : n = IF IsRunning(current_thread[c]) THEN current_thread[c] ELSE NoThread
    OBVIOUS
  <2>2. Stacked' = {Requeue(c, n)}
    BY <1>7, <2>1 DEF NothingBetter
  <2>3. \A t \in Waiting(c) :
           /\ IsRunning(current_thread[c])
           /\ current_priority[current_thread[c]] <= current_priority[t]
    BY <1>7 DEF NothingBetter
  <2>4. Best(c, n)
    BY <1>5, <2>1, <2>3 DEF Best, IsRunning
  <2> QED
    BY <1>6, <2>2, <2>4
<1>8. ASSUME NEW next \in Threads, TakesBest(c, next)
      PROVE  PicksBest'
  <2>1. CASE can_schedule[next]
    <3>1. Stacked' = {Requeue(c, next)}
      BY <1>8, <2>1 DEF TakesBest
    <3>2. /\ \A t \in Waiting(c) : current_priority[next] <= current_priority[t]
          /\ IsRunning(current_thread[c]) =>
                current_priority[next] < current_priority[current_thread[c]]
      BY <1>8 DEF TakesBest
    <3>3. Best(c, next)
      BY <1>5, <3>2, CoreAssumption DEF Best
    <3> QED
      BY <1>6, <3>1, <3>3
  <2>2. CASE ~can_schedule[next]
    <3>1. Stacked' = Stacked
      BY <1>8, <2>2 DEF TakesBest
    <3> QED
      BY <1>3, <3>1 DEF PicksBest
  <2> QED
    BY <2>1, <2>2
<1> QED
  BY <1>1, <1>7, <1>8

LEMMA RequeueBest ==
    ASSUME TypeOK, Nested(work), PicksBest, RequeueStep
    PROVE  PicksBest'
<1>1. /\ work # <<>> /\ top.op = "Requeue"
      /\ status' = status /\ current_priority' = current_priority
      /\ can_schedule' = can_schedule /\ current_thread' = current_thread
  BY DEF RequeueStep, Runs, top
<1>2. Stacked = {top}
  BY <1>1, Innermost, RequeueStack
<1>3. Best(top.core, top.next)
  BY <1>1, <1>2 DEF PicksBest
<1>4. PICK c, n : c = top.core /\ n = top.next
  OBVIOUS
<1>5. \A f \in Stacked' : f.core = c /\ f.next = n
  <2>1. Stacked' = {SwitchContext(c, n)} \/ Stacked' = {top}
    BY <1>2, <1>4, RequeueStack
  <2>2. SwitchContext(c, n).core = c /\ SwitchContext(c, n).next = n
    BY DEF SwitchContext
  <2>3. ASSUME NEW s, s = Stacked'
        PROVE  \A f \in s : f.core = c /\ f.next = n
    BY <1>4, <2>1, <2>2, <2>3
  <2> QED
    BY <2>3
<1>6. Best(c, n)'
  BY <1>1, <1>3, <1>4, BestStays
<1> QED
  BY <1>5, <1>6 DEF PicksBest

LEMMA PicksBestNext ==
    ASSUME TypeOK, Nested(work), CoreInv, QueueInv, PicksBest, [Next]_vars
    PROVE  PicksBest'
<1>1. ASSUME \A f \in Stacked' : f.op \notin {"Requeue", "SwitchContext"}
      PROVE  PicksBest'
  BY <1>1 DEF PicksBest
<1>2. CASE OtherStep \/ Entry
  BY <1>1, <1>2, NonScheduling DEF SchedulingOps
<1>3. CASE (\E c \in Cores : Reschedule(c))
  BY <1>1, <1>3, RescheduleStack DEF BoostStarved, PopNext
<1>4. CASE BoostStarvedStep /\ fault' = NoFault
  <2>1. \A f \in Stacked' : f.op \in {"BoostStarved", "PopNext"}
    BY <1>4, BoostStarvedStack DEF BoostStarved
  <2> QED
    BY <1>1, <2>1
<1>5. CASE PopNextStep /\ fault' = NoFault
  BY <1>5, PopNextBest DEF QueueInv, QueuesExact
<1>6. CASE RequeueStep
  BY <1>6, RequeueBest
<1>7. CASE SwitchContextStep /\ fault' = NoFault
  BY <1>1, <1>7, SwitchContextStack
<1>8. CASE UNCHANGED systemVars
  <2>1. /\ status' = status /\ current_priority' = current_priority
        /\ can_schedule' = can_schedule /\ current_thread' = current_thread /\ work' = work
    BY <1>8 DEF systemVars
  <2>2. Stacked' = Stacked
    BY <2>1 DEF Stacked
  <2> QED
    BY <2>1, <2>2, BestStays DEF PicksBest
<1> QED
  BY <1>2, <1>3, <1>4, <1>5, <1>6, <1>7, <1>8, NextCases

(* SwitchContext is given the best of the threads it may schedule, from    *)
(* the queue or the one that runs, however many threads PopNextReadyThread *)
(* had to set aside on the way, and a running thread is only replaced by a *)
(* strictly better one (thread.cpp).                                       *)
THEOREM BestDispatched == Orderly /\ Spec => []DispatchesBest
<1>1. Init => PicksBest
  BY QuietStack DEF Init, PicksBest
<1>2. TypeOK /\ (Nested(work) /\ CoreInv) /\ (CreatedInv /\ QueueInv) /\ PicksBest /\ [Next]_vars
      => PicksBest'
  BY PicksBestNext
<1>3. TypeOK /\ (Nested(work) /\ CoreInv) /\ PicksBest => DispatchesBest
  <2> SUFFICES ASSUME TypeOK, Nested(work), PicksBest, work # <<>>, top.op = "SwitchContext"
               PROVE  Best(top.core, top.next)
    BY DEF DispatchesBest, Best
  <2> QED
    BY Innermost DEF PicksBest
<1> QED
  BY <1>1, <1>2, <1>3, TypeCorrect, CoresCorrect, QueuesCorrect, PTL DEF Spec
=============================================================================

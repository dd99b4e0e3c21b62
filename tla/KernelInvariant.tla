---------------------------- MODULE KernelInvariant ----------------------------
(***************************************************************************)
(* Inductive invariants of KernelSync: what holds between any two steps of *)
(* kernel code, in the middle of a call too.  Each part says how far the   *)
(* code that is still to run (work) explains a relation of two pieces of   *)
(* state that is broken at the moment.                                     *)
(***************************************************************************)
EXTENDS KernelSync

(* The frames on the stack, and those under the innermost one.             *)
Stacked == Range(work)
Under == Range(Tail(work))

(***************************************************************************)
(* Nesting: what can be under what.                                        *)
(***************************************************************************)
(* The frames that code on behalf of an ending thread leaves underneath.   *)
Ending == {"RemoveWaiting", "ReleaseMutexes", "TerminateThreads"}

Beneath(op) ==
    CASE op \in {"TerminateThreads", "Stop", "ReleaseMutexes"} -> {"TerminateThreads"}
      [] op = "WakeupAll" -> Ending
      [] op = "Resume" -> {"WakeupAll", "ResumeArbitrated"} \cup Ending
      [] op = "RemoveWaiting" -> {"Resume", "WakeupAll"} \cup Ending
      [] op = "Callback" -> {"Resume", "WakeupAll"} \cup Ending
      [] op = "Acquire" -> {"Acquire", "Callback", "Resume", "WakeupAll"} \cup Ending
      [] op = "BoostStarved" -> {"PopNext"}
      [] OTHER -> {}

Nested(w) == \A i, j \in 1..Len(w) : i < j => w[j].op \in Beneath(w[i].op)

(***************************************************************************)
(* Cores and their threads.                                                *)
(***************************************************************************)
(* Core c is in the middle of Reschedule.                                  *)
Rescheduling(c) ==
    \E f \in Stacked : f.op \in {"PopNext", "Requeue", "SwitchContext"} /\ f.core = c

(* A core runs, queues and picks only threads of its own.                  *)
Own(c, list) == \A p \in Priorities : \A t \in Range(list.level[p]) : CoreOf[t] = c

CurrentOwn == \A c \in Cores : current_thread[c] # NoThread => CoreOf[current_thread[c]] = c
QueuesOwn == \A c \in Cores : Own(c, ready_queue[c])
PicksOwn ==
    /\ \A f \in Stacked :
          /\ f.op \in {"Requeue", "SwitchContext"} /\ f.next # NoThread => CoreOf[f.next] = f.core
          /\ f.op \in {"PopNext", "Requeue"} =>
                \A t \in Range(unscheduled_ready_queue) : CoreOf[t] = f.core
    /\ unscheduled_ready_queue # <<>> => work # <<>> /\ top.op \in {"PopNext", "Requeue"}

(* A core that was not told to stop runs a thread that is Running, unless  *)
(* another core has terminated its process.                                *)
RunningOrExited ==
    \A c \in Cores \ halted :
        current_thread[c] # NoThread /\ ~Rescheduling(c) =>
            status[current_thread[c]] = "Running" \/ OwnerOf[current_thread[c]] \in exited

(* Whoever is to be stopped is of an exited process, or ends itself and    *)
(* its core was told.                                                      *)
StopsJustified ==
    \A f \in Stacked :
        /\ f.op = "Stop" => \/ OwnerOf[f.thread] \in exited
                            \/ status[f.thread] = "Running" /\ CoreOf[f.thread] \in halted
        /\ f.op = "TerminateThreads" => f.process \in exited

Alive(t) == status[t] \notin {"Free", "Dead"}

(* A process that has exited is not run on: its threads have ended or are  *)
(* about to, and no core that was not told to stop runs one of them.       *)
AliveListed == \A t \in Threads : Alive(t) => t \in thread_list

Ended(t) ==
    \/ ~Alive(t)
    \/ TerminateThreads(CoreOf[t], OwnerOf[t]) \in Stacked
    \/ Stop(t) \in Stacked

CallersLive ==
    \A c \in Cores \ halted :
        current_thread[c] # NoThread /\ OwnerOf[current_thread[c]] \in exited =>
            \/ Rescheduling(c)
            \/ c = cpu /\ TerminateThreads(c, OwnerOf[current_thread[c]]) \in Stacked

ExitInv ==
    /\ AliveListed
    /\ \A t \in Threads : OwnerOf[t] \in exited => Ended(t)
    /\ CallersLive

CoreInv ==
    /\ CurrentOwn
    /\ QueuesOwn
    /\ PicksOwn
    /\ RunningOrExited
    /\ StopsJustified
    /\ ExitInv

(* No process is terminated while another core runs a thread of it.        *)
Orderly == TerminatesRunning => Terminable = {} \/ NumCores = 1

(* Only sleeping threads and those that just woke have a pending timeout.  *)
TimeoutsOfSleepers == \A t \in wakeup_events : status[t] \in WaitingStatus \cup {"Ready"}

(***************************************************************************)
(* Threads that were created, mutexes.                                     *)
(***************************************************************************)
(* thread_list is the threads that were created and have not ended; no     *)
(* core has, and nobody ends, a thread that was not created.               *)
ListExact == thread_list = {t \in Threads : Alive(t)}

CreatedInv ==
    /\ ListExact
    /\ \A c \in Cores : current_thread[c] # NoThread => status[current_thread[c]] # "Free"
    /\ \A f \in Stacked : f.op = "Stop" => status[f.thread] # "Free"

(* The loop that releases the mutexes of t is under way.                   *)
Releasing(t) == \E f \in Stacked : f.op = "ReleaseMutexes" /\ f.thread = t

Held(t) == {m \in Mutexes : holding_thread[m] = t}

(* Threads acquire only while they are alive; held_mutexes lists what a    *)
(* thread holds, except while its mutexes are being released: then the     *)
(* loop has still to release exactly what is still held.                   *)
LockInv ==
    /\ \A f \in Stacked : f.op = "Acquire" => Alive(f.thread)
    /\ \A f \in Stacked : f.op = "ReleaseMutexes" =>
          status[f.thread] = "Dead" /\ f.mutexes = Held(f.thread)
    /\ \A t \in Threads : ~Releasing(t) =>
          held_mutexes[t] = Held(t) /\ (Held(t) # {} => Alive(t))

(***************************************************************************)
(* Waiting lists.                                                          *)
(***************************************************************************)
(* The loop that adds, or removes, t is the code that runs now.            *)
Adding(t) == work # <<>> /\ top.op = "AddWaiting" /\ top.thread = t
Removing(t) == work # <<>> /\ top.op = "RemoveWaiting" /\ top.thread = t

(* The objects that have t on their lists.                                 *)
ListedBy(t) == {o \in Objects : t \in Range(waiting_threads[o])}

WaitInv ==
    /\ \A o \in Objects : IsInjective(waiting_threads[o])
    /\ \A t \in Threads :
          /\ ListedBy(t) \subseteq Range(wait_objects[t])
          /\ Adding(t) => /\ Range(top.objects) \subseteq Range(wait_objects[t])
                          /\ Range(wait_objects[t]) \subseteq ListedBy(t) \cup Range(top.objects)
          /\ ~Adding(t) /\ ~Removing(t) => Range(wait_objects[t]) \subseteq ListedBy(t)
          /\ pending_mutexes[t] = ListedBy(t) \cap Mutexes
          /\ wait_objects[t] # <<>> =>
                status[t] \in WaitingOnObjects \/ RemoveWaiting(t) \in Stacked

(***************************************************************************)
(* Ready queues.                                                           *)
(***************************************************************************)
(* The ready threads that Reschedule holds in its hands: those it may not  *)
(* schedule, and the one it has picked.                                    *)
Picked == {f.next : f \in {g \in Stacked : g.op \in {"Requeue", "SwitchContext"}}}
SetAside == Range(unscheduled_ready_queue) \cup Picked

ReadyAt(c, p) ==
    {t \in Threads : status[t] = "Ready" /\ CoreOf[t] = c /\ current_priority[t] = p}

LevelsExact ==
    \A c \in Cores, p \in Priorities :
        LET level == ready_queue[c].level[p]
        IN  IsInjective(level) /\ Range(level) = ReadyAt(c, p) \ SetAside

(* The levels a thread may be pushed on are on the chain.                  *)
LevelsLinked ==
    \A t \in Threads : status[t] # "Free" =>
        {current_priority[t], nominal_priority[t]} \subseteq ready_queue[CoreOf[t]].linked

(* Nothing happens to a thread before it is created.                       *)
FreshPriority ==
    \A t \in Threads : status[t] = "Free" =>
        current_priority[t] = InitialPriority[t] /\ nominal_priority[t] = InitialPriority[t]

(* What Reschedule works on is ready; the thread it picks may also be the  *)
(* one that runs.                                                          *)
ReadyPicks ==
    /\ \A f \in Stacked :
          /\ f.op = "BoostStarved" =>
                \A t \in f.threads : status[t] = "Ready" /\ CoreOf[t] = f.core
          /\ f.op \in {"Requeue", "SwitchContext"} /\ f.next # NoThread =>
                \/ status[f.next] = "Ready" /\ f.next \notin Range(unscheduled_ready_queue)
                \/ status[f.next] = "Running" /\ f.next = current_thread[f.core]
    /\ IsInjective(unscheduled_ready_queue)
    /\ \A t \in Range(unscheduled_ready_queue) : status[t] = "Ready" /\ ~can_schedule[t]

QueueInv == LevelsExact /\ LevelsLinked /\ FreshPriority /\ ReadyPicks

(* The pick of Reschedule is the best, from the moment it is made.         *)
Best(c, next) ==
    LET old == current_thread[c]
        rivals == {t \in Threads : CoreOf[t] = c /\ status[t] = "Ready" /\ can_schedule[t]}
    IN  IF next = NoThread
        THEN rivals = {} /\ ~IsRunning(old)
        ELSE /\ \A t \in rivals : current_priority[next] <= current_priority[t]
             /\ IsRunning(old) /\ next # old => current_priority[next] < current_priority[old]

PicksBest ==
    \A f \in Stacked : f.op \in {"Requeue", "SwitchContext"} => Best(f.core, f.next)

(***************************************************************************)
(* Wakeups.                                                                *)
(***************************************************************************)
(* Whoever is on the way to be woken will be: the call that resumes it is  *)
(* still on the stack.                                                     *)
WakesResume ==
    \A f \in Stacked :
        f.op \in {"Acquire", "Callback", "RemoveWaiting"} /\ status[f.thread] \in WaitingStatus =>
            Resume(f.thread) \in Stacked

(* A thread that could take what it waits for is on the way to be woken,   *)
(* or the list of one of these objects is still to be gone through.        *)
Pending(t) ==
    /\ status[t] = "WaitSynchAny" =>
          \A o \in Range(wait_objects[t]) :
              ShouldWait(o, t) \/ WakeupAll(o) \in Stacked \/ Resume(t) \in Stacked
    /\ status[t] = "WaitSynchAll" =>
          \/ \E o \in Range(wait_objects[t]) : ShouldWait(o, t) \/ WakeupAll(o) \in Stacked
          \/ Resume(t) \in Stacked

WakeupsPending == \A t \in Threads : Pending(t)

(* A thread waits for objects with the callback of the SVC, for an address *)
(* with that of the arbiter if at all, and has none otherwise.             *)
CallbackMatches(t) ==
    /\ status[t] \in WaitingOnObjects => wakeup_callback[t] = "sync"
    /\ status[t] = "WaitArb" => wakeup_callback[t] \in {"none"} \cup Arbiters
    /\ status[t] \notin WaitingOnObjects \cup {"WaitArb", "Dead"} => wakeup_callback[t] = "none"

CallbacksMatch == \A t \in Threads : CallbackMatches(t)

(* What a wait has returned and taken: nothing before it sleeps; then a    *)
(* timeout and nothing until it is woken; then both change, the objects    *)
(* first.                                                                  *)
Acquiring(t) == \E f \in Stacked : f.op = "Acquire" /\ f.thread = t

Asleep(t) ==
    /\ outcome[t] = "Signal" => acquired[t] # {}
    /\ acquired[t] # {} =>
          /\ Resume(t) \in Stacked
          /\ outcome[t] = "Signal" \/ Callback(t, "Signal") \in Stacked
    /\ Acquiring(t) => Callback(t, "Signal") \in Stacked
    /\ Callback(t, "Signal") \in Stacked => acquired[t] # {} \/ Acquiring(t)
    /\ Callback(t, "Timeout") \in Stacked => acquired[t] = {} /\ ~Acquiring(t)

OutcomeOf(t) ==
    /\ status[t] \in WaitingOnObjects => Asleep(t)
    /\ status[t] = "Ready" => (outcome[t] = "Signal" <=> acquired[t] # {})
    /\ status[t] \notin WaitingOnObjects \cup {"Ready", "Dead"} =>
          outcome[t] = "none" /\ acquired[t] = {}

OutcomeInv == \A t \in Threads : OutcomeOf(t)

(***************************************************************************)
(* Address arbiters.                                                       *)
(***************************************************************************)
(* A listed thread waits for the address, unless its process has ended; a  *)
(* thread that waits is listed until it is resumed; a timeout takes it off *)
(* the list that it is on.                                                 *)
ArbiterOf(t) ==
    /\ OwnerOf[t] \notin exited =>
          \A a \in Arbiters : t \in Range(arb_waiting[a]) =>
              /\ status[t] = "WaitArb"
              /\ \A b \in Arbiters \ {a} : t \notin Range(arb_waiting[b])
              /\ t \in wakeup_events => wakeup_callback[t] = a
              /\ Resume(t) \in Stacked =>
                    Callback(t, "Timeout") \in Stacked /\ wakeup_callback[t] = a
    /\ status[t] = "WaitArb" =>
          (\E a \in Arbiters : t \in Range(arb_waiting[a])) \/ Resume(t) \in Stacked

ArbiterInv ==
    /\ \A a \in Arbiters : IsInjective(arb_waiting[a])
    /\ \A t \in Threads : ArbiterOf(t)

(***************************************************************************)
(* Assertions.                                                             *)
(***************************************************************************)
(* The calls under the one that runs: an object is acquired once; a thread *)
(* that leaves its lists while others are woken is dead, and it is the end *)
(* of this thread that wakes them.                                         *)
DeadThreads == {t \in Threads : status[t] = "Dead"}

SoundAbove(f, g, dead) ==
    /\ f.op = "Acquire" /\ g.op = "Acquire" => f.object # g.object
    /\ f.op \in {"WakeupAll", "Resume"} /\ g.op = "RemoveWaiting" => g.thread \in dead
    /\ f.op = "WakeupAll" /\ g.op = "RemoveWaiting" => f.object = g.thread

Sound(w, dead) == \A i, j \in 1..Len(w) : i < j => SoundAbove(w[i], w[j], dead)

(* What a call relies on is so: what is to be acquired is available, who   *)
(* is told of a signal sleeps on objects, who is resumed sleeps or is      *)
(* ready and has left its lists by then.                                   *)
CallSound(f) ==
    /\ f.op = "Acquire" => f.object \in Semaphores \/ ~ShouldWait(f.object, f.thread)
    /\ f.op = "Callback" /\ f.reason = "Signal" => status[f.thread] \in WaitingOnObjects
    /\ f.op = "Resume" =>
          /\ status[f.thread] \in WaitingStatus \cup {"Ready"}
          /\ wait_objects[f.thread] # <<>> => RemoveWaiting(f.thread) \in Stacked

(* No thread waits for one object twice, or for itself.                    *)
WaitsOnce ==
    \A t \in Threads : IsInjective(wait_objects[t]) /\ t \notin Range(wait_objects[t])

CallsSound ==
    /\ Sound(work, DeadThreads)
    /\ \A f \in Stacked : CallSound(f)
    /\ WaitsOnce

(* All of them.                                                            *)
KernelInv ==
    /\ Nested(work)
    /\ CoreInv
    /\ TimeoutsOfSleepers
    /\ HolderIffLocked
    /\ LockInv
    /\ WaitInv
    /\ QueueInv
    /\ PicksBest
    /\ WakesResume
    /\ WakeupsPending
    /\ CallbacksMatch
    /\ OutcomeInv
    /\ ArbiterInv
=============================================================================

------------------------------- MODULE RunLoop -------------------------------
(***************************************************************************)
(* Core::System::RunLoop (core/core.cpp): one emulation thread advances,   *)
(* reschedules and runs the emulated cores one after the other, with the   *)
(* timers of CoreTiming, while host threads schedule events (asynchronous  *)
(* HLE requests).  What the kernel, the guest's SVCs and the callbacks of  *)
(* events do to the timers is left open: they may schedule and cancel.     *)
(***************************************************************************)
EXTENDS CoreTiming

CONSTANTS
    MIN_DELAY,      \* min_delay: a lag that is not worth a slice of its own
    Overshoot,      \* a core runs at most so many cycles past its slice
    Delays,         \* cycles_into_future of the calls
    MaxTime         \* bound: the loop stops when all cores have reached it

NoCore == -1

ASSUME LoopAssumption ==
    /\ MIN_DELAY \in Nat /\ Overshoot \in Nat /\ MaxTime \in Nat
    /\ Delays \subseteq Int

VARIABLES
    \* which of the loops of RunLoop runs, where in its body, for which core
    loop, step, core,
    \* locals of RunLoop
    global_ticks, max_delay, current_core_to_execute, max_slice, start_ticks,
    \* how late the event is whose callback runs; NotLate if none does
    cycles_late,
    \* a thread-safe call in progress on a host thread: a set of at most one
    host_call

loopVars == <<loop, step, core, global_ticks, max_delay,
              current_core_to_execute, max_slice, start_ticks, cycles_late>>
vars == <<timerVars, loopVars, host_call>>

NotLate == -1

Init ==
    /\ TimerInit
    /\ loop = "Top" /\ step = "Begin" /\ core = 0
    /\ global_ticks = 0 /\ max_delay = 0 /\ current_core_to_execute = NoCore
    /\ max_slice = 0 /\ start_ticks = 0 /\ cycles_late = NotLate
    /\ host_call = {}

At(l, s) == loop = l /\ step = s /\ cycles_late = NotLate
Goto(l, s, c) == loop' = l /\ step' = s /\ core' = c

(***************************************************************************)
(* The loops.                                                              *)
(***************************************************************************)
Begin ==
    /\ At("Top", "Begin")
    /\ \E c \in Cores : GetTicks(c) < MaxTime
    /\ global_ticks' = GetGlobalTicks
    /\ Goto("CatchUp", "Begin", 0)
    /\ UNCHANGED <<timerVars, max_delay, current_core_to_execute, max_slice,
                   start_ticks, cycles_late, host_call>>

(* SetRunningCPU, then the first part of Advance.                          *)
RunningCore(c) == current_timer' = c

BeginAdvance ==
    /\ loop \in {"CatchUp", "AdvanceAll"} /\ step = "Begin" /\ core < NumCores
    /\ loop = "CatchUp" => GetTicks(core) < global_ticks
    /\ RunningCore(core)
    /\ AdvanceStart(core)
    /\ Goto(loop, "Advance", core)
    /\ UNCHANGED <<global_ticks, max_delay, current_core_to_execute, max_slice,
                   start_ticks, cycles_late, host_call>>

(* A core that does not lag behind is passed over.                         *)
SkipCore ==
    /\ At("CatchUp", "Begin") /\ core < NumCores /\ GetTicks(core) >= global_ticks
    /\ Goto(loop, step, core + 1)
    /\ UNCHANGED <<timerVars, global_ticks, max_delay, current_core_to_execute,
                   max_slice, start_ticks, cycles_late, host_call>>

FireEvent ==
    /\ step = "Advance" /\ cycles_late = NotLate
    /\ PopEvent(core)
    /\ cycles_late' = executed_ticks[core] - Front(core).time
    /\ UNCHANGED <<loop, step, core, global_ticks, max_delay,
                   current_core_to_execute, max_slice, start_ticks, host_call>>

(* The callback schedules an event, usually itself again, or cancels some, *)
(* or does neither.                                                        *)
CallbackReturns ==
    /\ cycles_late # NotLate
    /\ \/ \E c \in Cores, d \in Delays, k \in Keys :
             ScheduleEvent(c, d - cycles_late, k)
       \/ \E keys \in CancelSets : Unschedule(keys)
       \/ UNCHANGED timerVars
    /\ cycles_late' = NotLate
    /\ UNCHANGED <<loop, step, core, global_ticks, max_delay,
                   current_core_to_execute, max_slice, start_ticks, host_call>>

EndAdvance ==
    /\ step = "Advance" /\ cycles_late = NotLate
    /\ AdvanceEnd(core)
    /\ Goto(loop, "Reschedule", core)
    /\ UNCHANGED <<global_ticks, max_delay, current_core_to_execute, max_slice,
                   start_ticks, cycles_late, host_call>>

(* ThreadManager::Reschedule cancels the wakeup of the thread it switches  *)
(* to (thread.cpp:148).                                                    *)
SwitchThread ==
    /\ step = "Reschedule"
    /\ \E k \in Keys : Unschedule({k})
    /\ UNCHANGED <<loopVars, host_call>>

(* The core that lags gets a slice as long as its lag, which the first     *)
(* part of Advance did not change.                                         *)
EndCatchUp ==
    /\ At("CatchUp", "Reschedule")
    /\ LET delay == global_ticks - GetTicks(core) IN
       /\ SetNextSlice(core, delay)
       /\ max_delay' = AtLeast(max_delay, delay)
       /\ current_core_to_execute' =
              IF max_delay < delay THEN core ELSE current_core_to_execute
    /\ Goto(loop, "Begin", core + 1)
    /\ UNCHANGED <<current_timer, global_ticks, max_slice, start_ticks,
                   cycles_late, host_call>>

(* Faulty: the test is the wrong way round.                                *)
CaughtUpInverted == max_delay > MIN_DELAY

CaughtUp == max_delay <= MIN_DELAY

(* A core that lags too much runs alone, else all cores take their turns.  *)
RunDelayed ==
    /\ At("CatchUp", "Begin") /\ core = NumCores /\ ~CaughtUp
    /\ RunningCore(current_core_to_execute)
    /\ Goto("RunDelayed", "Run", current_core_to_execute)
    /\ UNCHANGED <<queueVars, clockVars, is_timer_sane, global_ticks, max_delay,
                   current_core_to_execute, max_slice, start_ticks, cycles_late,
                   host_call>>

StartAll ==
    /\ At("CatchUp", "Begin") /\ core = NumCores /\ CaughtUp
    /\ max_slice' = MAX_SLICE_LENGTH
    /\ Goto("AdvanceAll", "Begin", 0)
    /\ UNCHANGED <<timerVars, global_ticks, max_delay, current_core_to_execute,
                   start_ticks, cycles_late, host_call>>

EndAdvanceAll ==
    /\ At("AdvanceAll", "Reschedule")
    /\ max_slice' = AtMost(max_slice, GetMaxSliceLength(core))
    /\ IF core + 1 < NumCores THEN Goto(loop, "Begin", core + 1)
                              ELSE Goto("RunAll", "Begin", 0)
    /\ UNCHANGED <<timerVars, global_ticks, max_delay, current_core_to_execute,
                   start_ticks, cycles_late, host_call>>

StartSlice ==
    /\ At("RunAll", "Begin") /\ core < NumCores
    /\ SetNextSlice(core, max_slice)
    /\ start_ticks' = GetTicks(core)
    /\ RunningCore(core)
    /\ Goto(loop, "Run", core)
    /\ UNCHANGED <<global_ticks, max_delay, current_core_to_execute, max_slice,
                   cycles_late, host_call>>

(* The guest computes until downcount is used up, or a bit longer.         *)
Execute ==
    /\ step = "Run" /\ downcount[core] > 0
    /\ \E n \in 1..(downcount[core] + Overshoot) : AddTicks(core, n)
    /\ UNCHANGED <<loopVars, host_call>>

(* An SVC or a service, on behalf of the guest.                            *)
GuestCall ==
    /\ step = "Run"
    /\ \/ \E c \in Cores, d \in Delays, k \in Keys : ScheduleEvent(c, d, k)
       \/ \E keys \in CancelSets : Unschedule(keys)
    /\ UNCHANGED <<loopVars, host_call>>

(* No thread to run: the rest of the slice is skipped.                     *)
IdleCore ==
    /\ step = "Run" /\ downcount[core] > 0
    /\ Idle(core)
    /\ UNCHANGED <<loopVars, host_call>>

(* Run returns when the slice is used up or after PrepareReschedule; the   *)
(* next core gets no more time than this one used.                         *)
EndSlice ==
    /\ step = "Run"
    /\ IF loop = "RunAll"
       THEN /\ max_slice' = GetTicks(core) - start_ticks
            /\ IF core + 1 < NumCores THEN Goto(loop, "Begin", core + 1)
                                      ELSE Goto("Top", "Reschedule", core)
       ELSE Goto("Top", "Reschedule", core) /\ UNCHANGED max_slice
    /\ UNCHANGED <<timerVars, global_ticks, max_delay, current_core_to_execute,
                   start_ticks, cycles_late, host_call>>

(* System::Reschedule, at the end of RunLoop; the locals are gone.         *)
EndLoop ==
    /\ At("Top", "Reschedule")
    /\ Goto("Top", "Begin", 0)
    /\ global_ticks' = 0 /\ max_delay' = 0 /\ current_core_to_execute' = NoCore
    /\ max_slice' = 0 /\ start_ticks' = 0
    /\ UNCHANGED <<timerVars, cycles_late, host_call>>

(***************************************************************************)
(* ScheduleEvent in thread-safe mode, from a host thread: it reads the     *)
(* clock, and pushes the event later.                                      *)
(***************************************************************************)
HostReadsClock ==
    /\ host_call = {}
    /\ scheduled < MaxEvents
    /\ \E c \in Cores, d \in Delays : \E now \in RacyTicks(c) :
          host_call' = {[core |-> c, time |-> now + AtLeast(2 * MAX_SLICE_LENGTH, d)]}
    /\ UNCHANGED <<timerVars, loopVars>>

HostPushes ==
    /\ \E h \in host_call, k \in Keys : PushThreadSafe(h.core, h.time, k)
    /\ host_call' = {}
    /\ UNCHANGED loopVars

LoopStep ==
    \/ Begin \/ SkipCore \/ BeginAdvance \/ FireEvent \/ CallbackReturns
    \/ EndAdvance \/ SwitchThread \/ EndCatchUp \/ RunDelayed \/ StartAll
    \/ EndAdvanceAll \/ StartSlice \/ Execute \/ GuestCall \/ IdleCore
    \/ EndSlice \/ EndLoop

Next == LoopStep \/ HostReadsClock \/ HostPushes

Spec == Init /\ [][Next]_vars

(***************************************************************************)
(* Properties.                                                             *)
(***************************************************************************)
(* Every variable has its type; the ids of events are distinct.            *)
TypeOK ==
    /\ event_queue \in [Cores -> SUBSET Event]
    /\ event_fifo_id \in [Cores -> Nat]
    /\ ts_queue \in [Cores -> Seq(Event)]
    /\ is_timer_sane \in [Cores -> BOOLEAN]
    /\ slice_length \in [Cores -> Int] /\ downcount \in [Cores -> Int]
    /\ executed_ticks \in [Cores -> Int]
    /\ current_timer \in Cores
    /\ scheduled \in 0..MaxEvents
    /\ loop \in {"Top", "CatchUp", "RunDelayed", "AdvanceAll", "RunAll"}
    /\ step \in {"Begin", "Advance", "Reschedule", "Run"}
    /\ core \in 0..NumCores
    /\ current_core_to_execute \in Cores \cup {NoCore}
    /\ {global_ticks, max_delay, max_slice, start_ticks, cycles_late} \subseteq Int
    /\ host_call \subseteq [core : Cores, time : Int]

(* A slice never reaches over an event in the core's queue, however it got *)
(* there (ForceExceptionCheck, core_timing.cpp:190-196): only the overshoot  *)
(* can make a core's own event late.                                       *)
SliceStopsAtNextEvent ==
    \A c \in Cores : \A e \in event_queue[c] :
        ~is_timer_sane[c] =>
            executed_ticks[c] + slice_length[c] <= AtLeast(e.time, GetTicks(c))

(* While it runs, no core is ahead of another by more than a slice, what   *)
(* RunLoop tolerates, and what each of the others can overshoot: a core    *)
(* that catches up may pass the one it follows (core.cpp:151-177).         *)
MaxLead == MAX_SLICE_LENGTH + MIN_DELAY + (NumCores - 1) * Overshoot

CoresStayTogether ==
    step = "Run" => \A c, d \in Cores : GetTicks(c) - GetTicks(d) <= MaxLead

(* The assertion of GetMaxSliceLength (core_timing.cpp:209): when RunLoop  *)
(* asks for the next slice, the next event is in the future.               *)
NextEventInFuture ==
    At("AdvanceAll", "Reschedule") => GetMaxSliceLength(core) > 0

(* A slice fits: it ends at the core's next event, which is still to come, *)
(* and leaves no core far behind another.                                  *)
SlicesFit == SliceStopsAtNextEvent /\ CoresStayTogether /\ NextEventInFuture

(* The clock of a core moves only while its guest executes or its slice is *)
(* skipped: shortening a slice, ending it, Advance and SetNextSlice leave  *)
(* GetTicks where it was (core_timing.cpp:171-177, 190-251).               *)
OnlyExecutionTakesTime ==
    Execute \/ IdleCore \/ \A c \in Cores : GetTicks(c)' = GetTicks(c)

(* Events of the same time fire in the order they were scheduled, as long  *)
(* as they came the same way (tests/core/core_timing.cpp, SharedSlot).     *)
SharedSlotInOrder ==
    FireEvent => \A c \in Cores : \A e \in event_queue[c] \ event_queue'[c] :
        \A f \in event_queue[c] \ {e} :
            f.time = e.time /\ (f.by = "core" <=> e.by = "core") => e.id < f.id

(* Time and order, over any step: only execution takes time, and events    *)
(* of one time do not overtake each other.                                 *)
StepsOfTime == [][OnlyExecutionTakesTime /\ SharedSlotInOrder]_vars

(* The events to come, as EventSchedule sees them.                         *)
Waiting ==
    UNION {{[core |-> c, id |-> e.id, time |-> e.time, key |-> e.key,
             settled |-> TRUE] : e \in event_queue[c]} \cup
           {[core |-> c, id |-> ts_queue[c][i].id, time |-> ts_queue[c][i].time,
             key |-> ts_queue[c][i].key, settled |-> FALSE] :
             i \in 1..Len(ts_queue[c])} : c \in Cores}

Schedule == INSTANCE EventSchedule WITH now <- executed_ticks, waiting <- Waiting

(* Timers, loop and host threads together keep the promise of Core::Timing *)
(* (core_timing.cpp:65-139, 215-251): no event is lost, fires twice, early *)
(* or after a later one, and a cancelled event fires only if it was still  *)
(* in a ts_queue when it was cancelled.                                    *)
ImplementsSchedule == Schedule!Spec
=============================================================================

------------------------------ MODULE CoreTiming ------------------------------
(***************************************************************************)
(* Core::Timing (core/core_timing.h, core_timing.cpp): one Timer per       *)
(* emulated core, with a queue of its own and a ts_queue for events that   *)
(* come from other cores and from host threads.  The operations are        *)
(* actions on the variables of the timers; RunLoop.tla calls them.         *)
(***************************************************************************)
EXTENDS Integers, Sequences, FiniteSets

CONSTANTS
    NumCores,
    EventTypes, UserData,   \* TimingEventType and the word that goes with it
    MAX_SLICE_LENGTH,
    MaxEvents               \* bound: events scheduled in one behaviour

Cores == 0..(NumCores - 1)
Keys == [type : EventTypes, data : UserData]

ASSUME TimingAssumption ==
    /\ NumCores \in Nat \ {0}
    /\ MAX_SLICE_LENGTH \in Nat \ {0}
    /\ MaxEvents \in Nat

VARIABLES
    \* class Timer, per core; event_queue is the heap, as a set of events
    event_queue, event_fifo_id, ts_queue, is_timer_sane,
    slice_length, downcount, executed_ticks,
    \* class Timing: the core whose timer is current_timer
    current_timer,
    \* history variable: how many events were scheduled so far; it names them
    scheduled

timerVars == <<event_queue, event_fifo_id, ts_queue, is_timer_sane,
               slice_length, downcount, executed_ticks, current_timer, scheduled>>
queueVars == <<event_queue, event_fifo_id, ts_queue, scheduled>>
clockVars == <<slice_length, downcount, executed_ticks>>

(* An event; by tells who scheduled it: the core itself, another, a host   *)
(* thread.                                                                 *)
Event == [id : 1..MaxEvents, time : Int, fifo_order : Nat, key : Keys,
          by : {"core", "other", "host"}]

TimerInit ==
    /\ event_queue = [c \in Cores |-> {}]
    /\ event_fifo_id = [c \in Cores |-> 0]
    /\ ts_queue = [c \in Cores |-> <<>>]
    /\ is_timer_sane = [c \in Cores |-> TRUE]
    /\ slice_length = [c \in Cores |-> MAX_SLICE_LENGTH]
    /\ downcount = [c \in Cores |-> MAX_SLICE_LENGTH]
    /\ executed_ticks = [c \in Cores |-> 0]
    /\ current_timer = 0
    /\ scheduled = 0

(***************************************************************************)
(* Reading the clocks.                                                     *)
(***************************************************************************)
Executed(c) == slice_length[c] - downcount[c]
GetTicks(c) == executed_ticks[c] + (IF is_timer_sane[c] THEN 0 ELSE Executed(c))
GetGlobalTicks == CHOOSE n \in {GetTicks(c) : c \in Cores} :
                      \A c \in Cores : GetTicks(c) <= n

(* What a host thread can read while the core's thread writes: the members *)
(* are neither atomic nor protected, and each may be read before or after  *)
(* its update.  Advance moves Executed from two of them to the third;      *)
(* ForceExceptionCheck changes two by the same number; SetNextSlice sets   *)
(* these two, which are 0 before, one after the other.                     *)
RacyTicks(c) ==
    LET now == executed_ticks[c] + Executed(c) IN
    {executed_ticks[c] + n * Executed(c) : n \in 0..2}
    \cup {now + n : n \in (0 - downcount[c])..downcount[c]}
    \cup {now + n : n \in 0..(IF slice_length[c] = 0 THEN MAX_SLICE_LENGTH ELSE 0)}

(* The order of the heap: by time, then by fifo_order.                     *)
Before(e, f) ==
    e.time < f.time \/ (e.time = f.time /\ e.fifo_order < f.fifo_order)

IsFront(c, e) == /\ e \in event_queue[c]
                 /\ \A f \in event_queue[c] : ~Before(f, e)
Front(c) == CHOOSE e \in event_queue[c] : IsFront(c, e)

GetMaxSliceLength(c) ==
    IF event_queue[c] = {} THEN MAX_SLICE_LENGTH
                           ELSE Front(c).time - executed_ticks[c]

(***************************************************************************)
(* Scheduling and cancelling.                                              *)
(***************************************************************************)
AtLeast(a, b) == IF a > b THEN a ELSE b
AtMost(a, b) == IF a < b THEN a ELSE b

(* The core leaves its slice after that many cycles.                       *)
ForceExceptionCheck(c, cycles) ==
    LET n == AtLeast(0, cycles) IN
    IF downcount[c] > n
    THEN /\ slice_length' = [slice_length EXCEPT ![c] = @ - (downcount[c] - n)]
         /\ downcount' = [downcount EXCEPT ![c] = n]
    ELSE UNCHANGED <<slice_length, downcount>>

(* An event of the emulation thread, for any core's timer.                 *)
ScheduleEvent(c, cycles, key) ==
    LET e == [id |-> scheduled + 1, time |-> GetTicks(c) + cycles,
              fifo_order |-> 0, key |-> key, by |-> "other"] IN
    /\ scheduled < MaxEvents
    /\ scheduled' = scheduled + 1
    /\ UNCHANGED <<executed_ticks, is_timer_sane, current_timer>>
    /\ IF c = current_timer
       THEN /\ IF is_timer_sane[c] THEN UNCHANGED <<slice_length, downcount>>
                                   ELSE ForceExceptionCheck(c, cycles)
            /\ event_queue' = [event_queue EXCEPT ![c] = @ \cup
                   {[e EXCEPT !.fifo_order = event_fifo_id[c], !.by = "core"]}]
            /\ event_fifo_id' = [event_fifo_id EXCEPT ![c] = @ + 1]
            /\ UNCHANGED ts_queue
       ELSE /\ ts_queue' = [ts_queue EXCEPT ![c] = Append(@, e)]
            /\ UNCHANGED <<event_queue, event_fifo_id, slice_length, downcount>>

(* The end of a thread-safe ScheduleEvent: the time was computed before.   *)
PushThreadSafe(c, time, key) ==
    /\ scheduled < MaxEvents
    /\ scheduled' = scheduled + 1
    /\ ts_queue' = [ts_queue EXCEPT ![c] = Append(@,
           [id |-> scheduled + 1, time |-> time, fifo_order |-> 0,
            key |-> key, by |-> "host"])]
    /\ UNCHANGED <<event_queue, event_fifo_id, is_timer_sane, clockVars, current_timer>>

(* Faulty: only the timer of the current core is searched.                 *)
UnscheduleHere(keys) ==
    /\ event_queue' = [event_queue EXCEPT ![current_timer] =
                           {e \in @ : e.key \notin keys}]
    /\ UNCHANGED <<event_fifo_id, ts_queue, is_timer_sane, clockVars,
                   current_timer, scheduled>>

(* UnscheduleEvent and RemoveEvent: the keys are one key, or all keys of a *)
(* type.  What is in a ts_queue stays there.                               *)
Unschedule(keys) ==
    /\ event_queue' = [c \in Cores |-> {e \in event_queue[c] : e.key \notin keys}]
    /\ UNCHANGED <<event_fifo_id, ts_queue, is_timer_sane, clockVars,
                   current_timer, scheduled>>

CancelSets == {{k} : k \in Keys} \cup {[type : {t}, data : UserData] : t \in EventTypes}

(***************************************************************************)
(* Advance, in three actions: up to the loop, a turn of the loop, its end. *)
(***************************************************************************)
(* Faulty: events from other threads keep the fifo_order they came with.   *)
MovedUnordered(c) == {ts_queue[c][i] : i \in 1..Len(ts_queue[c])}

(* MoveEvents: the events of ts_queue, numbered in the order they came.    *)
Moved(c) == {[ts_queue[c][i] EXCEPT !.fifo_order = event_fifo_id[c] + i - 1] :
             i \in 1..Len(ts_queue[c])}

StopClock(c) == executed_ticks' = [executed_ticks EXCEPT ![c] = @ + Executed(c)]

AdvanceStart(c) ==
    /\ event_queue' = [event_queue EXCEPT ![c] = @ \cup Moved(c)]
    /\ event_fifo_id' = [event_fifo_id EXCEPT ![c] = @ + Len(ts_queue[c])]
    /\ ts_queue' = [ts_queue EXCEPT ![c] = <<>>]
    /\ StopClock(c)
    /\ slice_length' = [slice_length EXCEPT ![c] = 0]
    /\ downcount' = [downcount EXCEPT ![c] = 0]
    /\ is_timer_sane' = [is_timer_sane EXCEPT ![c] = TRUE]
    /\ UNCHANGED scheduled

Due(c) == \E e \in event_queue[c] : IsFront(c, e) /\ e.time <= executed_ticks[c]

PopEvent(c) ==
    /\ Due(c)
    /\ \E e \in event_queue[c] :
          IsFront(c, e) /\ event_queue' = [event_queue EXCEPT ![c] = @ \ {e}]
    /\ UNCHANGED <<event_fifo_id, ts_queue, is_timer_sane, clockVars,
                   current_timer, scheduled>>

AdvanceEnd(c) ==
    /\ ~Due(c)
    /\ is_timer_sane' = [is_timer_sane EXCEPT ![c] = FALSE]
    /\ UNCHANGED <<queueVars, clockVars, current_timer>>

(***************************************************************************)
(* Slices.  A core may run past the end of its slice.                      *)
(***************************************************************************)
(* Faulty: the next event does not bound the slice.                        *)
SliceWithoutEvents(c, max) == max

SliceUpToEvent(c, max) ==
    IF event_queue[c] = {} THEN max
                           ELSE AtMost(Front(c).time - executed_ticks[c], max)

SetNextSlice(c, max) ==
    /\ slice_length' = [slice_length EXCEPT ![c] = SliceUpToEvent(c, max)]
    /\ downcount' = [downcount EXCEPT ![c] = SliceUpToEvent(c, max)]
    /\ UNCHANGED <<queueVars, executed_ticks, is_timer_sane>>

AddTicks(c, n) ==
    /\ downcount' = [downcount EXCEPT ![c] = @ - n]
    /\ UNCHANGED <<queueVars, executed_ticks, slice_length, is_timer_sane, current_timer>>

Idle(c) ==
    /\ downcount' = [downcount EXCEPT ![c] = 0]
    /\ UNCHANGED <<queueVars, executed_ticks, slice_length, is_timer_sane, current_timer>>
=============================================================================

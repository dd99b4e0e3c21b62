---------------------------- MODULE RunLoop_proofs ----------------------------
(***************************************************************************)
(* The timers and RunLoop for any number of cores, any slice, any delays:  *)
(* slices end at the next event, the cores stay together, only execution   *)
(* takes time, and the events keep what EventSchedule promises.            *)
(***************************************************************************)
EXTENDS RunLoop, FiniteSetTheorems, SequenceTheorems, WellFoundedInduction, TLAPS

USE DEF timerVars, queueVars, clockVars, loopVars

(***************************************************************************)
(* The inductive invariant.                                                *)
(***************************************************************************)
(* The types of TypeOK, those of the timers apart; queues are finite.       *)
Timers ==
    /\ event_queue \in [Cores -> SUBSET Event]
    /\ event_fifo_id \in [Cores -> Nat]
    /\ ts_queue \in [Cores -> Seq(Event)]
    /\ is_timer_sane \in [Cores -> BOOLEAN]
    /\ slice_length \in [Cores -> Int] /\ downcount \in [Cores -> Int]
    /\ executed_ticks \in [Cores -> Int]
    /\ current_timer \in Cores
    /\ scheduled \in 0..MaxEvents
    /\ \A c \in Cores : IsFiniteSet(event_queue[c])

Locals ==
    /\ loop \in {"Top", "CatchUp", "RunDelayed", "AdvanceAll", "RunAll"}
    /\ step \in {"Begin", "Advance", "Reschedule", "Run"}
    /\ core \in 0..NumCores
    /\ current_core_to_execute \in Cores \cup {NoCore}
    /\ global_ticks \in Int /\ max_delay \in Int /\ max_slice \in Int
    /\ start_ticks \in Int /\ cycles_late \in Int
    /\ host_call \subseteq [core : Cores, time : Int]

(* Where the loops are, and what that says of the locals of RunLoop.       *)
Located ==
    /\ step = "Advance" => loop \in {"CatchUp", "AdvanceAll"}
    /\ step = "Run" => loop \in {"RunDelayed", "RunAll"}
    /\ loop = "RunDelayed" => step = "Run"
    /\ loop = "RunAll" => step \in {"Begin", "Run"}
    /\ step # "Begin" \/ loop \in {"AdvanceAll", "RunAll"} => core \in Cores
    /\ step # "Begin" /\ loop # "Top" => current_timer = core
    /\ cycles_late \in Nat \cup {NotLate}
    /\ cycles_late # NotLate => step = "Advance"
    /\ max_delay \in Nat
    /\ max_delay > 0 => current_core_to_execute \in Cores
    /\ loop = "Top" /\ step = "Begin" =>
           max_delay = 0 /\ current_core_to_execute = NoCore

(* The clocks: when a timer is sane, and who has a slice of its own.       *)
Stopped(c) == slice_length[c] = 0 /\ downcount[c] = 0

Sanity ==
    /\ \A c \in Cores : downcount[c] <= slice_length[c]
    /\ \A c \in Cores : is_timer_sane[c] => downcount[c] = slice_length[c]
    /\ step = "Advance" => is_timer_sane[core] /\ Stopped(core)
    /\ step = "Reschedule" /\ loop # "Top" => ~is_timer_sane[core] /\ Stopped(core)
    /\ step = "Run" => ~is_timer_sane[core]
    /\ loop = "AdvanceAll" =>
           \A c \in Cores : c < core => ~is_timer_sane[c] /\ Stopped(c)
    /\ loop = "RunAll" => \A c \in Cores : ~is_timer_sane[c]
    /\ loop = "RunAll" => \A c \in Cores :
           c > core \/ (c = core /\ step = "Begin") => Stopped(c)
    /\ loop \in {"CatchUp", "RunDelayed"} /\ current_core_to_execute \in Cores =>
           ~is_timer_sane[current_core_to_execute]
    /\ loop = "CatchUp" => current_core_to_execute < core

(* After Advance the events that are left are in the future.               *)
NothingDue ==
    step = "Reschedule" /\ loop # "Top" =>
        \A e \in event_queue[core] : e.time > executed_ticks[core]

(* Identities and the order of the events.                                 *)
Waits(c) == 1..Len(ts_queue[c])

Known == \A c \in Cores :
    /\ \A e \in event_queue[c] : e.id <= scheduled /\ e.fifo_order < event_fifo_id[c]
    /\ \A i \in Waits(c) : ts_queue[c][i].id <= scheduled /\ ts_queue[c][i].by # "core"

Distinct == \A c, d \in Cores :
    /\ \A e \in event_queue[c], f \in event_queue[d] : e.id = f.id => c = d /\ e = f
    /\ \A e \in event_queue[c], i \in Waits(d) : e.id # ts_queue[d][i].id
    /\ \A i \in Waits(c), j \in Waits(d) :
           ts_queue[c][i].id = ts_queue[d][j].id => c = d /\ i = j

Ordered == \A c \in Cores :
    /\ \A e, f \in event_queue[c] : e.fifo_order = f.fifo_order => e = f
    /\ \A e, f \in event_queue[c] :
           e.fifo_order < f.fifo_order /\ (e.by = "core" <=> f.by = "core") => e.id < f.id
    /\ \A e \in event_queue[c], i \in Waits(c) : e.by # "core" => e.id < ts_queue[c][i].id
    /\ \A i, j \in Waits(c) : i < j => ts_queue[c][i].id < ts_queue[c][j].id

(* How far the cores are apart: no core is behind another by more than     *)
(* what RunLoop tolerates and an overshoot for each of its rank.           *)
Ranks == {r \in [Cores -> Cores] : \A c, d \in Cores : r[c] = r[d] => c = d}
Tolerated == MAX_SLICE_LENGTH + MIN_DELAY
Over(k) == k * Overshoot

Together ==
    loop = "Top" => \E r \in Ranks : \A c, d \in Cores :
        GetTicks(d) - GetTicks(c) <= Tolerated + Over(r[c])

Following ==
    loop = "CatchUp" =>
        /\ \E r \in Ranks : \A c \in Cores :
               global_ticks - GetTicks(c) <= Tolerated + Over(r[c])
        /\ \A c \in Cores : GetTicks(c) <= global_ticks
        /\ \A c \in Cores : c < core => global_ticks - GetTicks(c) <= max_delay
        /\ current_core_to_execute \in Cores =>
               /\ max_delay = global_ticks - GetTicks(current_core_to_execute)
               /\ downcount[current_core_to_execute] <= max_delay
        /\ step = "Reschedule" => GetTicks(core) < global_ticks
        /\ step = "Advance" => GetTicks(core) < global_ticks

Catching ==
    loop = "RunDelayed" =>
        /\ \E r \in Ranks : \A c \in Cores :
               global_ticks - GetTicks(c) <= Tolerated + Over(r[c])
        /\ \E r \in Ranks : r[core] = 0 /\ \A c \in Cores \ {core} :
               global_ticks + Overshoot - GetTicks(c) <= Tolerated + Over(r[c])
        /\ \A c \in Cores \ {core} : GetTicks(c) <= global_ticks
        /\ GetTicks(core) <= global_ticks + Overshoot
        /\ GetTicks(core) + downcount[core] <= global_ticks

Near(c) == global_ticks - MIN_DELAY <= GetTicks(c) /\ GetTicks(c) <= global_ticks

Gathered ==
    loop = "AdvanceAll" =>
        /\ \A c \in Cores : Near(c)
        /\ 0 <= max_slice /\ max_slice <= MAX_SLICE_LENGTH

InTurn ==
    loop = "RunAll" =>
        /\ \A c \in Cores : c > core \/ (c = core /\ step = "Begin") => Near(c)
        /\ 0 <= max_slice /\ max_slice <= MAX_SLICE_LENGTH + Over(core)
        /\ \A c \in Cores : c < core =>
              /\ global_ticks - MIN_DELAY <= GetTicks(c)
              /\ GetTicks(c) <= global_ticks + MAX_SLICE_LENGTH + Over(c + 1)
              /\ global_ticks - MIN_DELAY + max_slice <=
                     GetTicks(c) + Over(core - 1 - c)
        /\ \A c, d \in Cores : c < d /\ d < core =>
              GetTicks(d) - GetTicks(c) <= MIN_DELAY + Over(d - c)
        /\ step = "Run" =>
              /\ global_ticks - MIN_DELAY <= start_ticks /\ start_ticks <= global_ticks
              /\ start_ticks <= GetTicks(core)
              /\ GetTicks(core) <= start_ticks + max_slice + Overshoot
              /\ GetTicks(core) + downcount[core] <= start_ticks + max_slice

Spread == Together /\ Following /\ Catching /\ Gathered /\ InTurn

(***************************************************************************)
(* Fronts.                                                                 *)
(***************************************************************************)
(* In a nonempty finite set, a strict order has a minimal element: one     *)
(* with a minimal set of predecessors.                                     *)
LEMMA MinimalElement ==
    ASSUME NEW S, IsFiniteSet(S), S # {}, NEW R,
           \A x \in S : <<x, x>> \notin R,
           \A x, y, z \in S : <<x, y>> \in R /\ <<y, z>> \in R => <<x, z>> \in R
    PROVE  \E x \in S : \A y \in S : <<y, x>> \notin R
<1> DEFINE Below(x) == {y \in S : <<y, x>> \in R}
           T == {Below(x) : x \in S}
<1>1. T \subseteq FiniteSubsetsOf(S) /\ T # {}
  <2>1. \A x \in S : Below(x) \in SUBSET S /\ IsFiniteSet(Below(x))
    BY FS_Subset
  <2>2. \A x \in S : Below(x) \in FiniteSubsetsOf(S)
    BY <2>1, Zenon DEF FiniteSubsetsOf
  <2>3. PICK x \in S : TRUE
    OBVIOUS
  <2>4. Below(x) \in T
    OBVIOUS
  <2>5. T \subseteq FiniteSubsetsOf(S)
    <3> SUFFICES ASSUME NEW X \in T
                 PROVE  X \in FiniteSubsetsOf(S)
      OBVIOUS
    <3>1. PICK x1 \in S : X = Below(x1)
      OBVIOUS
    <3> HIDE DEF Below
    <3> QED
      BY <2>2, <3>1
  <2> QED
    BY <2>4, <2>5
<1>2. PICK X \in T : \A Y \in T : ~ (<<Y, X>> \in StrictSubsetOrdering(S))
  <2> HIDE DEF T
  <2> QED
    BY <1>1, FS_StrictSubsetOrderingWellFounded, WFMin
<1>3. PICK x \in S : X = Below(x)
  OBVIOUS
<1>4. \A y \in S : <<y, x>> \notin R
  <2> SUFFICES ASSUME NEW y \in S, <<y, x>> \in R
               PROVE  FALSE
    OBVIOUS
  <2>1. Below(y) \subseteq Below(x) /\ y \in Below(x) /\ y \notin Below(y)
    OBVIOUS
  <2>2. Below(y) \in T /\ Below(y) \subseteq S /\ Below(x) \subseteq S
    OBVIOUS
  <2>3. <<Below(y), Below(x)>> \in StrictSubsetOrdering(S)
    BY <2>1, <2>2, Zenon DEF StrictSubsetOrdering
  <2> QED
    BY <1>2, <1>3, <2>2, <2>3
<1> QED
  BY <1>4

LEMMA EventFields ==
    ASSUME NEW e \in Event
    PROVE  /\ e.id \in 1..MaxEvents /\ e.id \in Nat /\ e.time \in Int
           /\ e.fifo_order \in Nat /\ e.key \in Keys
<1>1. 1..MaxEvents \subseteq Nat
  BY TimingAssumption
<1> QED
  BY <1>1 DEF Event

LEMMA TimerTypes ==
    ASSUME Timers, NEW c \in Cores
    PROVE  /\ event_queue[c] \in SUBSET Event /\ event_queue[c] \subseteq Event
           /\ event_fifo_id[c] \in Nat /\ ts_queue[c] \in Seq(Event)
           /\ is_timer_sane[c] \in BOOLEAN /\ slice_length[c] \in Int
           /\ downcount[c] \in Int /\ executed_ticks[c] \in Int
           /\ IsFiniteSet(event_queue[c])
<1>1. /\ event_queue \in [Cores -> SUBSET Event]
      /\ event_fifo_id \in [Cores -> Nat]
      /\ ts_queue \in [Cores -> Seq(Event)]
      /\ is_timer_sane \in [Cores -> BOOLEAN]
      /\ slice_length \in [Cores -> Int] /\ downcount \in [Cores -> Int]
      /\ executed_ticks \in [Cores -> Int]
      /\ IsFiniteSet(event_queue[c])
  BY DEF Timers
<1> QED
  BY <1>1

LEMMA TicksType ==
    ASSUME Timers, NEW c \in Cores
    PROVE  GetTicks(c) \in Int /\ Executed(c) \in Int
<1>1. Executed(c) \in Int
  BY TimerTypes DEF Executed
<1> QED
  BY <1>1, TimerTypes DEF GetTicks

(* A queue that is not empty has a front: no event comes earlier.          *)
LEMMA FrontOfQueue ==
    ASSUME Timers, NEW c \in Cores, event_queue[c] # {}
    PROVE  /\ Front(c) \in event_queue[c] /\ IsFront(c, Front(c))
           /\ \A f \in event_queue[c] : Front(c).time <= f.time
<1> DEFINE Q == event_queue[c]
           R == {p \in Q \X Q : Before(p[1], p[2])}
<1>1. \A e \in Q : e.time \in Int /\ e.fifo_order \in Nat
  BY TimerTypes, EventFields
<1>2. \A e, f \in Q : <<e, f>> \in R <=> Before(e, f)
  OBVIOUS
<1> HIDE DEF R
<1>3. \A e \in Q : <<e, e>> \notin R
  BY <1>1, <1>2 DEF Before
<1>4. \A e, f, g \in Q : <<e, f>> \in R /\ <<f, g>> \in R => <<e, g>> \in R
  BY <1>1, <1>2 DEF Before
<1> HIDE DEF Q
<1>5. PICK e \in Q : \A f \in Q : <<f, e>> \notin R
  <2>1. IsFiniteSet(Q) /\ Q # {}
    BY TimerTypes DEF Q
  <2> QED
    BY <1>3, <1>4, <2>1, MinimalElement
<1>6. e \in event_queue[c] /\ IsFront(c, e)
  BY <1>2, <1>5 DEF IsFront, Q
<1>7. Front(c) \in event_queue[c] /\ IsFront(c, Front(c))
  BY <1>6 DEF Front
<1>8. \A f \in event_queue[c] : Front(c).time <= f.time
  BY <1>1, <1>7 DEF IsFront, Before, Q
<1> QED
  BY <1>7, <1>8

(* Some core is ahead of all, and GetGlobalTicks is its time.              *)
LEMMA Leader ==
    ASSUME NEW T, \A c \in Cores : T[c] \in Int
    PROVE  \E l \in Cores : \A c \in Cores : T[c] <= T[l]
<1> DEFINE R == {p \in Cores \X Cores : T[p[1]] > T[p[2]]}
<1>1. IsFiniteSet(Cores) /\ Cores # {}
  <2>1. NumCores \in Nat /\ NumCores >= 1 /\ NumCores - 1 \in Int
    BY TimingAssumption
  <2>2. IsFiniteSet(0..(NumCores - 1)) /\ 0 \in 0..(NumCores - 1)
    BY <2>1, FS_Interval
  <2> QED
    BY <2>2 DEF Cores
<1>2. \A c, d \in Cores : <<c, d>> \in R <=> T[c] > T[d]
  OBVIOUS
<1> HIDE DEF R
<1>3. PICK l \in Cores : \A c \in Cores : <<c, l>> \notin R
  <2>1. \A c \in Cores : <<c, c>> \notin R
    BY <1>2
  <2>2. \A c, d, e \in Cores : <<c, d>> \in R /\ <<d, e>> \in R => <<c, e>> \in R
    BY <1>2
  <2> QED
    BY <1>1, <2>1, <2>2, MinimalElement
<1>4. \A c \in Cores : ~ (T[c] > T[l])
  BY <1>2, <1>3
<1> QED
  BY <1>4

LEMMA GlobalTicks ==
    ASSUME Timers
    PROVE  \E l \in Cores :
               /\ GetGlobalTicks = GetTicks(l)
               /\ \A c \in Cores : GetTicks(c) <= GetGlobalTicks
<1> DEFINE T == [c \in Cores |-> GetTicks(c)]
<1>1. PICK l \in Cores : \A c \in Cores : T[c] <= T[l]
  <2>1. \A c \in Cores : T[c] \in Int
    BY TicksType
  <2> HIDE DEF T
  <2> QED
    BY <2>1, Leader
<1>2. \A c \in Cores : GetTicks(c) <= GetTicks(l)
  BY <1>1
<1>3. /\ GetGlobalTicks \in {GetTicks(c) : c \in Cores}
      /\ \A c \in Cores : GetTicks(c) <= GetGlobalTicks
  BY <1>2 DEF GetGlobalTicks
<1> QED
  BY <1>3

(***************************************************************************)
(* What the operations of the timers do.                                   *)
(***************************************************************************)
(* ForceExceptionCheck moves the end of the slice, not the clock.          *)
LEMMA ForceExceptionCheckEffect ==
    ASSUME Timers, NEW c \in Cores, NEW d \in Int, ForceExceptionCheck(c, d)
    PROVE  /\ slice_length' \in [Cores -> Int] /\ downcount' \in [Cores -> Int]
           /\ \A x \in Cores \ {c} :
                  slice_length'[x] = slice_length[x] /\ downcount'[x] = downcount[x]
           /\ slice_length'[c] - downcount'[c] = slice_length[c] - downcount[c]
           /\ downcount'[c] <= downcount[c]
           /\ downcount'[c] <= 0 \/ downcount'[c] <= d
<1>1. /\ slice_length \in [Cores -> Int] /\ downcount \in [Cores -> Int]
      /\ slice_length[c] \in Int /\ downcount[c] \in Int
  BY TimerTypes DEF Timers
<1>2. PICK n \in Int : n = AtLeast(0, d) /\ n >= 0 /\ (n = d \/ n = 0)
  BY DEF AtLeast
<1>3. CASE downcount[c] > n
  <2>1. /\ slice_length' = [slice_length EXCEPT ![c] = @ - (downcount[c] - n)]
        /\ downcount' = [downcount EXCEPT ![c] = n]
    BY <1>2, <1>3 DEF ForceExceptionCheck
  <2> QED
    BY <1>1, <1>2, <1>3, <2>1
<1>4. CASE ~ (downcount[c] > n)
  <2>1. slice_length' = slice_length /\ downcount' = downcount
    BY <1>2, <1>4 DEF ForceExceptionCheck
  <2> QED
    BY <1>1, <1>2, <1>4, <2>1
<1> QED
  BY <1>3, <1>4

(* A new event, in the core's own queue or at the end of a ts_queue.       *)
OwnEvent(c, e) ==
    /\ event_queue' = [event_queue EXCEPT ![c] = @ \cup {e}]
    /\ event_fifo_id' = [event_fifo_id EXCEPT ![c] = @ + 1]
    /\ ts_queue' = ts_queue
    /\ e.by = "core" /\ e.fifo_order = event_fifo_id[c]

TsEvent(c, e) ==
    /\ ts_queue' = [ts_queue EXCEPT ![c] = Append(@, e)]
    /\ event_queue' = event_queue /\ event_fifo_id' = event_fifo_id
    /\ e.by # "core"

NewEvent(c, e, key) ==
    /\ e \in Event /\ e.id = scheduled + 1 /\ e.key = key
    /\ scheduled' = scheduled + 1 /\ scheduled < MaxEvents
    /\ OwnEvent(c, e) \/ TsEvent(c, e)

LEMMA NewEventTypes ==
    ASSUME Timers, NEW c \in Cores, NEW key, NEW e, NewEvent(c, e, key)
    PROVE  /\ event_queue' \in [Cores -> SUBSET Event]
           /\ event_fifo_id' \in [Cores -> Nat]
           /\ ts_queue' \in [Cores -> Seq(Event)]
           /\ scheduled' \in 0..MaxEvents
           /\ \A x \in Cores : IsFiniteSet(event_queue'[x])
<1>1. /\ event_queue \in [Cores -> SUBSET Event]
      /\ event_fifo_id \in [Cores -> Nat]
      /\ ts_queue \in [Cores -> Seq(Event)]
      /\ scheduled \in 0..MaxEvents
      /\ \A x \in Cores : IsFiniteSet(event_queue[x])
  BY DEF Timers
<1>2. e \in Event /\ scheduled' = scheduled + 1 /\ scheduled < MaxEvents
  BY DEF NewEvent
<1>3. scheduled' \in 0..MaxEvents
  BY <1>1, <1>2, TimingAssumption
<1>4. CASE OwnEvent(c, e)
  <2>1. IsFiniteSet(event_queue[c] \cup {e})
    BY <1>1, FS_AddElement
  <2> QED
    BY <1>1, <1>2, <1>3, <1>4, <2>1 DEF OwnEvent
<1>5. CASE TsEvent(c, e)
  <2>1. Append(ts_queue[c], e) \in Seq(Event)
    BY <1>1, <1>2
  <2> QED
    BY <1>1, <1>3, <1>5, <2>1 DEF TsEvent
<1> QED
  BY <1>4, <1>5 DEF NewEvent

LEMMA OwnEventRecord ==
    ASSUME NEW id, NEW time, NEW order, NEW key
    PROVE  [[id |-> id, time |-> time, fifo_order |-> 0, key |-> key, by |-> "other"]
                EXCEPT !.fifo_order = order, !.by = "core"]
           = [id |-> id, time |-> time, fifo_order |-> order, key |-> key, by |-> "core"]
<1> DEFINE F == {"id", "time", "fifo_order", "key", "by"}
           r == [id |-> id, time |-> time, fifo_order |-> 0, key |-> key, by |-> "other"]
           s == [r EXCEPT !.fifo_order = order, !.by = "core"]
           q == [id |-> id, time |-> time, fifo_order |-> order, key |-> key, by |-> "core"]
<1>1. r = [f \in F |-> r[f]] /\ r.id = id /\ r.time = time /\ r.key = key
  OBVIOUS
<1>2. q = [f \in F |-> q[f]]
  OBVIOUS
<1>3. /\ q.id = id /\ q.time = time /\ q.key = key /\ q.fifo_order = order
      /\ q.by = "core"
  OBVIOUS
<1> HIDE DEF r, q
<1>4. s = [f \in F |-> s[f]]
  BY <1>1
<1>5. \A f \in F : s[f] = q[f]
  BY <1>1, <1>3
<1> QED
  BY <1>2, <1>4, <1>5 DEF r, q

(* ScheduleEvent: a new event, and on the core that executes the end of    *)
(* its slice when the event comes before.                                  *)
LEMMA ScheduleEventEffect ==
    ASSUME Timers, NEW c \in Cores, NEW d \in Int, NEW k \in Keys,
           ScheduleEvent(c, d, k)
    PROVE  /\ \E e : /\ NewEvent(c, e, k) /\ e.time = GetTicks(c) + d
                     /\ OwnEvent(c, e) => c = current_timer
                     /\ OwnEvent(c, e) /\ ~is_timer_sane[c] =>
                            downcount'[c] <= 0 \/ downcount'[c] <= d
           /\ slice_length' \in [Cores -> Int] /\ downcount' \in [Cores -> Int]
           /\ \A x \in Cores :
                  /\ slice_length'[x] - downcount'[x] = slice_length[x] - downcount[x]
                  /\ downcount'[x] <= downcount[x]
                  /\ is_timer_sane[x] \/ x # current_timer =>
                         slice_length'[x] = slice_length[x] /\ downcount'[x] = downcount[x]
           /\ UNCHANGED <<executed_ticks, is_timer_sane, current_timer>>
<1>1. /\ slice_length \in [Cores -> Int] /\ downcount \in [Cores -> Int]
      /\ event_fifo_id[c] \in Nat /\ scheduled \in 0..MaxEvents /\ GetTicks(c) \in Int
      /\ \A x \in Cores : slice_length[x] \in Int /\ downcount[x] \in Int
  BY TimerTypes, TicksType DEF Timers
<1>2. /\ scheduled < MaxEvents /\ scheduled' = scheduled + 1
      /\ UNCHANGED <<executed_ticks, is_timer_sane, current_timer>>
  BY DEF ScheduleEvent
<1>3. scheduled + 1 \in 1..MaxEvents /\ GetTicks(c) + d \in Int
  BY <1>1, <1>2, TimingAssumption
<1>4. CASE c = current_timer
  <2> DEFINE e == [id |-> scheduled + 1, time |-> GetTicks(c) + d,
                   fifo_order |-> event_fifo_id[c], key |-> k, by |-> "core"]
  <2>1. /\ event_queue' = [event_queue EXCEPT ![c] = @ \cup {e}]
        /\ event_fifo_id' = [event_fifo_id EXCEPT ![c] = @ + 1]
        /\ ts_queue' = ts_queue
        /\ IF is_timer_sane[c] THEN UNCHANGED <<slice_length, downcount>>
                               ELSE ForceExceptionCheck(c, d)
    <3>1. [[id |-> scheduled + 1, time |-> GetTicks(c) + d, fifo_order |-> 0,
            key |-> k, by |-> "other"]
               EXCEPT !.fifo_order = event_fifo_id[c], !.by = "core"] = e
      BY OwnEventRecord
    <3> HIDE DEF e
    <3> QED
      BY <1>4, <3>1 DEF ScheduleEvent
  <2>2. e \in Event
    BY <1>1, <1>3 DEF Event
  <2>3. NewEvent(c, e, k) /\ e.time = GetTicks(c) + d
    BY <1>2, <2>1, <2>2 DEF NewEvent, OwnEvent
  <2> HIDE DEF e
  <2>4. CASE is_timer_sane[c]
    <3>1. slice_length' = slice_length /\ downcount' = downcount
      BY <2>1, <2>4
    <3> QED
      BY <1>1, <1>2, <1>4, <2>3, <2>4, <3>1
  <2>5. CASE ~is_timer_sane[c]
    <3>1. ForceExceptionCheck(c, d)
      BY <2>1, <2>5
    <3>2. /\ slice_length' \in [Cores -> Int] /\ downcount' \in [Cores -> Int]
          /\ \A x \in Cores \ {c} :
                 slice_length'[x] = slice_length[x] /\ downcount'[x] = downcount[x]
          /\ slice_length'[c] - downcount'[c] = slice_length[c] - downcount[c]
          /\ downcount'[c] <= downcount[c]
          /\ downcount'[c] <= 0 \/ downcount'[c] <= d
      BY <3>1, ForceExceptionCheckEffect
    <3> QED
      BY <1>1, <1>2, <1>4, <2>3, <2>5, <3>2
  <2> QED
    BY <2>4, <2>5
<1>5. CASE c # current_timer
  <2> DEFINE e == [id |-> scheduled + 1, time |-> GetTicks(c) + d,
                   fifo_order |-> 0, key |-> k, by |-> "other"]
  <2>1. /\ ts_queue' = [ts_queue EXCEPT ![c] = Append(@, e)]
        /\ UNCHANGED <<event_queue, event_fifo_id, slice_length, downcount>>
    BY <1>5 DEF ScheduleEvent
  <2>2. e \in Event
    BY <1>3 DEF Event
  <2>3. NewEvent(c, e, k) /\ e.time = GetTicks(c) + d /\ e.by # "core"
    BY <1>2, <2>1, <2>2 DEF NewEvent, TsEvent
  <2> HIDE DEF e
  <2>4. ~ OwnEvent(c, e)
    BY <2>3 DEF OwnEvent
  <2> QED
    BY <1>1, <1>2, <2>1, <2>3, <2>4
<1> QED
  BY <1>4, <1>5

(* The end of a thread-safe call.                                          *)
LEMMA PushThreadSafeEffect ==
    ASSUME Timers, NEW c \in Cores, NEW t \in Int, NEW k \in Keys,
           PushThreadSafe(c, t, k)
    PROVE  /\ \E e : NewEvent(c, e, k) /\ ~OwnEvent(c, e)
           /\ UNCHANGED <<is_timer_sane, slice_length, downcount, executed_ticks,
                          current_timer>>
<1> DEFINE e == [id |-> scheduled + 1, time |-> t, fifo_order |-> 0,
                 key |-> k, by |-> "host"]
<1>1. /\ scheduled < MaxEvents /\ scheduled' = scheduled + 1
      /\ ts_queue' = [ts_queue EXCEPT ![c] = Append(@, e)]
      /\ UNCHANGED <<event_queue, event_fifo_id, is_timer_sane, slice_length,
                     downcount, executed_ticks, current_timer>>
  BY DEF PushThreadSafe
<1>2. scheduled + 1 \in 1..MaxEvents
  BY <1>1, TimingAssumption DEF Timers
<1>3. e \in Event
  BY <1>2 DEF Event
<1>4. NewEvent(c, e, k) /\ ~OwnEvent(c, e)
  BY <1>1, <1>3 DEF NewEvent, TsEvent, OwnEvent
<1> QED
  BY <1>1, <1>4

(* Events leave the queues: cancelled, or popped.                          *)
FewerEvents ==
    /\ event_queue' \in [Cores -> SUBSET Event]
    /\ \A c \in Cores : event_queue'[c] \subseteq event_queue[c]
    /\ UNCHANGED <<event_fifo_id, ts_queue, is_timer_sane, slice_length, downcount,
                   executed_ticks, current_timer, scheduled>>

LEMMA UnscheduleEffect ==
    ASSUME Timers, NEW keys, Unschedule(keys)
    PROVE  /\ FewerEvents
           /\ \A c \in Cores : event_queue'[c] = {e \in event_queue[c] : e.key \notin keys}
<1>1. event_queue \in [Cores -> SUBSET Event]
  BY DEF Timers
<1> QED
  BY <1>1 DEF Unschedule, FewerEvents

(* The event that is popped is as early as the front, and due.             *)
LEMMA PopEventEffect ==
    ASSUME Timers, NEW c \in Cores, PopEvent(c)
    PROVE  /\ FewerEvents
           /\ Front(c) \in event_queue[c] /\ Front(c).time <= executed_ticks[c]
           /\ \E e \in event_queue[c] :
                  /\ IsFront(c, e) /\ e.time <= executed_ticks[c]
                  /\ event_queue' = [event_queue EXCEPT ![c] = @ \ {e}]
<1>1. /\ event_queue \in [Cores -> SUBSET Event]
      /\ event_queue[c] \subseteq Event /\ executed_ticks[c] \in Int
  BY TimerTypes DEF Timers
<1>2. PICK e \in event_queue[c] :
          IsFront(c, e) /\ event_queue' = [event_queue EXCEPT ![c] = @ \ {e}]
  BY DEF PopEvent
<1>3. PICK f \in event_queue[c] : IsFront(c, f) /\ f.time <= executed_ticks[c]
  BY DEF PopEvent, Due
<1>4. FewerEvents
  <2>1. UNCHANGED <<event_fifo_id, ts_queue, is_timer_sane, slice_length, downcount,
                    executed_ticks, current_timer, scheduled>>
    BY DEF PopEvent
  <2> QED
    BY <1>1, <1>2, <2>1 DEF FewerEvents
<1>5. Front(c) \in event_queue[c] /\ Front(c).time <= f.time
  BY FrontOfQueue
<1>6. \A x \in event_queue[c] : x.time \in Int /\ x.fifo_order \in Nat
  BY <1>1, EventFields
<1>7. Front(c).time <= executed_ticks[c]
  BY <1>1, <1>3, <1>5, <1>6
<1>8. e.time <= f.time
  BY <1>2, <1>6 DEF IsFront, Before
<1>9. e.time <= executed_ticks[c]
  BY <1>1, <1>3, <1>6, <1>8
<1> QED
  BY <1>2, <1>4, <1>5, <1>7, <1>9

LEMMA Renumbered ==
    ASSUME NEW e \in Event, NEW n \in Nat
    PROVE  LET f == [e EXCEPT !.fifo_order = n] IN
           /\ f \in Event /\ f.fifo_order = n
           /\ f.id = e.id /\ f.time = e.time /\ f.key = e.key /\ f.by = e.by
BY DEF Event

(* MoveEvents: the events of ts_queue join the queue, renumbered.          *)
MovedEvent(c, i) == [ts_queue[c][i] EXCEPT !.fifo_order = event_fifo_id[c] + i - 1]

LEMMA MovedEvents ==
    ASSUME Timers, NEW c \in Cores
    PROVE  /\ Moved(c) = {MovedEvent(c, i) : i \in Waits(c)}
           /\ Moved(c) \subseteq Event /\ IsFiniteSet(Moved(c))
           /\ Len(ts_queue[c]) \in Nat
           /\ \A i \in Waits(c) :
                  /\ MovedEvent(c, i) \in Event
                  /\ MovedEvent(c, i).id = ts_queue[c][i].id
                  /\ MovedEvent(c, i).time = ts_queue[c][i].time
                  /\ MovedEvent(c, i).key = ts_queue[c][i].key
                  /\ MovedEvent(c, i).by = ts_queue[c][i].by
                  /\ MovedEvent(c, i).fifo_order = event_fifo_id[c] + i - 1
<1>1. ts_queue[c] \in Seq(Event) /\ event_fifo_id[c] \in Nat
  BY TimerTypes
<1>2. \A i \in Waits(c) :
          ts_queue[c][i] \in Event /\ event_fifo_id[c] + i - 1 \in Nat
  BY <1>1 DEF Waits
<1>3. \A i \in Waits(c) :
          /\ MovedEvent(c, i) \in Event
          /\ MovedEvent(c, i).id = ts_queue[c][i].id
          /\ MovedEvent(c, i).time = ts_queue[c][i].time
          /\ MovedEvent(c, i).key = ts_queue[c][i].key
          /\ MovedEvent(c, i).by = ts_queue[c][i].by
          /\ MovedEvent(c, i).fifo_order = event_fifo_id[c] + i - 1
  BY <1>2, Renumbered DEF MovedEvent
<1>4. Moved(c) = {MovedEvent(c, i) : i \in Waits(c)}
  BY DEF Moved, MovedEvent, Waits
<1>5. IsFiniteSet(Waits(c))
  BY <1>1, FS_Interval DEF Waits
<1>6. IsFiniteSet({MovedEvent(c, i) : i \in Waits(c)})
  <2> DEFINE T == {MovedEvent(c, i) : i \in Waits(c)}
             f == [i \in Waits(c) |-> MovedEvent(c, i)]
  <2>1. f \in Surjection(Waits(c), T)
    BY DEF Surjection
  <2> QED
    BY <1>5, <2>1, FS_Surjection
<1> QED
  BY <1>1, <1>3, <1>4, <1>6

LEMMA AdvanceStartEffect ==
    ASSUME Timers, NEW c \in Cores, AdvanceStart(c)
    PROVE  /\ event_queue' \in [Cores -> SUBSET Event]
           /\ event_fifo_id' \in [Cores -> Nat]
           /\ ts_queue' \in [Cores -> Seq(Event)]
           /\ is_timer_sane' \in [Cores -> BOOLEAN]
           /\ slice_length' \in [Cores -> Int] /\ downcount' \in [Cores -> Int]
           /\ executed_ticks' \in [Cores -> Int]
           /\ scheduled' = scheduled
           /\ \A x \in Cores : IsFiniteSet(event_queue'[x])
           /\ \A x \in Cores \ {c} :
                  /\ event_queue'[x] = event_queue[x] /\ ts_queue'[x] = ts_queue[x]
                  /\ event_fifo_id'[x] = event_fifo_id[x]
                  /\ is_timer_sane'[x] = is_timer_sane[x]
                  /\ slice_length'[x] = slice_length[x] /\ downcount'[x] = downcount[x]
                  /\ executed_ticks'[x] = executed_ticks[x]
           /\ event_queue'[c] = event_queue[c] \cup Moved(c) /\ ts_queue'[c] = <<>>
           /\ event_fifo_id'[c] = event_fifo_id[c] + Len(ts_queue[c])
           /\ is_timer_sane'[c] = TRUE /\ slice_length'[c] = 0 /\ downcount'[c] = 0
           /\ executed_ticks'[c] = executed_ticks[c] + Executed(c)
<1>1. /\ event_queue \in [Cores -> SUBSET Event]
      /\ event_fifo_id \in [Cores -> Nat]
      /\ ts_queue \in [Cores -> Seq(Event)]
      /\ is_timer_sane \in [Cores -> BOOLEAN]
      /\ slice_length \in [Cores -> Int] /\ downcount \in [Cores -> Int]
      /\ executed_ticks \in [Cores -> Int]
      /\ \A x \in Cores : IsFiniteSet(event_queue[x])
  BY DEF Timers
<1>2. /\ event_queue' = [event_queue EXCEPT ![c] = @ \cup Moved(c)]
      /\ event_fifo_id' = [event_fifo_id EXCEPT ![c] = @ + Len(ts_queue[c])]
      /\ ts_queue' = [ts_queue EXCEPT ![c] = <<>>]
      /\ executed_ticks' = [executed_ticks EXCEPT ![c] = @ + Executed(c)]
      /\ slice_length' = [slice_length EXCEPT ![c] = 0]
      /\ downcount' = [downcount EXCEPT ![c] = 0]
      /\ is_timer_sane' = [is_timer_sane EXCEPT ![c] = TRUE]
      /\ scheduled' = scheduled
  BY DEF AdvanceStart, StopClock
<1>3. Moved(c) \subseteq Event /\ IsFiniteSet(Moved(c)) /\ Len(ts_queue[c]) \in Nat
  BY MovedEvents
<1>4. Executed(c) \in Int
  BY TicksType
<1>5. IsFiniteSet(event_queue[c] \cup Moved(c))
  BY <1>1, <1>3, FS_Union
<1>6. <<>> \in Seq(Event)
  OBVIOUS
<1>7. /\ event_queue' \in [Cores -> SUBSET Event]
      /\ \A x \in Cores : IsFiniteSet(event_queue'[x])
      /\ \A x \in Cores \ {c} : event_queue'[x] = event_queue[x]
      /\ event_queue'[c] = event_queue[c] \cup Moved(c)
  BY <1>1, <1>2, <1>3, <1>5
<1>8. /\ ts_queue' \in [Cores -> Seq(Event)] /\ ts_queue'[c] = <<>>
      /\ \A x \in Cores \ {c} : ts_queue'[x] = ts_queue[x]
  BY <1>1, <1>2, <1>6
<1>9. /\ event_fifo_id' \in [Cores -> Nat]
      /\ \A x \in Cores \ {c} : event_fifo_id'[x] = event_fifo_id[x]
      /\ event_fifo_id'[c] = event_fifo_id[c] + Len(ts_queue[c])
  BY <1>1, <1>2, <1>3
<1>10. /\ is_timer_sane' \in [Cores -> BOOLEAN]
       /\ slice_length' \in [Cores -> Int] /\ downcount' \in [Cores -> Int]
       /\ executed_ticks' \in [Cores -> Int]
       /\ is_timer_sane'[c] = TRUE /\ slice_length'[c] = 0 /\ downcount'[c] = 0
       /\ executed_ticks'[c] = executed_ticks[c] + Executed(c)
       /\ \A x \in Cores \ {c} :
              /\ is_timer_sane'[x] = is_timer_sane[x]
              /\ slice_length'[x] = slice_length[x] /\ downcount'[x] = downcount[x]
              /\ executed_ticks'[x] = executed_ticks[x]
  BY <1>1, <1>2, <1>4
<1> QED
  BY <1>2, <1>7, <1>8, <1>9, <1>10

(* SetNextSlice: no longer than asked for, and not over an event.          *)
LEMMA SetNextSliceEffect ==
    ASSUME Timers, NEW c \in Cores, NEW max \in Int, SetNextSlice(c, max)
    PROVE  \E s \in Int :
               /\ s <= max
               /\ \A e \in event_queue[c] : executed_ticks[c] + s <= e.time
               /\ slice_length' = [slice_length EXCEPT ![c] = s]
               /\ downcount' = [downcount EXCEPT ![c] = s]
<1>1. executed_ticks[c] \in Int /\ event_queue[c] \subseteq Event
  BY TimerTypes
<1>2. PICK s : s = SliceUpToEvent(c, max)
  OBVIOUS
<1>3. /\ slice_length' = [slice_length EXCEPT ![c] = s]
      /\ downcount' = [downcount EXCEPT ![c] = s]
  BY <1>2 DEF SetNextSlice
<1>4. CASE event_queue[c] = {}
  <2>1. s = max
    BY <1>2, <1>4 DEF SliceUpToEvent
  <2>2. s \in Int /\ s <= max
    BY <2>1
  <2>3. \A e \in event_queue[c] : executed_ticks[c] + s <= e.time
    BY <1>4
  <2> QED
    BY <1>3, <2>2, <2>3
<1>5. CASE event_queue[c] # {}
  <2>1. /\ Front(c) \in event_queue[c]
        /\ \A f \in event_queue[c] : Front(c).time <= f.time
    BY <1>5, FrontOfQueue
  <2>2. PICK t \in Int : t = Front(c).time
    BY <1>1, <2>1, EventFields
  <2>3. s = AtMost(t - executed_ticks[c], max)
    BY <1>2, <1>5, <2>2 DEF SliceUpToEvent
  <2>4. s \in Int /\ s <= max /\ executed_ticks[c] + s <= t
    BY <1>1, <2>2, <2>3 DEF AtMost
  <2>5. \A e \in event_queue[c] : executed_ticks[c] + s <= e.time
    <3> SUFFICES ASSUME NEW e \in event_queue[c]
                 PROVE  executed_ticks[c] + s <= e.time
      OBVIOUS
    <3>1. e.time \in Int /\ t <= e.time
      BY <1>1, <2>1, <2>2, EventFields
    <3> QED
      BY <1>1, <2>2, <2>4, <3>1
  <2> QED
    BY <1>3, <2>4, <2>5
<1> QED
  BY <1>4, <1>5

(* After the loop of Advance: nothing that is due is left.                 *)
LEMMA NothingLeftDue ==
    ASSUME Timers, NEW c \in Cores, ~Due(c)
    PROVE  \A e \in event_queue[c] : e.time > executed_ticks[c]
<1> SUFFICES ASSUME NEW e \in event_queue[c]
             PROVE  e.time > executed_ticks[c]
  OBVIOUS
<1>1. executed_ticks[c] \in Int /\ e.time \in Int
  BY TimerTypes, EventFields
<1>2. /\ Front(c) \in event_queue[c] /\ IsFront(c, Front(c))
      /\ Front(c).time <= e.time
  BY FrontOfQueue
<1>3. Front(c).time \in Int
  BY <1>2, TimerTypes, EventFields
<1>4. ~ (Front(c).time <= executed_ticks[c])
  <2> SUFFICES ASSUME Front(c).time <= executed_ticks[c]
               PROVE  Due(c)
    OBVIOUS
  <2> QED
    BY <1>2, Zenon DEF Due
<1> QED
  BY <1>1, <1>2, <1>3, <1>4

LEMMA MaxSliceLength ==
    ASSUME Timers, NEW c \in Cores
    PROVE  /\ GetMaxSliceLength(c) \in Int
           /\ (\A e \in event_queue[c] : e.time > executed_ticks[c]) =>
                  GetMaxSliceLength(c) > 0
<1>1. executed_ticks[c] \in Int /\ event_queue[c] \subseteq Event
  BY TimerTypes
<1>2. CASE event_queue[c] = {}
  BY <1>2, TimingAssumption DEF GetMaxSliceLength
<1>3. CASE event_queue[c] # {}
  <2>1. Front(c) \in event_queue[c] /\ Front(c).time \in Int
    BY <1>1, <1>3, FrontOfQueue, EventFields
  <2> QED
    BY <1>1, <1>3, <2>1 DEF GetMaxSliceLength
<1> QED
  BY <1>2, <1>3

(***************************************************************************)
(* Types.                                                                  *)
(***************************************************************************)
LEMMA TimersAfterNewEvent ==
    ASSUME Timers, NEW c \in Cores, NEW k, NEW e, NewEvent(c, e, k),
           slice_length' \in [Cores -> Int], downcount' \in [Cores -> Int],
           UNCHANGED <<executed_ticks, is_timer_sane, current_timer>>
    PROVE  Timers'
<1>1. /\ event_queue' \in [Cores -> SUBSET Event]
      /\ event_fifo_id' \in [Cores -> Nat]
      /\ ts_queue' \in [Cores -> Seq(Event)]
      /\ scheduled' \in 0..MaxEvents
      /\ \A x \in Cores : IsFiniteSet(event_queue'[x])
  BY NewEventTypes
<1>2. /\ executed_ticks' = executed_ticks /\ is_timer_sane' = is_timer_sane
      /\ current_timer' = current_timer
  OBVIOUS
<1> QED
  BY <1>1, <1>2 DEF Timers

LEMMA TimersAfterFewerEvents ==
    ASSUME Timers, FewerEvents
    PROVE  Timers'
<1>1. \A x \in Cores : IsFiniteSet(event_queue'[x])
  <2> SUFFICES ASSUME NEW x \in Cores
               PROVE  IsFiniteSet(event_queue'[x])
    OBVIOUS
  <2>1. event_queue'[x] \subseteq event_queue[x] /\ IsFiniteSet(event_queue[x])
    BY TimerTypes DEF FewerEvents
  <2> QED
    BY <2>1, FS_Subset
<1> QED
  BY <1>1 DEF Timers, FewerEvents

LEMMA TimersAfterQuietStep ==
    ASSUME Timers, UNCHANGED <<queueVars, executed_ticks>>,
           slice_length' \in [Cores -> Int], downcount' \in [Cores -> Int],
           is_timer_sane' \in [Cores -> BOOLEAN], current_timer' \in Cores
    PROVE  Timers'
<1>1. /\ event_queue' = event_queue /\ event_fifo_id' = event_fifo_id
      /\ ts_queue' = ts_queue /\ scheduled' = scheduled
      /\ executed_ticks' = executed_ticks
  OBVIOUS
<1> QED
  BY <1>1 DEF Timers

LEMMA SlicesAfterSet ==
    ASSUME Timers, NEW c \in Cores, NEW s \in Int,
           slice_length' = [slice_length EXCEPT ![c] = s],
           downcount' = [downcount EXCEPT ![c] = s]
    PROVE  /\ slice_length' \in [Cores -> Int] /\ downcount' \in [Cores -> Int]
           /\ slice_length'[c] = s /\ downcount'[c] = s
           /\ \A x \in Cores \ {c} :
                  slice_length'[x] = slice_length[x] /\ downcount'[x] = downcount[x]
BY DEF Timers

LEMMA TimersUnchanged ==
    ASSUME Timers, UNCHANGED timerVars
    PROVE  Timers'
<1>1. /\ event_queue' = event_queue /\ event_fifo_id' = event_fifo_id
      /\ ts_queue' = ts_queue /\ scheduled' = scheduled
      /\ executed_ticks' = executed_ticks /\ slice_length' = slice_length
      /\ downcount' = downcount /\ is_timer_sane' = is_timer_sane
      /\ current_timer' = current_timer
  OBVIOUS
<1> QED
  BY <1>1 DEF Timers

(* The callback of an event, or the guest: some event is scheduled, or     *)
(* some are cancelled, or nothing happens.                                 *)
Called(x) ==
    \/ \E c \in Cores, d \in Int, k \in Keys : ScheduleEvent(c, d - x, k)
    \/ \E keys \in SUBSET Keys : Unschedule(keys)
    \/ UNCHANGED timerVars

LEMMA KeySets ==
    /\ CancelSets \subseteq SUBSET Keys
    /\ \A k \in Keys : {k} \in SUBSET Keys
<1>1. \A t \in EventTypes : [type : {t}, data : UserData] \subseteq Keys
  BY DEF Keys
<1> QED
  BY <1>1 DEF CancelSets

LEMMA TimersAfterCall ==
    ASSUME Timers, NEW x \in Int, Called(x)
    PROVE  /\ Timers'
           /\ UNCHANGED <<executed_ticks, is_timer_sane, current_timer>>
           /\ \A y \in Cores :
                  /\ slice_length'[y] - downcount'[y] = slice_length[y] - downcount[y]
                  /\ downcount'[y] <= downcount[y]
                  /\ is_timer_sane[y] \/ y # current_timer =>
                         slice_length'[y] = slice_length[y] /\ downcount'[y] = downcount[y]
<1>0. \A y \in Cores : slice_length[y] \in Int /\ downcount[y] \in Int
  BY TimerTypes
<1>1. CASE \E c \in Cores, d \in Int, k \in Keys : ScheduleEvent(c, d - x, k)
  <2>1. PICK c \in Cores, d \in Int, k \in Keys : ScheduleEvent(c, d - x, k)
    BY <1>1
  <2>2. PICK m \in Int : m = d - x
    OBVIOUS
  <2>3. ScheduleEvent(c, m, k)
    BY <2>1, <2>2
  <2>4. /\ \E e : NewEvent(c, e, k)
        /\ slice_length' \in [Cores -> Int] /\ downcount' \in [Cores -> Int]
        /\ UNCHANGED <<executed_ticks, is_timer_sane, current_timer>>
        /\ \A y \in Cores :
                  /\ slice_length'[y] - downcount'[y] = slice_length[y] - downcount[y]
                  /\ downcount'[y] <= downcount[y]
                  /\ is_timer_sane[y] \/ y # current_timer =>
                         slice_length'[y] = slice_length[y] /\ downcount'[y] = downcount[y]
    BY <2>3, ScheduleEventEffect
  <2>5. Timers'
    BY <2>4, TimersAfterNewEvent
  <2> QED
    BY <2>4, <2>5
<1>2. CASE \E keys \in SUBSET Keys : Unschedule(keys)
  <2>1. FewerEvents
    BY <1>2, UnscheduleEffect
  <2>2. Timers'
    BY <2>1, TimersAfterFewerEvents
  <2> QED
    BY <1>0, <2>1, <2>2 DEF FewerEvents
<1>3. CASE UNCHANGED timerVars
  <2>1. Timers'
    BY <1>3, TimersUnchanged
  <2> QED
    BY <1>0, <1>3, <2>1
<1> QED
  BY <1>1, <1>2, <1>3 DEF Called

Types == Timers /\ Locals /\ Located

LEMMA CoreFacts ==
    /\ 0 \in Cores /\ NoCore \notin Cores /\ NumCores \in Nat /\ NumCores >= 1
    /\ \A c \in Cores : c \in Nat /\ c < NumCores /\ c + 1 \in 0..NumCores
    /\ \A c \in 0..NumCores : c < NumCores \/ c # NumCores => c \in Cores
    /\ \A c \in Cores : c + 1 < NumCores => c + 1 \in Cores
BY TimingAssumption DEF Cores, NoCore

LEMMA TypesInit == Init => Types
<1> SUFFICES ASSUME Init
             PROVE  Types
  OBVIOUS
<1>1. Timers
  <2>1. IsFiniteSet({})
    BY FS_EmptySet
  <2> QED
    BY <2>1, CoreFacts, TimingAssumption DEF Init, TimerInit, Timers
<1>2. Locals
  BY CoreFacts DEF Init, Locals, NotLate
<1>3. Located
  BY CoreFacts DEF Init, Located, NotLate
<1> QED
  BY <1>1, <1>2, <1>3 DEF Types

LEMMA TypesBegin ==
    ASSUME Types, Begin
    PROVE  Types'
<1>1. Timers'
  BY TimersUnchanged DEF Begin, Types
<1>2. global_ticks' \in Int
  BY GlobalTicks, TicksType DEF Begin, Types
<1>3. Locals'
  BY <1>2, CoreFacts DEF Begin, Types, Locals, Goto
<1>4. Located'
  BY CoreFacts DEF Begin, Types, Locals, Located, At, Goto
<1> QED
  BY <1>1, <1>3, <1>4 DEF Types

LEMMA TypesSkipCore ==
    ASSUME Types, SkipCore
    PROVE  Types'
<1>1. Timers'
  BY TimersUnchanged DEF SkipCore, Types
<1>2. core + 1 \in 0..NumCores
  BY CoreFacts DEF SkipCore, Types, Locals
<1>3. Locals'
  BY <1>2 DEF SkipCore, Types, Locals, Goto
<1>4. Located'
  BY CoreFacts DEF SkipCore, Types, Locals, Located, At, Goto
<1> QED
  BY <1>1, <1>3, <1>4 DEF Types

LEMMA TypesBeginAdvance ==
    ASSUME Types, BeginAdvance
    PROVE  Types'
<1>1. core \in Cores
  BY CoreFacts DEF BeginAdvance, Types, Locals
<1>2. Timers'
  BY <1>1, AdvanceStartEffect DEF Types, BeginAdvance, RunningCore, Timers
<1>3. Locals'
  BY <1>1, CoreFacts DEF BeginAdvance, Types, Locals, Goto
<1>4. Located'
  BY <1>1, CoreFacts DEF BeginAdvance, Types, Locals, Located, At, Goto, RunningCore
<1> QED
  BY <1>2, <1>3, <1>4 DEF Types

LEMMA TypesFireEvent ==
    ASSUME Types, FireEvent
    PROVE  Types'
<1>1. core \in Cores /\ PopEvent(core)
  BY DEF FireEvent, Types, Located
<1>2. /\ FewerEvents
      /\ Front(core) \in event_queue[core]
      /\ Front(core).time <= executed_ticks[core]
  BY <1>1, PopEventEffect DEF Types
<1>3. Timers'
  BY <1>2, TimersAfterFewerEvents DEF Types
<1>4. cycles_late' \in Nat
  <2>1. Front(core).time \in Int /\ executed_ticks[core] \in Int
    BY <1>1, <1>2, TimerTypes, EventFields DEF Types
  <2>2. cycles_late' = executed_ticks[core] - Front(core).time
    BY DEF FireEvent
  <2> QED
    BY <1>2, <2>1, <2>2
<1>5. Locals'
  BY <1>4 DEF FireEvent, Types, Locals
<1>6. Located'
  BY <1>1, <1>2, <1>4 DEF FireEvent, Types, Locals, Located, FewerEvents
<1> QED
  BY <1>3, <1>5, <1>6 DEF Types

LEMMA CallbackCalls ==
    ASSUME Types, CallbackReturns
    PROVE  cycles_late \in Int /\ Called(cycles_late)
<1>1. cycles_late \in Int
  BY DEF Types, Locals
<1>2. CASE \E c \in Cores, d \in Delays, k \in Keys : ScheduleEvent(c, d - cycles_late, k)
  BY <1>1, <1>2, LoopAssumption DEF Called
<1>3. CASE \E keys \in CancelSets : Unschedule(keys)
  BY <1>1, <1>3, KeySets DEF Called
<1>4. CASE UNCHANGED timerVars
  BY <1>1, <1>4 DEF Called
<1> QED
  BY <1>2, <1>3, <1>4 DEF CallbackReturns

LEMMA GuestCalls ==
    ASSUME Types, GuestCall
    PROVE  Called(0)
<1>1. CASE \E c \in Cores, d \in Delays, k \in Keys : ScheduleEvent(c, d, k)
  <2>1. PICK c \in Cores, d \in Delays, k \in Keys : ScheduleEvent(c, d, k)
    BY <1>1
  <2>2. d \in Int /\ d - 0 = d
    BY LoopAssumption
  <2>3. ScheduleEvent(c, d - 0, k)
    BY <2>1, <2>2
  <2> QED
    BY <2>2, <2>3 DEF Called
<1>2. CASE \E keys \in CancelSets : Unschedule(keys)
  BY <1>2, KeySets DEF Called
<1> QED
  BY <1>1, <1>2 DEF GuestCall

LEMMA TypesCallbackReturns ==
    ASSUME Types, CallbackReturns
    PROVE  Types'
<1>1. Timers' /\ current_timer' = current_timer
  BY CallbackCalls, TimersAfterCall DEF Types
<1>2. Locals'
  BY DEF CallbackReturns, Types, Locals, NotLate
<1>3. Located'
  BY <1>1 DEF CallbackReturns, Types, Locals, Located
<1> QED
  BY <1>1, <1>2, <1>3 DEF Types

LEMMA TypesEndAdvance ==
    ASSUME Types, EndAdvance
    PROVE  Types'
<1>1. core \in Cores
  BY DEF EndAdvance, Types, Located
<1>2. Timers'
  <2>1. is_timer_sane' \in [Cores -> BOOLEAN]
    BY <1>1 DEF EndAdvance, AdvanceEnd, Types, Timers
  <2> QED
    BY <2>1, TimersAfterQuietStep DEF EndAdvance, AdvanceEnd, Types, Timers
<1>3. Locals'
  BY <1>1 DEF EndAdvance, Types, Locals, Goto
<1>4. Located'
  BY <1>1 DEF EndAdvance, AdvanceEnd, Types, Locals, Located, Goto
<1> QED
  BY <1>2, <1>3, <1>4 DEF Types

LEMMA TypesSwitchThread ==
    ASSUME Types, SwitchThread
    PROVE  Types' /\ FewerEvents
<1>1. FewerEvents
  BY UnscheduleEffect DEF SwitchThread, Types
<1>2. Timers'
  BY <1>1, TimersAfterFewerEvents DEF Types
<1>3. Locals' /\ Located'
  BY <1>1 DEF SwitchThread, Types, Locals, Located, FewerEvents
<1> QED
  BY <1>1, <1>2, <1>3 DEF Types

(* The lag of the core that is to catch up.                                *)
LEMMA CatchUpDelay ==
    ASSUME Types, EndCatchUp
    PROVE  /\ core \in Cores
           /\ \E delay \in Int :
                  /\ delay = global_ticks - GetTicks(core)
                  /\ SetNextSlice(core, delay)
                  /\ max_delay' = AtLeast(max_delay, delay)
                  /\ current_core_to_execute' =
                         IF max_delay < delay THEN core ELSE current_core_to_execute
<1>1. core \in Cores
  BY DEF EndCatchUp, At, Types, Located
<1>2. GetTicks(core) \in Int /\ global_ticks \in Int
  BY <1>1, TicksType DEF Types, Locals
<1>3. PICK delay \in Int : delay = global_ticks - GetTicks(core)
  BY <1>2
<1> QED
  BY <1>1, <1>3 DEF EndCatchUp

LEMMA TypesEndCatchUp ==
    ASSUME Types, EndCatchUp
    PROVE  Types'
<1>1. core \in Cores
  BY CatchUpDelay
<1>2. PICK delay \in Int :
          /\ SetNextSlice(core, delay)
          /\ max_delay' = AtLeast(max_delay, delay)
          /\ current_core_to_execute' =
                 IF max_delay < delay THEN core ELSE current_core_to_execute
  BY CatchUpDelay
<1>3. slice_length' \in [Cores -> Int] /\ downcount' \in [Cores -> Int]
  BY <1>1, <1>2, SetNextSliceEffect, SlicesAfterSet DEF Types
<1>4. Timers'
  BY <1>2, <1>3, TimersAfterQuietStep DEF EndCatchUp, SetNextSlice, Types, Timers
<1>5. /\ max_delay' \in Nat
      /\ current_core_to_execute' \in Cores \cup {NoCore}
      /\ max_delay' > 0 => current_core_to_execute' \in Cores
  BY <1>1, <1>2 DEF AtLeast, Types, Locals, Located
<1>6. core + 1 \in 0..NumCores
  BY <1>1, CoreFacts
<1>7. Locals'
  BY <1>5, <1>6 DEF EndCatchUp, Types, Locals, Goto
<1>8. Located'
  BY <1>5, CoreFacts DEF EndCatchUp, Types, Locals, Located, Goto, At
<1> QED
  BY <1>4, <1>7, <1>8 DEF Types

LEMMA DelayedCore ==
    ASSUME Types, RunDelayed
    PROVE  current_core_to_execute \in Cores /\ max_delay > MIN_DELAY
<1>1. max_delay > MIN_DELAY /\ MIN_DELAY \in Nat /\ max_delay \in Nat
  BY LoopAssumption DEF RunDelayed, CaughtUp, Types, Located
<1> QED
  BY <1>1 DEF Types, Located

LEMMA TypesRunDelayed ==
    ASSUME Types, RunDelayed
    PROVE  Types'
<1>1. current_core_to_execute \in Cores
  BY DelayedCore
<1>2. Timers'
  BY <1>1, TimersAfterQuietStep DEF RunDelayed, RunningCore, Types, Timers
<1>3. Locals'
  BY <1>1, CoreFacts DEF RunDelayed, Types, Locals, Goto
<1>4. Located'
  BY <1>1 DEF RunDelayed, RunningCore, Types, Locals, Located, At, Goto
<1> QED
  BY <1>2, <1>3, <1>4 DEF Types

LEMMA TypesStartAll ==
    ASSUME Types, StartAll
    PROVE  Types'
<1>1. Timers'
  BY TimersUnchanged DEF StartAll, Types
<1>2. Locals'
  BY CoreFacts, TimingAssumption DEF StartAll, Types, Locals, Goto
<1>3. Located'
  BY CoreFacts DEF StartAll, Types, Locals, Located, At, Goto
<1> QED
  BY <1>1, <1>2, <1>3 DEF Types

LEMMA TypesEndAdvanceAll ==
    ASSUME Types, EndAdvanceAll
    PROVE  Types'
<1>1. Timers'
  BY TimersUnchanged DEF EndAdvanceAll, Types
<1>2. core \in Cores
  BY DEF EndAdvanceAll, At, Types, Located
<1>3. max_slice' \in Int
  BY <1>2, MaxSliceLength DEF EndAdvanceAll, AtMost, Types, Locals
<1>4. Locals'
  BY <1>2, <1>3, CoreFacts DEF EndAdvanceAll, Types, Locals, Goto
<1>5. Located'
  BY <1>2, CoreFacts DEF EndAdvanceAll, Types, Locals, Located, At, Goto
<1> QED
  BY <1>1, <1>4, <1>5 DEF Types

LEMMA TypesStartSlice ==
    ASSUME Types, StartSlice
    PROVE  Types'
<1>1. core \in Cores
  BY DEF StartSlice, At, Types, Located
<1>2. SetNextSlice(core, max_slice) /\ max_slice \in Int
  BY DEF StartSlice, Types, Locals
<1>3. slice_length' \in [Cores -> Int] /\ downcount' \in [Cores -> Int]
  BY <1>1, <1>2, SetNextSliceEffect, SlicesAfterSet DEF Types
<1>4. Timers'
  BY <1>1, <1>3, TimersAfterQuietStep
  DEF StartSlice, SetNextSlice, RunningCore, Types, Timers
<1>5. start_ticks' \in Int
  BY <1>1, TicksType DEF StartSlice, Types
<1>6. Locals'
  BY <1>5 DEF StartSlice, Types, Locals, Goto
<1>7. Located'
  BY <1>1 DEF StartSlice, RunningCore, Types, Locals, Located, Goto, At
<1> QED
  BY <1>4, <1>6, <1>7 DEF Types

LEMMA Executes ==
    ASSUME Types, Execute \/ IdleCore
    PROVE  /\ core \in Cores /\ downcount[core] > 0
           /\ \E m \in Int : /\ m < downcount[core] /\ m >= - Overshoot
                             /\ downcount' = [downcount EXCEPT ![core] = m]
           /\ UNCHANGED <<queueVars, executed_ticks, slice_length, is_timer_sane,
                          current_timer, loopVars, host_call>>
<1>1. core \in Cores /\ downcount[core] \in Int /\ downcount[core] > 0
  BY TimerTypes DEF Execute, IdleCore, Types, Located
<1>2. CASE Execute
  <2>1. PICK n \in 1..(downcount[core] + Overshoot) : AddTicks(core, n)
    BY <1>2 DEF Execute
  <2>2. PICK m \in Int : m = downcount[core] - n
    BY <1>1, <2>1, LoopAssumption
  <2>3. m < downcount[core] /\ m >= - Overshoot
    BY <1>1, <2>1, <2>2, LoopAssumption
  <2>4. downcount' = [downcount EXCEPT ![core] = m]
    BY <2>1, <2>2 DEF AddTicks
  <2> QED
    BY <1>1, <1>2, <2>1, <2>3, <2>4 DEF Execute, AddTicks
<1>3. CASE IdleCore
  <2>1. downcount' = [downcount EXCEPT ![core] = 0]
    BY <1>3 DEF IdleCore, Idle
  <2>2. 0 \in Int /\ 0 < downcount[core] /\ 0 >= - Overshoot
    BY <1>1, LoopAssumption
  <2>3. UNCHANGED <<queueVars, executed_ticks, slice_length, is_timer_sane,
                    current_timer, loopVars, host_call>>
    BY <1>3 DEF IdleCore, Idle
  <2> QED
    BY <1>1, <2>1, <2>2, <2>3
<1> QED
  BY <1>2, <1>3

LEMMA TypesExecute ==
    ASSUME Types, Execute \/ IdleCore
    PROVE  Types'
<1>1. PICK m \in Int : downcount' = [downcount EXCEPT ![core] = m]
  BY Executes
<1>2. downcount' \in [Cores -> Int]
  BY <1>1, Executes DEF Types, Timers
<1>3. Timers'
  BY <1>2, Executes, TimersAfterQuietStep DEF Types, Timers
<1>4. Locals' /\ Located'
  BY Executes DEF Types, Locals, Located
<1> QED
  BY <1>3, <1>4 DEF Types

LEMMA TypesGuestCall ==
    ASSUME Types, GuestCall
    PROVE  Types'
<1>1. Timers' /\ current_timer' = current_timer
  BY GuestCalls, TimersAfterCall DEF Types
<1>2. Locals' /\ Located'
  BY <1>1 DEF GuestCall, Types, Locals, Located
<1> QED
  BY <1>1, <1>2 DEF Types

LEMMA TypesEndSlice ==
    ASSUME Types, EndSlice
    PROVE  Types'
<1>1. Timers'
  BY TimersUnchanged DEF EndSlice, Types
<1>2. core \in Cores
  BY DEF EndSlice, Types, Located
<1>3. max_slice' \in Int
  BY <1>2, TicksType DEF EndSlice, Types, Locals
<1>4. Locals'
  BY <1>2, <1>3, CoreFacts DEF EndSlice, Types, Locals, Goto
<1>5. Located'
  BY <1>2, CoreFacts DEF EndSlice, Types, Locals, Located, At, Goto
<1> QED
  BY <1>1, <1>4, <1>5 DEF Types

LEMMA TypesEndLoop ==
    ASSUME Types, EndLoop
    PROVE  Types'
<1>1. Timers'
  BY TimersUnchanged DEF EndLoop, Types
<1>2. Locals' /\ Located'
  BY CoreFacts DEF EndLoop, Types, Locals, Located, At, Goto
<1> QED
  BY <1>1, <1>2 DEF Types

LEMMA TypesHostReadsClock ==
    ASSUME Types, HostReadsClock
    PROVE  Types'
<1>1. Timers'
  BY TimersUnchanged DEF HostReadsClock, Types
<1>2. host_call' \subseteq [core : Cores, time : Int]
  <2>1. PICK c \in Cores, d \in Delays : \E now \in RacyTicks(c) :
            host_call' = {[core |-> c, time |-> now + AtLeast(2 * MAX_SLICE_LENGTH, d)]}
    BY DEF HostReadsClock
  <2>2. PICK now \in RacyTicks(c) :
            host_call' = {[core |-> c, time |-> now + AtLeast(2 * MAX_SLICE_LENGTH, d)]}
    BY <2>1
  <2>4. now \in Int
    <3>1. executed_ticks[c] \in Int /\ Executed(c) \in Int /\ downcount[c] \in Int
      BY TimerTypes, TicksType DEF Types
    <3>2. MAX_SLICE_LENGTH \in Int
      BY TimingAssumption
    <3> QED
      BY <2>2, <3>1, <3>2 DEF RacyTicks
  <2>3. AtLeast(2 * MAX_SLICE_LENGTH, d) \in Int
    BY TimingAssumption, LoopAssumption DEF AtLeast
  <2> QED
    BY <2>2, <2>3, <2>4
<1>3. Locals' /\ Located'
  BY <1>2 DEF HostReadsClock, Types, Locals, Located
<1> QED
  BY <1>1, <1>3 DEF Types

LEMMA HostPushesEffect ==
    ASSUME Types, HostPushes
    PROVE  /\ \E c \in Cores, k \in Keys : \E e : NewEvent(c, e, k) /\ ~OwnEvent(c, e)
           /\ UNCHANGED <<is_timer_sane, slice_length, downcount, executed_ticks,
                          current_timer, loopVars>>
<1>1. PICK h \in host_call, k \in Keys : PushThreadSafe(h.core, h.time, k)
  BY DEF HostPushes
<1>2. h.core \in Cores /\ h.time \in Int
  BY DEF Types, Locals
<1> QED
  BY <1>1, <1>2, PushThreadSafeEffect DEF HostPushes, Types

LEMMA TypesHostPushes ==
    ASSUME Types, HostPushes
    PROVE  Types'
<1>1. PICK c \in Cores, k \in Keys : \E e : NewEvent(c, e, k)
  BY HostPushesEffect
<1>2. Timers'
  BY <1>1, HostPushesEffect, TimersAfterNewEvent DEF Types, Timers
<1>3. Locals' /\ Located'
  BY HostPushesEffect DEF HostPushes, Types, Locals, Located
<1> QED
  BY <1>2, <1>3 DEF Types

LEMMA TypesStutter ==
    ASSUME Types, UNCHANGED vars
    PROVE  Types'
<1>1. Timers'
  BY TimersUnchanged DEF vars, Types
<1>2. Locals' /\ Located'
  BY DEF vars, Types, Locals, Located
<1> QED
  BY <1>1, <1>2 DEF Types

LEMMA TypesKept ==
    ASSUME Types, [Next]_vars
    PROVE  Types'
BY TypesBegin, TypesSkipCore, TypesBeginAdvance, TypesFireEvent, TypesCallbackReturns,
   TypesEndAdvance, TypesSwitchThread, TypesEndCatchUp, TypesRunDelayed, TypesStartAll,
   TypesEndAdvanceAll, TypesStartSlice, TypesExecute, TypesGuestCall, TypesEndSlice,
   TypesEndLoop, TypesHostReadsClock, TypesHostPushes, TypesStutter
DEF Next, LoopStep

(* Every variable of RunLoop and of the timers keeps its type; finite      *)
(* queues and the position in the loops are what makes it inductive.       *)
THEOREM LoopTypeCorrect == Spec => [](TypeOK /\ Types)
<1>1. Init => Types
  BY TypesInit
<1>2. Types /\ [Next]_vars => Types'
  BY TypesKept
<1>3. Types => TypeOK /\ Types
  BY DEF Types, Timers, Locals, TypeOK
<1> QED
  BY <1>1, <1>2, <1>3, PTL DEF Spec

(***************************************************************************)
(* The clocks.                                                             *)
(***************************************************************************)
Clocks == Sanity /\ NothingDue

SameTicks == \A c \in Cores : GetTicks(c)' = GetTicks(c)

LEMMA TicksAfterQuietStep ==
    ASSUME Timers, Timers', UNCHANGED <<executed_ticks, is_timer_sane>>, NEW x \in Cores,
           slice_length'[x] - downcount'[x] = slice_length[x] - downcount[x]
    PROVE  GetTicks(x)' = GetTicks(x)
<1>1. /\ executed_ticks'[x] = executed_ticks[x]
      /\ is_timer_sane'[x] = is_timer_sane[x]
  OBVIOUS
<1>2. Executed(x)' = Executed(x)
  BY DEF Executed
<1>3. CASE is_timer_sane[x]
  <2>1. is_timer_sane'[x]
    BY <1>1, <1>3
  <2> QED
    BY <1>1, <1>3, <2>1 DEF GetTicks
<1>4. CASE ~is_timer_sane[x]
  <2>1. ~is_timer_sane'[x]
    BY <1>1, <1>4
  <2> QED
    BY <1>1, <1>2, <1>4, <2>1 DEF GetTicks
<1> QED
  BY <1>3, <1>4

LEMMA TicksUnchanged ==
    ASSUME UNCHANGED timerVars
    PROVE  /\ SameTicks
           /\ \A c \in Cores : Stopped(c)' <=> Stopped(c)
<1>1. /\ executed_ticks' = executed_ticks /\ slice_length' = slice_length
      /\ downcount' = downcount /\ is_timer_sane' = is_timer_sane
  OBVIOUS
<1> QED
  BY <1>1 DEF SameTicks, GetTicks, Executed, Stopped

LEMMA ClocksInit == Init => Clocks
<1> SUFFICES ASSUME Init
             PROVE  Clocks
  OBVIOUS
<1>1. \A c \in Cores : downcount[c] = MAX_SLICE_LENGTH /\ slice_length[c] = MAX_SLICE_LENGTH
  BY DEF Init, TimerInit
<1>2. loop = "Top" /\ step = "Begin" /\ MAX_SLICE_LENGTH \in Int
  BY TimingAssumption DEF Init
<1> QED
  BY <1>1, <1>2 DEF Clocks, Sanity, NothingDue

LEMMA ClocksUnchanged ==
    ASSUME Clocks, UNCHANGED loopVars,
           UNCHANGED <<executed_ticks, slice_length, downcount, is_timer_sane, event_queue>>
    PROVE  Clocks'
<1>1. /\ executed_ticks' = executed_ticks /\ slice_length' = slice_length
      /\ downcount' = downcount /\ is_timer_sane' = is_timer_sane
      /\ event_queue' = event_queue
      /\ loop' = loop /\ step' = step /\ core' = core
      /\ current_core_to_execute' = current_core_to_execute
  OBVIOUS
<1> QED
  BY <1>1 DEF Clocks, Sanity, NothingDue, Stopped

(* The steps that leave the timers alone.                                  *)
LEMMA ClocksLoopStep ==
    ASSUME Types, Types', Clocks, UNCHANGED timerVars,
           Begin \/ SkipCore \/ StartAll \/ EndAdvanceAll \/ EndSlice \/ EndLoop
               \/ HostReadsClock \/ UNCHANGED vars
    PROVE  Clocks'
<1>0. /\ executed_ticks' = executed_ticks /\ slice_length' = slice_length
      /\ downcount' = downcount /\ is_timer_sane' = is_timer_sane
      /\ event_queue' = event_queue
  OBVIOUS
<1>1. \A c \in Cores : Stopped(c)' <=> Stopped(c)
  BY TicksUnchanged
<1>2. \A c, d \in Cores : c < d + 1 => c < d \/ c = d
  BY CoreFacts
<1>3. core \in 0..NumCores /\ NoCore < 0 /\ NoCore \notin Cores
  BY CoreFacts DEF Types, Locals, NoCore
<1>4. CASE Begin
  BY <1>0, <1>1, <1>3, <1>4 DEF Begin, At, Goto, Types, Located, Clocks, Sanity, NothingDue
<1>5. CASE SkipCore
  <2>1. current_core_to_execute < core => current_core_to_execute < core + 1
    BY CoreFacts DEF Types, Locals, NoCore
  <2> QED
    BY <1>0, <1>1, <1>5, <2>1 DEF SkipCore, At, Goto, Types, Located, Clocks, Sanity, NothingDue
<1>6. CASE StartAll
  <2>1. \A c \in Cores : ~(c < 0)
    BY CoreFacts
  <2> QED
    BY <1>0, <1>1, <1>6, <2>1 DEF StartAll, At, Goto, Types, Located, Clocks, Sanity, NothingDue
<1>7. CASE EndAdvanceAll
  <2>1. core \in Cores /\ loop = "AdvanceAll" /\ step = "Reschedule"
    BY <1>7 DEF EndAdvanceAll, At, Types, Located
  <2>2. /\ ~is_timer_sane[core] /\ Stopped(core)
        /\ \A c \in Cores : c < core => ~is_timer_sane[c] /\ Stopped(c)
    BY <2>1 DEF Clocks, Sanity
  <2>3. CASE core + 1 < NumCores
    <3>1. loop' = "AdvanceAll" /\ step' = "Begin" /\ core' = core + 1
      BY <1>7, <2>1, <2>3 DEF EndAdvanceAll, Goto
    <3> QED
      BY <1>0, <1>1, <1>2, <2>1, <2>2, <3>1 DEF Clocks, Sanity, NothingDue
  <2>4. CASE ~ (core + 1 < NumCores)
    <3>1. loop' = "RunAll" /\ step' = "Begin" /\ core' = 0
      BY <1>7, <2>1, <2>4 DEF EndAdvanceAll, Goto
    <3>2. \A c \in Cores : c < core \/ c = core
      BY <2>1, <2>4, CoreFacts
    <3> QED
      BY <1>0, <1>1, <2>1, <2>2, <3>1, <3>2 DEF Clocks, Sanity, NothingDue
  <2> QED
    BY <2>3, <2>4
<1>8. CASE EndSlice
  <2>1. core \in Cores /\ loop \in {"RunDelayed", "RunAll"} /\ step = "Run"
    BY <1>8 DEF EndSlice, Types, Located
  <2>2. CASE loop = "RunAll" /\ core + 1 < NumCores
    <3>1. loop' = "RunAll" /\ step' = "Begin" /\ core' = core + 1
      BY <1>8, <2>2 DEF EndSlice, Goto
    <3>2. \A c \in Cores : c > core + 1 \/ c = core + 1 => c > core
      BY <2>1, CoreFacts
    <3> QED
      BY <1>0, <1>1, <2>2, <3>1, <3>2 DEF Clocks, Sanity, NothingDue
  <2>3. CASE ~ (loop = "RunAll" /\ core + 1 < NumCores)
    <3>1. loop' = "Top" /\ step' = "Reschedule"
      BY <1>8, <2>1, <2>3 DEF EndSlice, Goto
    <3> QED
      BY <1>0, <3>1 DEF Clocks, Sanity, NothingDue
  <2> QED
    BY <2>2, <2>3
<1>9. CASE EndLoop
  BY <1>0, <1>1, <1>9 DEF EndLoop, Goto, Clocks, Sanity, NothingDue
<1>10. CASE HostReadsClock
  <2>1. UNCHANGED loopVars
    BY <1>10 DEF HostReadsClock
  <2> QED
    BY <1>0, <2>1, ClocksUnchanged
<1>11. CASE UNCHANGED vars
  <2>1. UNCHANGED loopVars
    BY <1>11 DEF vars
  <2> QED
    BY <1>0, <2>1, ClocksUnchanged
<1> QED
  BY <1>4, <1>5, <1>6, <1>7, <1>8, <1>9, <1>10, <1>11

LEMMA ClocksBeginAdvance ==
    ASSUME Types, Types', Clocks, BeginAdvance
    PROVE  Clocks' /\ SameTicks
<1>1. /\ core \in Cores /\ AdvanceStart(core)
      /\ loop \in {"CatchUp", "AdvanceAll"} /\ step = "Begin"
      /\ loop' = loop /\ step' = "Advance" /\ core' = core
      /\ current_core_to_execute' = current_core_to_execute
  BY CoreFacts DEF BeginAdvance, Goto, Types, Locals
<1>2. /\ \A x \in Cores \ {core} :
             /\ is_timer_sane'[x] = is_timer_sane[x]
             /\ slice_length'[x] = slice_length[x] /\ downcount'[x] = downcount[x]
             /\ executed_ticks'[x] = executed_ticks[x]
      /\ is_timer_sane'[core] = TRUE /\ slice_length'[core] = 0 /\ downcount'[core] = 0
      /\ executed_ticks'[core] = executed_ticks[core] + Executed(core)
  BY <1>1, AdvanceStartEffect DEF Types
<1>3. \A x \in Cores : /\ downcount[x] \in Int /\ slice_length[x] \in Int
                       /\ executed_ticks[x] \in Int
  BY TimerTypes DEF Types
<1>4. Sanity'
  <2>1. loop = "CatchUp" => current_core_to_execute < core
    BY DEF Clocks, Sanity
  <2>2. core \in Nat /\ ~(core < core)
    BY <1>1, CoreFacts
  <2>3. loop = "CatchUp" => current_core_to_execute # core
    BY <2>1, <2>2
  <2>4. Stopped(core)' /\ \A x \in Cores \ {core} : Stopped(x)' <=> Stopped(x)
    BY <1>1, <1>2 DEF Stopped
  <2>5. \A x \in Cores : /\ downcount'[x] <= slice_length'[x]
                         /\ is_timer_sane'[x] => downcount'[x] = slice_length'[x]
    BY <1>2, <1>3 DEF Clocks, Sanity
  <2>6. is_timer_sane'[core] /\ Stopped(core)'
    BY <1>2, <2>4
  <2>7. \A x \in Cores : loop = "AdvanceAll" /\ x < core => ~is_timer_sane'[x] /\ Stopped(x)'
    BY <1>2, <2>2, <2>4 DEF Clocks, Sanity
  <2>8. loop = "CatchUp" /\ current_core_to_execute \in Cores =>
            ~is_timer_sane'[current_core_to_execute]
    BY <1>2, <2>3 DEF Clocks, Sanity
  <2> QED
    BY <1>1, <2>1, <2>5, <2>6, <2>7, <2>8 DEF Sanity
<1>5. NothingDue'
  BY <1>1 DEF NothingDue
<1>6. \A x \in Cores : x = core => GetTicks(x)' = GetTicks(x)
  <2>1. \A x \in Cores : x = core => GetTicks(x)' = executed_ticks[x] + Executed(x)
    <3> SUFFICES ASSUME NEW x \in Cores, x = core
                 PROVE  GetTicks(x)' = executed_ticks[x] + Executed(x)
      OBVIOUS
    <3>1. is_timer_sane'[x] /\ executed_ticks'[x] = executed_ticks[x] + Executed(x)
      BY <1>2
    <3>2. executed_ticks'[x] \in Int
      BY TimerTypes DEF Types, Timers
    <3> QED
      BY <3>1, <3>2 DEF GetTicks
  <2>2. GetTicks(core) = executed_ticks[core] + Executed(core)
    <3>1. CASE is_timer_sane[core]
      <4>1. Executed(core) = 0
        BY <1>1, <1>3, <3>1 DEF Executed, Clocks, Sanity
      <4> QED
        BY <1>3, <1>1, <3>1, <4>1 DEF GetTicks
    <3>2. CASE ~is_timer_sane[core]
      BY <3>2 DEF GetTicks
    <3> QED
      BY <3>1, <3>2
  <2> QED
    BY <2>1, <2>2
<1>7. \A x \in Cores \ {core} : GetTicks(x)' = GetTicks(x)
  BY <1>2 DEF GetTicks, Executed
<1> QED
  BY <1>4, <1>5, <1>6, <1>7 DEF Clocks, SameTicks

LEMMA ClocksFewerEvents ==
    ASSUME Types, Clocks, FewerEvents,
           UNCHANGED <<loop, step, core, current_core_to_execute>>
    PROVE  Clocks' /\ SameTicks
<1>1. /\ executed_ticks' = executed_ticks /\ slice_length' = slice_length
      /\ downcount' = downcount /\ is_timer_sane' = is_timer_sane
      /\ loop' = loop /\ step' = step /\ core' = core
      /\ current_core_to_execute' = current_core_to_execute
  BY DEF FewerEvents
<1>2. Sanity'
  BY <1>1 DEF Clocks, Sanity, Stopped
<1>3. NothingDue'
  <2>1. step # "Begin" => core \in Cores
    BY DEF Types, Located
  <2> QED
    BY <1>1, <2>1 DEF NothingDue, Clocks, FewerEvents
<1>4. SameTicks
  BY <1>1 DEF SameTicks, GetTicks, Executed
<1> QED
  BY <1>2, <1>3, <1>4 DEF Clocks

LEMMA ClocksEndAdvance ==
    ASSUME Types, Types', Clocks, EndAdvance
    PROVE  Clocks' /\ SameTicks
<1>1. /\ core \in Cores /\ loop \in {"CatchUp", "AdvanceAll"} /\ step = "Advance"
      /\ loop' = loop /\ step' = "Reschedule" /\ core' = core
      /\ current_core_to_execute' = current_core_to_execute
      /\ ~Due(core) /\ is_timer_sane' = [is_timer_sane EXCEPT ![core] = FALSE]
      /\ event_queue' = event_queue /\ slice_length' = slice_length
      /\ downcount' = downcount /\ executed_ticks' = executed_ticks
  BY DEF EndAdvance, AdvanceEnd, Goto, Types, Located
<1>2. /\ ~is_timer_sane'[core]
      /\ \A x \in Cores \ {core} : is_timer_sane'[x] = is_timer_sane[x]
  BY <1>1 DEF Types, Timers
<1>3. Stopped(core) /\ is_timer_sane[core]
  BY <1>1 DEF Clocks, Sanity
<1>4. \A x \in Cores : Stopped(x)' <=> Stopped(x)
  BY <1>1 DEF Stopped
<1>5. Sanity'
  BY <1>1, <1>2, <1>3, <1>4 DEF Clocks, Sanity
<1>6. NothingDue'
  BY <1>1, NothingLeftDue DEF NothingDue, Types
<1>7. \A x \in Cores : x = core => GetTicks(x)' = GetTicks(x)
  <2> SUFFICES ASSUME NEW x \in Cores, x = core
               PROVE  GetTicks(x)' = GetTicks(x)
    OBVIOUS
  <2>1. Executed(x)' = 0 /\ executed_ticks[x] \in Int /\ executed_ticks'[x] = executed_ticks[x]
    BY <1>1, <1>3, TimerTypes DEF Executed, Stopped, Types
  <2>2. ~is_timer_sane'[x] /\ is_timer_sane[x]
    BY <1>2, <1>3
  <2> QED
    BY <2>1, <2>2 DEF GetTicks
<1>8. \A x \in Cores \ {core} : GetTicks(x)' = GetTicks(x)
  BY <1>1, <1>2 DEF GetTicks, Executed
<1> QED
  BY <1>5, <1>6, <1>7, <1>8 DEF Clocks, SameTicks

(* The calls of callbacks and of the guest.                                *)
LEMMA TicksAfterCall ==
    ASSUME Types, Types', Clocks, NEW x \in Int, Called(x)
    PROVE  SameTicks
<1>1. /\ UNCHANGED <<executed_ticks, is_timer_sane>>
      /\ \A y \in Cores : slice_length'[y] - downcount'[y] = slice_length[y] - downcount[y]
  BY TimersAfterCall DEF Types
<1> QED
  BY <1>1, TicksAfterQuietStep DEF SameTicks, Types

LEMMA ClocksAfterCall ==
    ASSUME Types, Types', Clocks, NEW x \in Int, Called(x), step \in {"Advance", "Run"},
           UNCHANGED <<loop, step, core, current_core_to_execute>>
    PROVE  Clocks'
<1>1. /\ UNCHANGED <<executed_ticks, is_timer_sane, current_timer>>
      /\ \A y \in Cores :
             /\ slice_length'[y] - downcount'[y] = slice_length[y] - downcount[y]
             /\ downcount'[y] <= downcount[y]
             /\ is_timer_sane[y] \/ y # current_timer =>
                    slice_length'[y] = slice_length[y] /\ downcount'[y] = downcount[y]
  BY TimersAfterCall DEF Types
<1>2. \A y \in Cores : /\ downcount[y] \in Int /\ slice_length[y] \in Int
                       /\ downcount'[y] \in Int /\ slice_length'[y] \in Int
  <2>1. Timers /\ Timers'
    BY DEF Types
  <2> QED
    BY <2>1 DEF Timers
<1>3. /\ current_timer = core /\ core \in Cores
      /\ loop' = loop /\ step' = step /\ core' = core
      /\ current_core_to_execute' = current_core_to_execute
      /\ is_timer_sane' = is_timer_sane
  BY <1>1 DEF Types, Located
<1>4. \A y \in Cores : downcount'[y] <= slice_length'[y]
  BY <1>1, <1>2 DEF Clocks, Sanity
<1>5. \A y \in Cores : is_timer_sane[y] \/ y # core => (Stopped(y)' <=> Stopped(y))
  BY <1>1, <1>3 DEF Stopped
<1>6. \A y \in Cores : is_timer_sane'[y] => downcount'[y] = slice_length'[y]
  BY <1>1, <1>3 DEF Clocks, Sanity
<1>7. core \in Nat /\ ~(core < core) /\ ~(core > core)
  BY <1>3, CoreFacts
<1>8. Sanity'
  BY <1>3, <1>4, <1>5, <1>6, <1>7 DEF Clocks, Sanity
<1>9. NothingDue'
  BY <1>3 DEF NothingDue
<1> QED
  BY <1>8, <1>9 DEF Clocks

LEMMA ClocksEndCatchUp ==
    ASSUME Types, Types', Clocks, EndCatchUp
    PROVE  Clocks' /\ SameTicks
<1>1. /\ core \in Cores /\ loop = "CatchUp" /\ step = "Reschedule"
      /\ loop' = "CatchUp" /\ step' = "Begin" /\ core' = core + 1
  BY DEF EndCatchUp, At, Goto, Types, Located
<1>2. PICK delay \in Int :
          /\ SetNextSlice(core, delay)
          /\ current_core_to_execute' =
                 IF max_delay < delay THEN core ELSE current_core_to_execute
  BY CatchUpDelay
<1>3. /\ executed_ticks' = executed_ticks /\ is_timer_sane' = is_timer_sane
  BY <1>2 DEF SetNextSlice
<1>4. PICK s \in Int : /\ slice_length' = [slice_length EXCEPT ![core] = s]
                       /\ downcount' = [downcount EXCEPT ![core] = s]
  BY <1>1, <1>2, SetNextSliceEffect DEF Types
<1>5. /\ slice_length'[core] = s /\ downcount'[core] = s
      /\ \A x \in Cores \ {core} :
             slice_length'[x] = slice_length[x] /\ downcount'[x] = downcount[x]
  BY <1>1, <1>4, SlicesAfterSet DEF Types
<1>6. ~is_timer_sane[core] /\ Stopped(core) /\ current_core_to_execute < core
  BY <1>1 DEF Clocks, Sanity
<1>7. /\ current_core_to_execute' < core + 1
      /\ current_core_to_execute' \in Cores => ~is_timer_sane[current_core_to_execute']
  <2>1. /\ current_core_to_execute \in Int /\ core \in Int
        /\ current_core_to_execute \in Cores => ~is_timer_sane[current_core_to_execute]
    BY <1>1, CoreFacts DEF Types, Locals, Clocks, Sanity, NoCore
  <2> QED
    BY <1>2, <1>6, <2>1
<1>8. Sanity'
  BY <1>1, <1>3, <1>5, <1>6, <1>7 DEF Clocks, Sanity
<1>9. NothingDue'
  BY <1>1 DEF NothingDue
<1>10. \A x \in Cores : slice_length'[x] - downcount'[x] = slice_length[x] - downcount[x]
  BY <1>5, <1>6 DEF Stopped
<1>11. SameTicks
  BY <1>3, <1>10, TicksAfterQuietStep DEF SameTicks, Types
<1> QED
  BY <1>8, <1>9, <1>11 DEF Clocks

LEMMA ClocksRunDelayed ==
    ASSUME Types, Types', Clocks, RunDelayed
    PROVE  Clocks' /\ SameTicks
<1>1. /\ loop = "CatchUp" /\ loop' = "RunDelayed" /\ step' = "Run"
      /\ core' = current_core_to_execute
      /\ current_core_to_execute' = current_core_to_execute
      /\ executed_ticks' = executed_ticks /\ slice_length' = slice_length
      /\ downcount' = downcount /\ is_timer_sane' = is_timer_sane
  BY DEF RunDelayed, At, Goto
<1>2. current_core_to_execute \in Cores
  BY DelayedCore
<1>3. Sanity'
  BY <1>1, <1>2 DEF Clocks, Sanity
<1>4. NothingDue' /\ SameTicks
  BY <1>1 DEF NothingDue, SameTicks, GetTicks, Executed
<1> QED
  BY <1>3, <1>4 DEF Clocks

LEMMA ClocksStartSlice ==
    ASSUME Types, Types', Clocks, StartSlice
    PROVE  Clocks' /\ SameTicks
<1>1. /\ core \in Cores /\ loop = "RunAll" /\ step = "Begin"
      /\ loop' = "RunAll" /\ step' = "Run" /\ core' = core
      /\ SetNextSlice(core, max_slice) /\ max_slice \in Int
  BY DEF StartSlice, At, Goto, Types, Locals, Located
<1>2. /\ executed_ticks' = executed_ticks /\ is_timer_sane' = is_timer_sane
  BY <1>1 DEF SetNextSlice
<1>3. PICK s \in Int : /\ slice_length' = [slice_length EXCEPT ![core] = s]
                       /\ downcount' = [downcount EXCEPT ![core] = s]
  BY <1>1, SetNextSliceEffect DEF Types
<1>4. /\ slice_length'[core] = s /\ downcount'[core] = s
      /\ \A x \in Cores \ {core} :
             slice_length'[x] = slice_length[x] /\ downcount'[x] = downcount[x]
  BY <1>1, <1>3, SlicesAfterSet DEF Types
<1>5. /\ \A x \in Cores : ~is_timer_sane[x]
      /\ Stopped(core) /\ \A x \in Cores : x > core => Stopped(x)
  BY <1>1 DEF Clocks, Sanity
<1>6. ~(core > core)
  BY <1>1, CoreFacts
<1>7. \A x \in Cores : x > core => Stopped(x)'
  BY <1>4, <1>5, <1>6 DEF Stopped
<1>8. Sanity'
  BY <1>1, <1>2, <1>4, <1>5, <1>7 DEF Clocks, Sanity
<1>9. NothingDue'
  BY <1>1 DEF NothingDue
<1>10. \A x \in Cores : slice_length'[x] - downcount'[x] = slice_length[x] - downcount[x]
  BY <1>4, <1>5 DEF Stopped
<1>11. SameTicks
  BY <1>2, <1>10, TicksAfterQuietStep DEF SameTicks, Types
<1> QED
  BY <1>8, <1>9, <1>11 DEF Clocks

LEMMA ClocksExecute ==
    ASSUME Types, Types', Clocks, Execute \/ IdleCore
    PROVE  Clocks'
<1>1. /\ core \in Cores /\ step = "Run"
      /\ UNCHANGED <<executed_ticks, slice_length, is_timer_sane, loopVars>>
  BY Executes DEF Execute, IdleCore
<1>2. PICK m \in Int : m < downcount[core] /\ downcount' = [downcount EXCEPT ![core] = m]
  BY Executes
<1>3. downcount'[core] = m /\ \A x \in Cores \ {core} : downcount'[x] = downcount[x]
  BY <1>1, <1>2 DEF Types, Timers
<1>4. downcount[core] \in Int /\ slice_length[core] \in Int
  BY <1>1, TimerTypes DEF Types
<1>5. \A x \in Cores \ {core} : Stopped(x)' <=> Stopped(x)
  BY <1>1, <1>3 DEF Stopped
<1>6. loop # "AdvanceAll" /\ ~is_timer_sane[core] /\ ~(core > core)
  BY <1>1, CoreFacts DEF Types, Located, Clocks, Sanity
<1>7. \A x \in Cores : downcount'[x] <= slice_length[x]
  BY <1>2, <1>3, <1>4 DEF Clocks, Sanity
<1>8. Sanity'
  BY <1>1, <1>3, <1>5, <1>6, <1>7 DEF Clocks, Sanity
<1>9. NothingDue'
  BY <1>1 DEF NothingDue
<1> QED
  BY <1>8, <1>9 DEF Clocks

LEMMA ClocksHostPushes ==
    ASSUME Types, Types', Clocks, HostPushes
    PROVE  Clocks' /\ SameTicks
<1>1. /\ executed_ticks' = executed_ticks /\ slice_length' = slice_length
      /\ downcount' = downcount /\ is_timer_sane' = is_timer_sane
      /\ loop' = loop /\ step' = step /\ core' = core
      /\ current_core_to_execute' = current_core_to_execute
  BY HostPushesEffect
<1>2. Sanity'
  BY <1>1 DEF Clocks, Sanity, Stopped
<1>3. NothingDue'
  <2> SUFFICES ASSUME step = "Reschedule" /\ loop # "Top", NEW e \in event_queue'[core]
               PROVE  e.time > executed_ticks[core]
    BY <1>1 DEF NothingDue
  <2>1. core \in Cores
    BY DEF Types, Located
  <2>2. PICK c \in Cores, k \in Keys : \E f : NewEvent(c, f, k) /\ ~OwnEvent(c, f)
    BY HostPushesEffect
  <2>3. event_queue' = event_queue
    BY <2>2 DEF NewEvent, TsEvent
  <2> QED
    BY <2>1, <2>3 DEF Clocks, NothingDue
<1>4. SameTicks
  BY <1>1 DEF SameTicks, GetTicks, Executed
<1> QED
  BY <1>2, <1>3, <1>4 DEF Clocks

LEMMA ClocksStep ==
    ASSUME Types, Types', Clocks, [Next]_vars
    PROVE  Clocks' /\ (Execute \/ IdleCore \/ SameTicks)
<1>1. CASE Begin \/ SkipCore \/ StartAll \/ EndAdvanceAll \/ EndSlice \/ EndLoop
               \/ HostReadsClock \/ UNCHANGED vars
  <2>1. UNCHANGED timerVars
    BY <1>1 DEF Begin, SkipCore, StartAll, EndAdvanceAll, EndSlice, EndLoop,
                HostReadsClock, vars
  <2> QED
    BY <1>1, <2>1, ClocksLoopStep, TicksUnchanged
<1>2. CASE FireEvent
  <2>1. FewerEvents
    BY <1>2, PopEventEffect DEF FireEvent, Types, Located
  <2> QED
    BY <1>2, <2>1, ClocksFewerEvents DEF FireEvent
<1>3. CASE SwitchThread
  BY <1>3, TypesSwitchThread, ClocksFewerEvents DEF SwitchThread
<1>4. CASE CallbackReturns
  <2>1. step = "Advance"
    BY <1>4 DEF CallbackReturns, Types, Located
  <2>2. UNCHANGED <<loop, step, core, current_core_to_execute>>
    BY <1>4 DEF CallbackReturns
  <2> QED
    BY <1>4, <2>1, <2>2, CallbackCalls, ClocksAfterCall, TicksAfterCall
<1>5. CASE GuestCall
  <2>1. step = "Run" /\ UNCHANGED <<loop, step, core, current_core_to_execute>>
    BY <1>5 DEF GuestCall
  <2> QED
    BY <1>5, <2>1, GuestCalls, ClocksAfterCall, TicksAfterCall
<1>6. CASE Execute \/ IdleCore
  BY <1>6, ClocksExecute
<1> QED
  BY <1>1, <1>2, <1>3, <1>4, <1>5, <1>6, ClocksBeginAdvance, ClocksEndAdvance,
     ClocksEndCatchUp, ClocksRunDelayed, ClocksStartSlice, ClocksHostPushes
  DEF Next, LoopStep

(* A timer is sane, its slice over, exactly where RunLoop relies on it:    *)
(* between the Advance of a core and its next slice its clock stands still,*)
(* only the core of a slice that runs, or that ran, has cycles left, and   *)
(* after Advance no event that was due is left (core_timing.cpp:190-251,   *)
(* core.cpp:155-215).                                                      *)
THEOREM ClocksCorrect == Spec => []Clocks
<1>1. Init => Clocks
  BY ClocksInit
<1>2. (TypeOK /\ Types) /\ (TypeOK /\ Types)' /\ Clocks /\ [Next]_vars => Clocks'
  BY ClocksStep
<1> HIDE DEF Clocks
<1> QED
  BY <1>1, <1>2, LoopTypeCorrect, PTL DEF Spec

(***************************************************************************)
(* Slices and events.                                                      *)
(***************************************************************************)
(* A slice that is not used up ends at the next event, or before.          *)
Bounded(c) ==
    ~is_timer_sane[c] => \A e \in event_queue[c] :
        downcount[c] <= 0 \/ executed_ticks[c] + slice_length[c] <= e.time

SlicesBounded == \A c \in Cores : Bounded(c)

LEMMA SlicesBoundedMeaning ==
    ASSUME Timers, SlicesBounded
    PROVE  SliceStopsAtNextEvent
<1> SUFFICES ASSUME NEW c \in Cores, NEW e \in event_queue[c], ~is_timer_sane[c]
             PROVE  executed_ticks[c] + slice_length[c] <= AtLeast(e.time, GetTicks(c))
  BY DEF SliceStopsAtNextEvent
<1>1. /\ executed_ticks[c] \in Int /\ slice_length[c] \in Int /\ downcount[c] \in Int
      /\ e.time \in Int
  BY TimerTypes, EventFields
<1>2. GetTicks(c) = executed_ticks[c] + (slice_length[c] - downcount[c])
  BY DEF GetTicks, Executed
<1>3. downcount[c] <= 0 \/ executed_ticks[c] + slice_length[c] <= e.time
  BY DEF SlicesBounded, Bounded
<1>4. PICK g \in Int : g = GetTicks(c) /\ g = executed_ticks[c] + (slice_length[c] - downcount[c])
  BY <1>1, <1>2
<1>5. PICK t \in Int : t = e.time
  BY <1>1
<1>6. AtLeast(t, g) >= t /\ AtLeast(t, g) >= g /\ AtLeast(t, g) \in Int
  BY DEF AtLeast
<1>7. executed_ticks[c] + slice_length[c] <= AtLeast(t, g)
  BY <1>1, <1>3, <1>4, <1>5, <1>6
<1> QED
  BY <1>4, <1>5, <1>7

LEMMA BoundedUnchanged ==
    ASSUME SlicesBounded,
           UNCHANGED <<event_queue, is_timer_sane, slice_length, downcount, executed_ticks>>
    PROVE  SlicesBounded'
<1>1. /\ event_queue' = event_queue /\ is_timer_sane' = is_timer_sane
      /\ slice_length' = slice_length /\ downcount' = downcount
      /\ executed_ticks' = executed_ticks
  OBVIOUS
<1> QED
  BY <1>1 DEF SlicesBounded, Bounded

LEMMA BoundedFewerEvents ==
    ASSUME SlicesBounded, FewerEvents
    PROVE  SlicesBounded'
<1>1. /\ \A c \in Cores : event_queue'[c] \subseteq event_queue[c]
      /\ is_timer_sane' = is_timer_sane
      /\ slice_length' = slice_length /\ downcount' = downcount
      /\ executed_ticks' = executed_ticks
  BY DEF FewerEvents
<1> QED
  BY <1>1 DEF SlicesBounded, Bounded

LEMMA BoundedScheduled ==
    ASSUME Timers, Timers', Sanity, SlicesBounded, NEW c \in Cores, NEW d \in Int,
           NEW k \in Keys, ScheduleEvent(c, d, k)
    PROVE  SlicesBounded'
<1>1. PICK f : /\ NewEvent(c, f, k) /\ f.time = GetTicks(c) + d
               /\ OwnEvent(c, f) => c = current_timer
               /\ OwnEvent(c, f) /\ ~is_timer_sane[c] =>
                      downcount'[c] <= 0 \/ downcount'[c] <= d
  BY ScheduleEventEffect
<1>2. /\ executed_ticks' = executed_ticks /\ is_timer_sane' = is_timer_sane
      /\ \A x \in Cores :
             /\ slice_length'[x] - downcount'[x] = slice_length[x] - downcount[x]
             /\ downcount'[x] <= downcount[x]
  BY ScheduleEventEffect
<1> SUFFICES ASSUME NEW x \in Cores, ~is_timer_sane[x], NEW e \in event_queue'[x]
             PROVE  downcount'[x] <= 0 \/ executed_ticks[x] + slice_length'[x] <= e.time
  BY <1>2 DEF SlicesBounded, Bounded
<1>3. /\ executed_ticks[x] \in Int /\ slice_length[x] \in Int /\ downcount[x] \in Int
      /\ slice_length'[x] \in Int /\ downcount'[x] \in Int
  BY TimerTypes DEF Timers
<1>4. e.time \in Int
  <2>1. event_queue'[x] \subseteq Event
    BY DEF Timers
  <2> QED
    BY <2>1, EventFields
<1>5. e \in event_queue[x] \/ (e = f /\ x = c /\ OwnEvent(c, f))
  <2>1. event_queue \in [Cores -> SUBSET Event]
    BY DEF Timers
  <2> QED
    BY <1>1, <2>1 DEF NewEvent, OwnEvent, TsEvent
<1>6. CASE e \in event_queue[x]
  <2>1. downcount[x] <= 0 \/ executed_ticks[x] + slice_length[x] <= e.time
    BY <1>6 DEF SlicesBounded, Bounded
  <2> QED
    BY <1>2, <1>3, <1>4, <2>1
<1>7. CASE e = f /\ x = c /\ OwnEvent(c, f)
  <2>1. downcount'[x] <= 0 \/ downcount'[x] <= d
    BY <1>1, <1>7
  <2>2. e.time = executed_ticks[x] + (slice_length[x] - downcount[x]) + d
    BY <1>1, <1>7 DEF GetTicks, Executed
  <2> QED
    BY <1>2, <1>3, <1>4, <2>1, <2>2
<1> QED
  BY <1>5, <1>6, <1>7

LEMMA BoundedAfterCall ==
    ASSUME Types, Types', Clocks, SlicesBounded, NEW x \in Int, Called(x)
    PROVE  SlicesBounded'
<1>1. CASE \E c \in Cores, d \in Int, k \in Keys : ScheduleEvent(c, d - x, k)
  <2>1. PICK c \in Cores, d \in Int, k \in Keys : ScheduleEvent(c, d - x, k)
    BY <1>1
  <2>2. PICK m \in Int : m = d - x
    OBVIOUS
  <2>3. ScheduleEvent(c, m, k)
    BY <2>1, <2>2
  <2> QED
    BY <2>3, BoundedScheduled DEF Types, Clocks
<1>2. CASE \E keys \in SUBSET Keys : Unschedule(keys)
  BY <1>2, UnscheduleEffect, BoundedFewerEvents DEF Types
<1>3. CASE UNCHANGED timerVars
  BY <1>3, BoundedUnchanged
<1> QED
  BY <1>1, <1>2, <1>3 DEF Called

LEMMA BoundedSet ==
    ASSUME Types, Types', SlicesBounded, NEW c \in Cores, NEW max \in Int,
           SetNextSlice(c, max)
    PROVE  SlicesBounded'
<1>1. PICK s \in Int :
          /\ \A e \in event_queue[c] : executed_ticks[c] + s <= e.time
          /\ slice_length' = [slice_length EXCEPT ![c] = s]
          /\ downcount' = [downcount EXCEPT ![c] = s]
  BY SetNextSliceEffect DEF Types
<1>2. /\ slice_length'[c] = s
      /\ \A x \in Cores \ {c} :
             slice_length'[x] = slice_length[x] /\ downcount'[x] = downcount[x]
  BY <1>1, SlicesAfterSet DEF Types
<1>3. /\ event_queue' = event_queue /\ executed_ticks' = executed_ticks
      /\ is_timer_sane' = is_timer_sane
  BY DEF SetNextSlice
<1> QED
  BY <1>1, <1>2, <1>3 DEF SlicesBounded, Bounded

LEMMA BoundedStep ==
    ASSUME Types, Types', Clocks, Clocks', SlicesBounded, [Next]_vars
    PROVE  SlicesBounded'
<1>1. CASE Begin \/ SkipCore \/ StartAll \/ EndAdvanceAll \/ EndSlice \/ EndLoop
               \/ HostReadsClock \/ RunDelayed \/ UNCHANGED vars
  <2>1. UNCHANGED <<event_queue, is_timer_sane, slice_length, downcount, executed_ticks>>
    BY <1>1 DEF Begin, SkipCore, StartAll, EndAdvanceAll, EndSlice, EndLoop,
                HostReadsClock, RunDelayed, vars
  <2> QED
    BY <2>1, BoundedUnchanged
<1>2. CASE FireEvent
  BY <1>2, PopEventEffect, BoundedFewerEvents DEF FireEvent, Types, Located
<1>3. CASE SwitchThread
  BY <1>3, TypesSwitchThread, BoundedFewerEvents
<1>4. CASE CallbackReturns
  BY <1>4, CallbackCalls, BoundedAfterCall
<1>5. CASE GuestCall
  BY <1>5, GuestCalls, BoundedAfterCall
<1>6. CASE Execute \/ IdleCore
  <2>1. PICK m \in Int : m < downcount[core] /\ downcount' = [downcount EXCEPT ![core] = m]
    BY <1>6, Executes
  <2>2. /\ core \in Cores
        /\ UNCHANGED <<event_queue, is_timer_sane, slice_length, executed_ticks>>
    BY <1>6, Executes
  <2>3. \A x \in Cores : downcount[x] \in Int /\ downcount'[x] <= downcount[x]
    <3>1. downcount \in [Cores -> Int]
      BY DEF Types, Timers
    <3>2. downcount'[core] = m /\ \A x \in Cores \ {core} : downcount'[x] = downcount[x]
      BY <2>1, <2>2, <3>1
    <3> QED
      BY <2>1, <2>2, <3>1, <3>2
  <2>4. \A x \in Cores : downcount'[x] \in Int
    BY DEF Types, Timers
  <2>5. \A x \in Cores : downcount[x] <= 0 => downcount'[x] <= 0
    BY <2>3, <2>4
  <2> QED
    BY <2>2, <2>5 DEF SlicesBounded, Bounded
<1>7. CASE BeginAdvance
  <2>1. core \in Cores /\ AdvanceStart(core)
    BY <1>7, CoreFacts DEF BeginAdvance, Types, Locals
  <2>2. /\ \A x \in Cores \ {core} :
               /\ event_queue'[x] = event_queue[x]
               /\ is_timer_sane'[x] = is_timer_sane[x]
               /\ slice_length'[x] = slice_length[x] /\ downcount'[x] = downcount[x]
               /\ executed_ticks'[x] = executed_ticks[x]
        /\ is_timer_sane'[core] = TRUE
    BY <2>1, AdvanceStartEffect DEF Types
  <2> QED
    BY <2>1, <2>2 DEF SlicesBounded, Bounded
<1>8. CASE EndAdvance
  <2>1. /\ core \in Cores /\ step = "Advance"
        /\ is_timer_sane' = [is_timer_sane EXCEPT ![core] = FALSE]
        /\ event_queue' = event_queue /\ slice_length' = slice_length
        /\ downcount' = downcount /\ executed_ticks' = executed_ticks
    BY <1>8 DEF EndAdvance, AdvanceEnd, Types, Located
  <2>2. downcount[core] <= 0
    BY <2>1 DEF Clocks, Sanity, Stopped
  <2>3. \A x \in Cores \ {core} : is_timer_sane'[x] = is_timer_sane[x]
    BY <2>1 DEF Types, Timers
  <2> QED
    BY <2>1, <2>2, <2>3 DEF SlicesBounded, Bounded
<1>9. CASE EndCatchUp
  BY <1>9, CatchUpDelay, BoundedSet
<1>10. CASE StartSlice
  BY <1>10, BoundedSet DEF StartSlice, At, Types, Locals, Located
<1>11. CASE HostPushes
  <2>1. PICK c \in Cores, k \in Keys : \E e : NewEvent(c, e, k) /\ ~OwnEvent(c, e)
    BY <1>11, HostPushesEffect
  <2>2. event_queue' = event_queue
    BY <2>1 DEF NewEvent, TsEvent
  <2> QED
    BY <1>11, <2>2, HostPushesEffect, BoundedUnchanged
<1> QED
  BY <1>1, <1>2, <1>3, <1>4, <1>5, <1>6, <1>7, <1>8, <1>9, <1>10, <1>11 DEF Next, LoopStep

LEMMA BoundedInit == Init => SlicesBounded
BY DEF Init, TimerInit, SlicesBounded, Bounded

(* A slice never reaches over an event of its core, and RunLoop never asks *)
(* for a slice when the next event is not in the future                    *)
(* (ForceExceptionCheck, SetNextSlice, GetMaxSliceLength).                 *)
THEOREM SlicesStopAtEvents == Spec => [](SliceStopsAtNextEvent /\ NextEventInFuture)
<1>1. Init => SlicesBounded
  BY BoundedInit
<1>2. (TypeOK /\ Types) /\ (TypeOK /\ Types)' /\ Clocks /\ Clocks' /\ SlicesBounded
          /\ [Next]_vars => SlicesBounded'
  BY BoundedStep
<1>3. (TypeOK /\ Types) /\ Clocks /\ SlicesBounded =>
          SliceStopsAtNextEvent /\ NextEventInFuture
  <2> SUFFICES ASSUME Types, Clocks, SlicesBounded
               PROVE  SliceStopsAtNextEvent /\ NextEventInFuture
    OBVIOUS
  <2>1. SliceStopsAtNextEvent
    BY SlicesBoundedMeaning DEF Types
  <2>2. NextEventInFuture
    <3> SUFFICES ASSUME loop = "AdvanceAll", step = "Reschedule"
                 PROVE  GetMaxSliceLength(core) > 0
      BY DEF NextEventInFuture, At
    <3>1. core \in Cores /\ \A e \in event_queue[core] : e.time > executed_ticks[core]
      BY DEF Types, Located, Clocks, NothingDue
    <3> QED
      BY <3>1, MaxSliceLength DEF Types
  <2> QED
    BY <2>1, <2>2
<1> HIDE DEF SlicesBounded, Clocks
<1> QED
  BY <1>1, <1>2, <1>3, LoopTypeCorrect, ClocksCorrect, PTL DEF Spec

(***************************************************************************)
(* Identities and order of the events.                                     *)
(***************************************************************************)
Ids == Known /\ Distinct /\ Ordered

LEMMA QueueTypes ==
    ASSUME Timers
    PROVE  /\ \A c \in Cores : \A e \in event_queue[c] :
                  e.id \in Int /\ e.fifo_order \in Int /\ e.time \in Int /\ e \in Event
           /\ \A c \in Cores : \A i \in Waits(c) :
                  /\ ts_queue[c][i].id \in Int /\ ts_queue[c][i].time \in Int
                  /\ ts_queue[c][i] \in Event /\ i \in Nat /\ i >= 1 /\ i <= Len(ts_queue[c])
           /\ \A c \in Cores : event_fifo_id[c] \in Int /\ Len(ts_queue[c]) \in Nat
           /\ scheduled \in Int
<1>1. \A c \in Cores : event_queue[c] \subseteq Event /\ ts_queue[c] \in Seq(Event)
                           /\ event_fifo_id[c] \in Nat
  BY TimerTypes
<1>2. \A c \in Cores : Len(ts_queue[c]) \in Nat /\ \A i \in Waits(c) : ts_queue[c][i] \in Event
  BY <1>1 DEF Waits
<1>3. scheduled \in Int
  BY TimingAssumption DEF Timers
<1> QED
  BY <1>1, <1>2, <1>3, EventFields DEF Waits

LEMMA IdsInit == Init => Ids
<1> SUFFICES ASSUME Init
             PROVE  Ids
  OBVIOUS
<1>1. \A c \in Cores : event_queue[c] = {} /\ ts_queue[c] = <<>>
  BY DEF Init, TimerInit
<1>2. \A c \in Cores : Waits(c) = {}
  BY <1>1 DEF Waits
<1> QED
  BY <1>1, <1>2 DEF Ids, Known, Distinct, Ordered

LEMMA IdsUnchanged ==
    ASSUME Ids, UNCHANGED queueVars
    PROVE  Ids'
<1>1. /\ event_queue' = event_queue /\ event_fifo_id' = event_fifo_id
      /\ ts_queue' = ts_queue /\ scheduled' = scheduled
  OBVIOUS
<1>2. \A c \in Cores : Waits(c)' = Waits(c)
  BY <1>1 DEF Waits
<1>3. Known'
  BY <1>1, <1>2 DEF Ids, Known
<1>4. Distinct'
  BY <1>1, <1>2 DEF Ids, Distinct
<1>5. Ordered'
  BY <1>1, <1>2 DEF Ids, Ordered
<1> QED
  BY <1>3, <1>4, <1>5 DEF Ids

LEMMA IdsFewerEvents ==
    ASSUME Ids, FewerEvents
    PROVE  Ids'
<1>1. /\ \A c \in Cores : event_queue'[c] \subseteq event_queue[c]
      /\ event_fifo_id' = event_fifo_id /\ ts_queue' = ts_queue
      /\ scheduled' = scheduled
  BY DEF FewerEvents
<1>2. \A c \in Cores : Waits(c)' = Waits(c)
  BY <1>1 DEF Waits
<1>3. Known'
  BY <1>1, <1>2 DEF Ids, Known
<1>4. Distinct'
  BY <1>1, <1>2 DEF Ids, Distinct
<1>5. Ordered'
  BY <1>1, <1>2 DEF Ids, Ordered
<1> QED
  BY <1>3, <1>4, <1>5 DEF Ids

LEMMA IdsOwnEvent ==
    ASSUME Timers, Ids, NEW c \in Cores, NEW k, NEW f, NewEvent(c, f, k), OwnEvent(c, f)
    PROVE  Ids'
<1>1. /\ event_queue \in [Cores -> SUBSET Event] /\ event_fifo_id \in [Cores -> Nat]
  BY DEF Timers
<1>2. /\ event_queue' = [event_queue EXCEPT ![c] = @ \cup {f}]
      /\ event_fifo_id' = [event_fifo_id EXCEPT ![c] = @ + 1]
      /\ ts_queue' = ts_queue /\ scheduled' = scheduled + 1
      /\ f.by = "core" /\ f.fifo_order = event_fifo_id[c] /\ f.id = scheduled + 1
      /\ scheduled' = scheduled + 1
  BY DEF NewEvent, OwnEvent
<1>3. /\ \A x \in Cores : \A e \in event_queue'[x] : e \in event_queue[x] \/ (e = f /\ x = c)
      /\ \A x \in Cores : event_fifo_id'[x] >= event_fifo_id[x]
      /\ event_fifo_id'[c] = event_fifo_id[c] + 1
      /\ \A x \in Cores : Waits(x)' = Waits(x)
  BY <1>1, <1>2 DEF Waits
<1>4. /\ \A x \in Cores : \A e \in event_queue[x] :
             e.id \in Int /\ e.fifo_order \in Int /\ e.id <= scheduled
                 /\ e.fifo_order < event_fifo_id[x]
      /\ \A x \in Cores : \A i \in Waits(x) :
             ts_queue[x][i].id \in Int /\ ts_queue[x][i].id <= scheduled
                 /\ ts_queue[x][i].by # "core"
      /\ scheduled \in Int /\ \A x \in Cores : event_fifo_id[x] \in Int
  BY QueueTypes DEF Ids, Known
<1>5. Known'
  BY <1>1, <1>2, <1>3, <1>4 DEF Known
<1>6. Distinct'
  <2>1. \A x \in Cores : \A e \in event_queue[x] : e.id # f.id
    BY <1>2, <1>4
  <2>2. \A x \in Cores : \A i \in Waits(x) : ts_queue[x][i].id # f.id
    BY <1>2, <1>4
  <2> QED
    BY <1>2, <1>3, <2>1, <2>2 DEF Distinct, Ids
<1>7. Ordered'
  <2>1. \A e \in event_queue[c] : e.fifo_order < f.fifo_order /\ e.id < f.id
    BY <1>2, <1>4
  <2>2. f.fifo_order \in Int
    BY <1>2, <1>4
  <2>3. \A e \in event_queue[c] : e.fifo_order # f.fifo_order /\ ~(f.fifo_order < e.fifo_order)
    BY <1>4, <2>1, <2>2
  <2> QED
    BY <1>2, <1>3, <2>1, <2>2, <2>3 DEF Ordered, Ids
<1> QED
  BY <1>5, <1>6, <1>7 DEF Ids

LEMMA TsQueueAppended ==
    ASSUME Timers, NEW c \in Cores, NEW f \in Event, TsEvent(c, f),
           NEW n \in Nat, n = Len(ts_queue[c])
    PROVE  /\ event_queue' = event_queue
           /\ \A x \in Cores \ {c} : ts_queue'[x] = ts_queue[x] /\ Waits(x)' = Waits(x)
           /\ Waits(c) = 1..n /\ Waits(c)' = 1..(n + 1)
           /\ ts_queue'[c][n + 1] = f
           /\ \A i \in 1..n : ts_queue'[c][i] = ts_queue[c][i]
<1>1. ts_queue \in [Cores -> Seq(Event)] /\ ts_queue[c] \in Seq(Event)
  BY TimerTypes DEF Timers
<1>2. PICK q : q = Append(ts_queue[c], f)
  OBVIOUS
<1>3. Len(q) = n + 1 /\ q[n + 1] = f /\ \A i \in 1..n : q[i] = ts_queue[c][i]
  BY <1>1, <1>2
<1>4. /\ event_queue' = event_queue /\ ts_queue'[c] = q
      /\ \A x \in Cores \ {c} : ts_queue'[x] = ts_queue[x]
  BY <1>1, <1>2 DEF TsEvent
<1> QED
  BY <1>3, <1>4 DEF Waits

LEMMA IdsTsEvent ==
    ASSUME Timers, Ids, NEW c \in Cores, NEW k, NEW f, NewEvent(c, f, k), TsEvent(c, f)
    PROVE  Ids'
<1>1. /\ ts_queue' = [ts_queue EXCEPT ![c] = Append(@, f)]
      /\ event_queue' = event_queue /\ event_fifo_id' = event_fifo_id
      /\ scheduled' = scheduled + 1
      /\ f.by # "core" /\ f.id = scheduled + 1 /\ f \in Event
  BY DEF NewEvent, TsEvent
<1>2. PICK n \in Nat : n = Len(ts_queue[c])
  BY QueueTypes
<1>3. /\ \A x \in Cores \ {c} : ts_queue'[x] = ts_queue[x] /\ Waits(x)' = Waits(x)
      /\ Waits(c) = 1..n /\ Waits(c)' = 1..(n + 1)
      /\ ts_queue'[c][n + 1] = f
      /\ \A i \in 1..n : ts_queue'[c][i] = ts_queue[c][i]
  BY <1>1, <1>2, TsQueueAppended
<1>4. \A x \in Cores : \A i \in Waits(x)' :
          (i \in Waits(x) /\ ts_queue'[x][i] = ts_queue[x][i])
              \/ (x = c /\ i = n + 1 /\ ts_queue'[x][i] = f)
  BY <1>2, <1>3
<1>5. /\ \A x \in Cores : \A e \in event_queue[x] :
             e.id \in Int /\ e.fifo_order \in Int /\ e.id <= scheduled
                 /\ e.fifo_order < event_fifo_id[x]
      /\ \A x \in Cores : \A i \in Waits(x) :
             ts_queue[x][i].id \in Int /\ ts_queue[x][i].id <= scheduled
                 /\ ts_queue[x][i].by # "core"
      /\ scheduled \in Int /\ \A x \in Cores : event_fifo_id[x] \in Int
  BY QueueTypes DEF Ids, Known
<1>10. /\ event_queue' = event_queue /\ event_fifo_id' = event_fifo_id
       /\ scheduled' = scheduled + 1 /\ f.by # "core" /\ f.id = scheduled + 1
  BY <1>1
<1>6. /\ \A x \in Cores : \A e \in event_queue[x] : e.id < f.id
      /\ \A x \in Cores : \A i \in Waits(x) : ts_queue[x][i].id < f.id
      /\ \A x \in Cores : \A e \in event_queue[x] : e.id # f.id
      /\ \A x \in Cores : \A i \in Waits(x) : ts_queue[x][i].id # f.id
  BY <1>5, <1>10
<1>7. Known'
  <2>1. \A x \in Cores : \A e \in event_queue'[x] :
            e.id <= scheduled' /\ e.fifo_order < event_fifo_id'[x]
    BY <1>10, <1>5
  <2>2. \A x \in Cores : \A i \in Waits(x)' :
            ts_queue'[x][i].id <= scheduled' /\ ts_queue'[x][i].by # "core"
    <3> SUFFICES ASSUME NEW x \in Cores, NEW i \in Waits(x)'
                 PROVE  ts_queue'[x][i].id <= scheduled' /\ ts_queue'[x][i].by # "core"
      OBVIOUS
    <3>1. CASE i \in Waits(x) /\ ts_queue'[x][i] = ts_queue[x][i]
      BY <1>10, <1>5, <3>1
    <3>2. CASE ts_queue'[x][i] = f
      BY <1>10, <1>5, <3>2
    <3> QED
      BY <1>4, <3>1, <3>2
  <2> QED
    BY <2>1, <2>2 DEF Known
<1>8. Distinct'
  <2>1. \A x, y \in Cores : \A e \in event_queue'[x], g \in event_queue'[y] :
            e.id = g.id => x = y /\ e = g
    BY <1>10 DEF Distinct, Ids
  <2>2. \A x, y \in Cores : \A e \in event_queue'[x], i \in Waits(y)' :
            e.id # ts_queue'[y][i].id
    <3> SUFFICES ASSUME NEW x \in Cores, NEW y \in Cores,
                        NEW e \in event_queue'[x], NEW i \in Waits(y)'
                 PROVE  e.id # ts_queue'[y][i].id
      OBVIOUS
    <3>1. CASE i \in Waits(y) /\ ts_queue'[y][i] = ts_queue[y][i]
      BY <1>10, <3>1 DEF Distinct, Ids
    <3>2. CASE ts_queue'[y][i] = f
      BY <1>10, <1>6, <3>2
    <3> QED
      BY <1>4, <3>1, <3>2
  <2>3. \A x, y \in Cores : \A i \in Waits(x)', j \in Waits(y)' :
            ts_queue'[x][i].id = ts_queue'[y][j].id => x = y /\ i = j
    <3> SUFFICES ASSUME NEW x \in Cores, NEW y \in Cores,
                        NEW i \in Waits(x)', NEW j \in Waits(y)',
                        ts_queue'[x][i].id = ts_queue'[y][j].id
                 PROVE  x = y /\ i = j
      OBVIOUS
    <3>1. CASE i \in Waits(x) /\ ts_queue'[x][i] = ts_queue[x][i]
      <4>1. j \in Waits(y) /\ ts_queue'[y][j] = ts_queue[y][j]
        BY <1>4, <1>6, <3>1
      <4> QED
        BY <3>1, <4>1 DEF Distinct, Ids
    <3>2. CASE x = c /\ i = n + 1 /\ ts_queue'[x][i] = f
      BY <1>4, <1>6, <3>2
    <3> QED
      BY <1>4, <3>1, <3>2
  <2> QED
    BY <2>1, <2>2, <2>3 DEF Distinct
<1>9. Ordered'
  <2>1. \A x \in Cores : \A e \in event_queue'[x], i \in Waits(x)' :
            e.by # "core" => e.id < ts_queue'[x][i].id
    BY <1>10, <1>4, <1>6 DEF Ordered, Ids
  <2>2. \A x \in Cores : \A i, j \in Waits(x)' :
            i < j => ts_queue'[x][i].id < ts_queue'[x][j].id
    <3> SUFFICES ASSUME NEW x \in Cores, NEW i \in Waits(x)', NEW j \in Waits(x)', i < j
                 PROVE  ts_queue'[x][i].id < ts_queue'[x][j].id
      OBVIOUS
    <3>1. i \in Waits(x) /\ ts_queue'[x][i] = ts_queue[x][i]
      <4>1. CASE x = c
        <5>1. i \in 1..(n + 1) /\ j \in 1..(n + 1)
          BY <1>3, <4>1
        <5>2. i \in 1..n
          BY <1>2, <5>1
        <5> QED
          BY <1>3, <4>1, <5>2
      <4>2. CASE x # c
        BY <1>3, <4>2
      <4> QED
        BY <4>1, <4>2
    <3>2. CASE j \in Waits(x) /\ ts_queue'[x][j] = ts_queue[x][j]
      BY <3>1, <3>2 DEF Ordered, Ids
    <3>3. CASE ts_queue'[x][j] = f
      BY <1>6, <3>1, <3>3
    <3> QED
      BY <1>4, <3>2, <3>3
  <2> QED
    BY <1>10, <2>1, <2>2 DEF Ordered, Ids
<1> QED
  BY <1>7, <1>8, <1>9 DEF Ids

LEMMA IdsAdvanceStart ==
    ASSUME Timers, Ids, NEW c \in Cores, AdvanceStart(c)
    PROVE  Ids'
<1>1. /\ scheduled' = scheduled
      /\ \A x \in Cores \ {c} :
             /\ event_queue'[x] = event_queue[x] /\ ts_queue'[x] = ts_queue[x]
             /\ event_fifo_id'[x] = event_fifo_id[x]
      /\ event_queue'[c] = event_queue[c] \cup Moved(c) /\ ts_queue'[c] = <<>>
      /\ event_fifo_id'[c] = event_fifo_id[c] + Len(ts_queue[c])
  BY AdvanceStartEffect
<1>2. /\ Waits(c)' = {}
      /\ \A x \in Cores \ {c} : Waits(x)' = Waits(x)
  BY <1>1 DEF Waits
<1>3. \A x \in Cores : \A e \in event_queue'[x] :
          e \in event_queue[x] \/ (x = c /\ \E i \in Waits(c) : e = MovedEvent(c, i))
  BY <1>1, MovedEvents
<1>4. \A i \in Waits(c) :
          /\ MovedEvent(c, i).id = ts_queue[c][i].id
          /\ MovedEvent(c, i).by = ts_queue[c][i].by
          /\ MovedEvent(c, i).fifo_order = event_fifo_id[c] + i - 1
  BY MovedEvents
<1>5. PICK n \in Nat, o \in Int : n = Len(ts_queue[c]) /\ o = event_fifo_id[c]
  BY QueueTypes
<1>6. Known'
  <2>1. \A x \in Cores : \A e \in event_queue'[x] :
            e.id <= scheduled' /\ e.fifo_order < event_fifo_id'[x]
    <3> SUFFICES ASSUME NEW x \in Cores, NEW e \in event_queue'[x]
                 PROVE  e.id <= scheduled /\ e.fifo_order < event_fifo_id'[x]
      BY <1>1
    <3>1. CASE e \in event_queue[x]
      <4>1. /\ e.id <= scheduled /\ e.fifo_order < event_fifo_id[x]
            /\ e.fifo_order \in Int
            /\ event_fifo_id[x] \in Int
        BY <3>1, QueueTypes DEF Ids, Known
      <4> QED
        BY <1>1, <1>5, <4>1
    <3>2. CASE x = c /\ \E i \in Waits(c) : e = MovedEvent(c, i)
      <4>1. PICK i \in Waits(c) : e = MovedEvent(c, i)
        BY <3>2
      <4>2. i \in Nat /\ i <= n
        BY <1>5, QueueTypes
      <4>3. e.id <= scheduled /\ e.fifo_order = o + i - 1
        BY <1>4, <1>5, <4>1 DEF Ids, Known
      <4> QED
        BY <1>1, <1>5, <3>2, <4>2, <4>3
    <3> QED
      BY <1>3, <3>1, <3>2
  <2>2. \A x \in Cores : \A i \in Waits(x)' :
            ts_queue'[x][i].id <= scheduled' /\ ts_queue'[x][i].by # "core"
    BY <1>1, <1>2 DEF Ids, Known
  <2> QED
    BY <2>1, <2>2 DEF Known
<1>7. Distinct'
  <2>1. \A x, y \in Cores : \A e \in event_queue'[x], g \in event_queue'[y] :
            e.id = g.id => x = y /\ e = g
    <3> SUFFICES ASSUME NEW x \in Cores, NEW y \in Cores,
                        NEW e \in event_queue'[x], NEW g \in event_queue'[y], e.id = g.id
                 PROVE  x = y /\ e = g
      OBVIOUS
    <3>1. CASE e \in event_queue[x] /\ g \in event_queue[y]
      BY <3>1 DEF Ids, Distinct
    <3>2. CASE e \in event_queue[x] /\ \E i \in Waits(c) : g = MovedEvent(c, i)
      BY <1>4, <3>2 DEF Ids, Distinct
    <3>3. CASE g \in event_queue[y] /\ \E i \in Waits(c) : e = MovedEvent(c, i)
      BY <1>4, <3>3 DEF Ids, Distinct
    <3>4. CASE /\ x = c /\ \E i \in Waits(c) : e = MovedEvent(c, i)
               /\ y = c /\ \E i \in Waits(c) : g = MovedEvent(c, i)
      <4>1. PICK i \in Waits(c), j \in Waits(c) : e = MovedEvent(c, i) /\ g = MovedEvent(c, j)
        BY <3>4
      <4>2. ts_queue[c][i].id = ts_queue[c][j].id
        BY <1>4, <4>1
      <4>3. i = j
        BY <4>2 DEF Ids, Distinct
      <4> QED
        BY <3>4, <4>1, <4>3
    <3> QED
      BY <1>3, <3>1, <3>2, <3>3, <3>4
  <2>2. \A x, y \in Cores : \A e \in event_queue'[x], i \in Waits(y)' :
            e.id # ts_queue'[y][i].id
    <3> SUFFICES ASSUME NEW x \in Cores, NEW y \in Cores,
                        NEW e \in event_queue'[x], NEW i \in Waits(y)'
                 PROVE  e.id # ts_queue'[y][i].id
      OBVIOUS
    <3>1. y # c /\ i \in Waits(y) /\ ts_queue'[y][i] = ts_queue[y][i]
      BY <1>1, <1>2
    <3>2. CASE e \in event_queue[x]
      BY <3>1, <3>2 DEF Ids, Distinct
    <3>3. CASE \E j \in Waits(c) : e = MovedEvent(c, j)
      BY <1>4, <3>1, <3>3 DEF Ids, Distinct
    <3> QED
      BY <1>3, <3>2, <3>3
  <2>3. \A x, y \in Cores : \A i \in Waits(x)', j \in Waits(y)' :
            ts_queue'[x][i].id = ts_queue'[y][j].id => x = y /\ i = j
    <3> SUFFICES ASSUME NEW x \in Cores, NEW y \in Cores,
                        NEW i \in Waits(x)', NEW j \in Waits(y)',
                        ts_queue'[x][i].id = ts_queue'[y][j].id
                 PROVE  x = y /\ i = j
      OBVIOUS
    <3>1. /\ i \in Waits(x) /\ ts_queue'[x][i] = ts_queue[x][i]
          /\ j \in Waits(y) /\ ts_queue'[y][j] = ts_queue[y][j]
      BY <1>1, <1>2
    <3> QED
      BY <3>1 DEF Ids, Distinct
  <2> QED
    BY <2>1, <2>2, <2>3 DEF Distinct
<1>8. Ordered'
  <2>1. \A i \in Waits(c) : i \in Nat /\ i >= 1
    BY QueueTypes
  <2>2. \A x \in Cores : \A e \in event_queue[x] :
            e.id \in Int /\ e.fifo_order \in Int /\ e.fifo_order < event_fifo_id[x]
    BY QueueTypes DEF Ids, Known
  <2>3. \A e \in event_queue[c], i \in Waits(c) :
            /\ e.fifo_order < MovedEvent(c, i).fifo_order
            /\ e.fifo_order # MovedEvent(c, i).fifo_order
            /\ ~ (MovedEvent(c, i).fifo_order < e.fifo_order)
            /\ e.by # "core" => e.id < MovedEvent(c, i).id
            /\ MovedEvent(c, i).by # "core"
    <3> SUFFICES ASSUME NEW e \in event_queue[c], NEW i \in Waits(c)
                 PROVE  /\ e.fifo_order < MovedEvent(c, i).fifo_order
                        /\ e.fifo_order # MovedEvent(c, i).fifo_order
                        /\ ~ (MovedEvent(c, i).fifo_order < e.fifo_order)
                        /\ e.by # "core" => e.id < MovedEvent(c, i).id
                        /\ MovedEvent(c, i).by # "core"
      OBVIOUS
    <3>1. PICK m \in Int, k \in Int : m = o + i - 1 /\ m >= o /\ k = e.fifo_order /\ k < o
      BY <1>5, <2>1, <2>2
    <3>2. MovedEvent(c, i).fifo_order = m
      BY <1>4, <1>5, <3>1
    <3>3. /\ e.by # "core" => e.id < MovedEvent(c, i).id
          /\ MovedEvent(c, i).by # "core"
      BY <1>4 DEF Ids, Ordered, Known
    <3> QED
      BY <1>5, <3>1, <3>2, <3>3
  <2>4. \A i, j \in Waits(c) :
            /\ MovedEvent(c, i).fifo_order = MovedEvent(c, j).fifo_order => i = j
            /\ MovedEvent(c, i).fifo_order < MovedEvent(c, j).fifo_order =>
                   MovedEvent(c, i).id < MovedEvent(c, j).id
    <3> SUFFICES ASSUME NEW i \in Waits(c), NEW j \in Waits(c)
                 PROVE  /\ MovedEvent(c, i).fifo_order = MovedEvent(c, j).fifo_order => i = j
                        /\ MovedEvent(c, i).fifo_order < MovedEvent(c, j).fifo_order =>
                               MovedEvent(c, i).id < MovedEvent(c, j).id
      OBVIOUS
    <3>1. /\ MovedEvent(c, i).fifo_order = o + i - 1
          /\ MovedEvent(c, j).fifo_order = o + j - 1
      BY <1>4, <1>5
    <3>2. i \in Nat /\ j \in Nat
      BY <2>1
    <3>3. i < j => MovedEvent(c, i).id < MovedEvent(c, j).id
      BY <1>4 DEF Ids, Ordered
    <3>4. (o + i - 1 = o + j - 1 => i = j) /\ (o + i - 1 < o + j - 1 => i < j)
      BY <1>5, <3>2
    <3> QED
      BY <3>1, <3>3, <3>4
  <2>5. \A x \in Cores : \A e, f \in event_queue'[x] :
            /\ e.fifo_order = f.fifo_order => e = f
            /\ e.fifo_order < f.fifo_order /\ (e.by = "core" <=> f.by = "core") => e.id < f.id
    <3> SUFFICES ASSUME NEW x \in Cores, NEW e \in event_queue'[x], NEW f \in event_queue'[x]
                 PROVE  /\ e.fifo_order = f.fifo_order => e = f
                        /\ e.fifo_order < f.fifo_order /\ (e.by = "core" <=> f.by = "core")
                               => e.id < f.id
      OBVIOUS
    <3>1. CASE e \in event_queue[x] /\ f \in event_queue[x]
      BY <3>1 DEF Ids, Ordered
    <3>2. CASE x = c /\ e \in event_queue[x] /\ \E i \in Waits(c) : f = MovedEvent(c, i)
      BY <2>3, <3>2
    <3>3. CASE x = c /\ f \in event_queue[x] /\ \E i \in Waits(c) : e = MovedEvent(c, i)
      BY <2>3, <3>3
    <3>4. CASE (\E i \in Waits(c) : e = MovedEvent(c, i)) /\ \E i \in Waits(c) : f = MovedEvent(c, i)
      <4>1. PICK i \in Waits(c), j \in Waits(c) : e = MovedEvent(c, i) /\ f = MovedEvent(c, j)
        BY <3>4
      <4> QED
        BY <2>4, <4>1
    <3> QED
      BY <1>3, <3>1, <3>2, <3>3, <3>4
  <2>6. \A x \in Cores : \A e \in event_queue'[x], i \in Waits(x)' :
            e.by # "core" => e.id < ts_queue'[x][i].id
    BY <1>1, <1>2 DEF Ids, Ordered
  <2>7. \A x \in Cores : \A i, j \in Waits(x)' :
            i < j => ts_queue'[x][i].id < ts_queue'[x][j].id
    BY <1>1, <1>2 DEF Ids, Ordered
  <2> QED
    BY <2>5, <2>6, <2>7 DEF Ordered
<1> QED
  BY <1>6, <1>7, <1>8 DEF Ids

LEMMA IdsNewEvent ==
    ASSUME Timers, Ids, NEW c \in Cores, NEW k, NEW e, NewEvent(c, e, k)
    PROVE  Ids'
BY IdsOwnEvent, IdsTsEvent DEF NewEvent

LEMMA IdsAfterCall ==
    ASSUME Timers, Ids, NEW x \in Int, Called(x)
    PROVE  Ids'
<1>1. CASE \E c \in Cores, d \in Int, k \in Keys : ScheduleEvent(c, d - x, k)
  <2>1. PICK c \in Cores, d \in Int, k \in Keys : ScheduleEvent(c, d - x, k)
    BY <1>1
  <2>2. PICK m \in Int : m = d - x
    OBVIOUS
  <2>3. ScheduleEvent(c, m, k)
    BY <2>1, <2>2
  <2>4. PICK e : NewEvent(c, e, k)
    BY <2>3, ScheduleEventEffect
  <2> QED
    BY <2>4, IdsNewEvent
<1>2. CASE \E keys \in SUBSET Keys : Unschedule(keys)
  BY <1>2, UnscheduleEffect, IdsFewerEvents
<1>3. CASE UNCHANGED timerVars
  BY <1>3, IdsUnchanged
<1> QED
  BY <1>1, <1>2, <1>3 DEF Called

LEMMA IdsStep ==
    ASSUME Types, Types', Ids, [Next]_vars
    PROVE  Ids'
<1>1. CASE Begin \/ SkipCore \/ StartAll \/ EndAdvanceAll \/ EndSlice \/ EndLoop
               \/ HostReadsClock \/ RunDelayed \/ EndAdvance \/ EndCatchUp \/ StartSlice
               \/ Execute \/ IdleCore \/ UNCHANGED vars
  <2>1. UNCHANGED queueVars
    BY <1>1 DEF Begin, SkipCore, StartAll, EndAdvanceAll, EndSlice, EndLoop,
                HostReadsClock, RunDelayed, EndAdvance, AdvanceEnd, EndCatchUp,
                StartSlice, SetNextSlice, Execute, AddTicks, IdleCore, Idle, vars
  <2> QED
    BY <2>1, IdsUnchanged
<1>2. CASE FireEvent
  BY <1>2, PopEventEffect, IdsFewerEvents DEF FireEvent, Types, Located
<1>3. CASE SwitchThread
  BY <1>3, TypesSwitchThread, IdsFewerEvents
<1>4. CASE CallbackReturns
  BY <1>4, CallbackCalls, IdsAfterCall DEF Types
<1>5. CASE GuestCall
  BY <1>5, GuestCalls, IdsAfterCall DEF Types
<1>6. CASE BeginAdvance
  BY <1>6, CoreFacts, IdsAdvanceStart DEF BeginAdvance, Types, Locals
<1>7. CASE HostPushes
  <2>1. PICK c \in Cores, k \in Keys : \E e : NewEvent(c, e, k)
    BY <1>7, HostPushesEffect
  <2> QED
    BY <2>1, IdsNewEvent DEF Types
<1> QED
  BY <1>1, <1>2, <1>3, <1>4, <1>5, <1>6, <1>7 DEF Next, LoopStep

(* However events come, from the core that runs, from another core or from *)
(* a host thread: no two in the timers are the same, and fifo_order numbers*)
(* those of one origin in the order they were scheduled, also when         *)
(* MoveEvents renumbers them (core_timing.cpp:65-107, 198-206).            *)
THEOREM EventsOrdered == Spec => []Ids
<1>1. Init => Ids
  BY IdsInit
<1>2. (TypeOK /\ Types) /\ (TypeOK /\ Types)' /\ Ids /\ [Next]_vars => Ids'
  BY IdsStep
<1> HIDE DEF Ids
<1> QED
  BY <1>1, <1>2, LoopTypeCorrect, PTL DEF Spec

LEMMA FiresInOrder ==
    ASSUME Types, Ids
    PROVE  SharedSlotInOrder
<1> SUFFICES ASSUME FireEvent, NEW c \in Cores, NEW e \in event_queue[c] \ event_queue'[c],
                    NEW f \in event_queue[c] \ {e},
                    f.time = e.time, f.by = "core" <=> e.by = "core"
             PROVE  e.id < f.id
  BY DEF SharedSlotInOrder
<1>1. core \in Cores /\ PopEvent(core)
  BY DEF FireEvent, Types, Located
<1>2. PICK g \in event_queue[core] :
          IsFront(core, g) /\ event_queue' = [event_queue EXCEPT ![core] = @ \ {g}]
  BY <1>1, PopEventEffect DEF Types
<1>3. c = core /\ e = g
  <2>1. event_queue \in [Cores -> SUBSET Event]
    BY DEF Types, Timers
  <2> QED
    BY <1>1, <1>2, <2>1
<1>4. e.fifo_order \in Int /\ f.fifo_order \in Int /\ e.fifo_order # f.fifo_order
  BY QueueTypes DEF Types, Ids, Ordered
<1>5. ~ (f.fifo_order < e.fifo_order)
  BY <1>2, <1>3 DEF IsFront, Before
<1>6. e.fifo_order < f.fifo_order
  BY <1>4, <1>5
<1> QED
  BY <1>6 DEF Ids, Ordered

(* Shortening a slice, ending it, Advance and SetNextSlice leave GetTicks  *)
(* where it was: only Execute and Idle take time; and the events of one    *)
(* time that came the same way do not overtake each other                  *)
(* (core_timing.cpp:171-251).                                              *)
THEOREM TimeAndOrder == Spec => StepsOfTime
<1>1. (TypeOK /\ Types) /\ (TypeOK /\ Types)' /\ Clocks /\ Ids /\ [Next]_vars =>
          [OnlyExecutionTakesTime /\ SharedSlotInOrder]_vars
  <2> SUFFICES ASSUME Types, Types', Clocks, Ids, [Next]_vars
               PROVE  OnlyExecutionTakesTime /\ SharedSlotInOrder
    OBVIOUS
  <2>1. OnlyExecutionTakesTime
    BY ClocksStep DEF OnlyExecutionTakesTime, SameTicks
  <2>2. SharedSlotInOrder
    BY FiresInOrder
  <2> QED
    BY <2>1, <2>2
<1> QED
  BY <1>1, LoopTypeCorrect, ClocksCorrect, EventsOrdered, PTL DEF Spec, StepsOfTime

(***************************************************************************)
(* The events to come, as EventSchedule sees them.                         *)
(***************************************************************************)
SettledEntry(c, e) ==
    [core |-> c, id |-> e.id, time |-> e.time, key |-> e.key, settled |-> TRUE]
LooseEntry(c, e) ==
    [core |-> c, id |-> e.id, time |-> e.time, key |-> e.key, settled |-> FALSE]

LEMMA EntryFields ==
    ASSUME NEW c, NEW e
    PROVE  /\ SettledEntry(c, e).core = c /\ SettledEntry(c, e).id = e.id
           /\ SettledEntry(c, e).time = e.time /\ SettledEntry(c, e).key = e.key
           /\ SettledEntry(c, e).settled
           /\ LooseEntry(c, e).core = c /\ LooseEntry(c, e).id = e.id
           /\ LooseEntry(c, e).time = e.time /\ LooseEntry(c, e).key = e.key
           /\ ~LooseEntry(c, e).settled
BY DEF SettledEntry, LooseEntry

LEMMA EntrySettles ==
    ASSUME NEW c, NEW e
    PROVE  /\ [LooseEntry(c, e) EXCEPT !.settled = TRUE] = SettledEntry(c, e)
           /\ [SettledEntry(c, e) EXCEPT !.settled = TRUE] = SettledEntry(c, e)
<1> DEFINE F == {"core", "id", "time", "key", "settled"}
           r == LooseEntry(c, e)
           q == SettledEntry(c, e)
           t == [r EXCEPT !.settled = TRUE]
           u == [q EXCEPT !.settled = TRUE]
<1>1. r = [f \in F |-> r[f]]
  BY DEF LooseEntry
<1>2. q = [f \in F |-> q[f]]
  BY DEF SettledEntry
<1>3. /\ r.core = q.core /\ r.id = q.id /\ r.time = q.time /\ r.key = q.key
      /\ q.settled = TRUE
  BY DEF SettledEntry, LooseEntry
<1> HIDE DEF r, q
<1>4. t = [f \in F |-> t[f]] /\ u = [f \in F |-> u[f]]
  BY <1>1, <1>2
<1>5. \A f \in F : t[f] = q[f] /\ u[f] = q[f]
  BY <1>1, <1>2, <1>3
<1> QED
  BY <1>2, <1>4, <1>5 DEF r, q

LEMMA WaitingMembers ==
    /\ \A w : w \in Waiting <=> \E c \in Cores :
           \/ \E e \in event_queue[c] : w = SettledEntry(c, e)
           \/ \E i \in Waits(c) : w = LooseEntry(c, ts_queue[c][i])
    /\ \A w : w \in Waiting' <=> \E c \in Cores :
           \/ \E e \in event_queue'[c] : w = SettledEntry(c, e)
           \/ \E i \in Waits(c)' : w = LooseEntry(c, ts_queue'[c][i])
<1>1. \A w : w \in Waiting <=> \E c \in Cores :
           \/ \E e \in event_queue[c] : w = SettledEntry(c, e)
           \/ \E i \in Waits(c) : w = LooseEntry(c, ts_queue[c][i])
  BY DEF Waiting, Waits, SettledEntry, LooseEntry
<1>2. \A w : w \in Waiting' <=> \E c \in Cores :
           \/ \E e \in event_queue'[c] : w = SettledEntry(c, e)
           \/ \E i \in Waits(c)' : w = LooseEntry(c, ts_queue'[c][i])
  BY DEF Waiting, Waits, SettledEntry, LooseEntry
<1> QED
  BY <1>1, <1>2

LEMMA WaitingUnchanged ==
    ASSUME UNCHANGED <<event_queue, ts_queue>>
    PROVE  Waiting' = Waiting
<1>1. event_queue' = event_queue /\ ts_queue' = ts_queue
  OBVIOUS
<1> QED
  BY <1>1 DEF Waiting

LEMMA WaitingAfterNewEvent ==
    ASSUME Timers, Ids, NEW c \in Cores, NEW k, NEW f, NewEvent(c, f, k)
    PROVE  /\ \/ Waiting' = Waiting \cup {SettledEntry(c, f)}
              \/ Waiting' = Waiting \cup {LooseEntry(c, f)}
           /\ \A w \in Waiting : w.id # f.id
<1>1. \A w \in Waiting : w.id # f.id
  <2> SUFFICES ASSUME NEW w \in Waiting
               PROVE  w.id # f.id
    OBVIOUS
  <2>1. f.id = scheduled + 1 /\ scheduled \in Int
    BY QueueTypes DEF NewEvent
  <2>2. w.id \in Int /\ w.id <= scheduled
    <3>1. PICK x \in Cores :
              \/ \E e \in event_queue[x] : w = SettledEntry(x, e)
              \/ \E i \in Waits(x) : w = LooseEntry(x, ts_queue[x][i])
      BY WaitingMembers
    <3>2. CASE \E e \in event_queue[x] : w = SettledEntry(x, e)
      <4>1. PICK e \in event_queue[x] : w = SettledEntry(x, e)
        BY <3>2
      <4>2. w.id = e.id
        BY <4>1, EntryFields
      <4> QED
        BY <4>2, QueueTypes DEF Ids, Known
    <3>3. CASE \E i \in Waits(x) : w = LooseEntry(x, ts_queue[x][i])
      <4>1. PICK i \in Waits(x) : w = LooseEntry(x, ts_queue[x][i])
        BY <3>3
      <4>2. w.id = ts_queue[x][i].id
        BY <4>1, EntryFields
      <4> QED
        BY <4>2, QueueTypes DEF Ids, Known
    <3> QED
      BY <3>1, <3>2, <3>3
  <2> QED
    BY <2>1, <2>2
<1>2. CASE OwnEvent(c, f)
  <2>1. /\ event_queue'[c] = event_queue[c] \cup {f} /\ ts_queue' = ts_queue
        /\ \A x \in Cores \ {c} : event_queue'[x] = event_queue[x]
    BY <1>2 DEF OwnEvent, Timers
  <2>2. \A x \in Cores : Waits(x)' = Waits(x)
    BY <2>1 DEF Waits
  <2>3. \A w : w \in Waiting' <=> w \in Waiting \/ w = SettledEntry(c, f)
    <3> SUFFICES ASSUME NEW w
                 PROVE  w \in Waiting' <=> w \in Waiting \/ w = SettledEntry(c, f)
      OBVIOUS
    <3>1. ASSUME w \in Waiting'
          PROVE  w \in Waiting \/ w = SettledEntry(c, f)
      BY <2>1, <2>2, <3>1, WaitingMembers
    <3>2. ASSUME w \in Waiting
          PROVE  w \in Waiting'
      BY <2>1, <2>2, <3>2, WaitingMembers
    <3>3. ASSUME w = SettledEntry(c, f)
          PROVE  w \in Waiting'
      BY <2>1, <3>3, WaitingMembers
    <3> QED
      BY <3>1, <3>2, <3>3
  <2>4. Waiting' = Waiting \cup {SettledEntry(c, f)}
    BY <2>3
  <2> QED
    BY <1>1, <2>4
<1>3. CASE TsEvent(c, f)
  <2>1. PICK n \in Nat : n = Len(ts_queue[c])
    BY QueueTypes
  <2>2. /\ event_queue' = event_queue
        /\ \A x \in Cores \ {c} : ts_queue'[x] = ts_queue[x] /\ Waits(x)' = Waits(x)
        /\ Waits(c) = 1..n /\ Waits(c)' = 1..(n + 1) /\ ts_queue'[c][n + 1] = f
        /\ \A i \in 1..n : ts_queue'[c][i] = ts_queue[c][i]
    BY <1>3, <2>1, TsQueueAppended DEF NewEvent
  <2>3. \A i : i \in 1..(n + 1) <=> i \in 1..n \/ i = n + 1
    BY <2>1
  <2>4. \A w : w \in Waiting' <=> w \in Waiting \/ w = LooseEntry(c, f)
    <3> SUFFICES ASSUME NEW w
                 PROVE  w \in Waiting' <=> w \in Waiting \/ w = LooseEntry(c, f)
      OBVIOUS
    <3>1. ASSUME w \in Waiting'
          PROVE  w \in Waiting \/ w = LooseEntry(c, f)
      BY <2>2, <2>3, <3>1, WaitingMembers
    <3>2. ASSUME w \in Waiting
          PROVE  w \in Waiting'
      BY <2>2, <2>3, <3>2, WaitingMembers
    <3>3. ASSUME w = LooseEntry(c, f)
          PROVE  w \in Waiting'
      <4>1. n + 1 \in Waits(c)'
        BY <2>2, <2>3
      <4> QED
        BY <2>2, <3>3, <4>1, WaitingMembers
    <3> QED
      BY <3>1, <3>2, <3>3
  <2>5. Waiting' = Waiting \cup {LooseEntry(c, f)}
    BY <2>4
  <2> QED
    BY <1>1, <2>5
<1> QED
  BY <1>2, <1>3 DEF NewEvent

LEMMA WaitingAfterCancel ==
    ASSUME Timers, NEW keys, Unschedule(keys)
    PROVE  Waiting' = {w \in Waiting : w.settled => w.key \notin keys}
<1>1. /\ \A c \in Cores : event_queue'[c] = {e \in event_queue[c] : e.key \notin keys}
      /\ ts_queue' = ts_queue
  BY UnscheduleEffect DEF FewerEvents
<1>2. \A c \in Cores : Waits(c)' = Waits(c)
  BY <1>1 DEF Waits
<1>3. ASSUME NEW w, w \in Waiting'
      PROVE  w \in Waiting /\ (w.settled => w.key \notin keys)
  <2>1. PICK c \in Cores :
            \/ \E e \in event_queue'[c] : w = SettledEntry(c, e)
            \/ \E i \in Waits(c)' : w = LooseEntry(c, ts_queue'[c][i])
    BY <1>3, WaitingMembers
  <2>2. CASE \E e \in event_queue'[c] : w = SettledEntry(c, e)
    BY <1>1, <2>2, WaitingMembers, EntryFields
  <2>3. CASE \E i \in Waits(c)' : w = LooseEntry(c, ts_queue'[c][i])
    <3>1. PICK i \in Waits(c) : w = LooseEntry(c, ts_queue[c][i])
      BY <1>1, <1>2, <2>3
    <3>2. w \in Waiting
      BY <3>1, WaitingMembers
    <3> QED
      BY <3>1, <3>2, EntryFields
  <2> QED
    BY <2>1, <2>2, <2>3
<1>4. ASSUME NEW w \in Waiting, w.settled => w.key \notin keys
      PROVE  w \in Waiting'
  <2>1. PICK c \in Cores :
            \/ \E e \in event_queue[c] : w = SettledEntry(c, e)
            \/ \E i \in Waits(c) : w = LooseEntry(c, ts_queue[c][i])
    BY WaitingMembers
  <2>2. CASE \E e \in event_queue[c] : w = SettledEntry(c, e)
    <3>1. PICK e \in event_queue[c] : w = SettledEntry(c, e)
      BY <2>2
    <3>2. e.key \notin keys
      BY <1>4, <3>1, EntryFields
    <3> QED
      BY <1>1, <3>1, <3>2, WaitingMembers
  <2>3. CASE \E i \in Waits(c) : w = LooseEntry(c, ts_queue[c][i])
    BY <1>1, <1>2, <2>3, WaitingMembers
  <2> QED
    BY <2>1, <2>2, <2>3
<1> QED
  BY <1>3, <1>4

LEMMA WaitingAfterPop ==
    ASSUME Timers, Ids, NEW c \in Cores, PopEvent(c)
    PROVE  \E e \in event_queue[c] :
               /\ Waiting' = Waiting \ {SettledEntry(c, e)}
               /\ IsFront(c, e) /\ e.time <= executed_ticks[c]
<1>1. PICK e \in event_queue[c] :
          /\ IsFront(c, e) /\ e.time <= executed_ticks[c]
          /\ event_queue' = [event_queue EXCEPT ![c] = @ \ {e}]
  BY PopEventEffect
<1>2. /\ event_queue'[c] = event_queue[c] \ {e} /\ ts_queue' = ts_queue
      /\ \A x \in Cores \ {c} : event_queue'[x] = event_queue[x]
  BY <1>1, PopEventEffect DEF Timers, FewerEvents
<1>3. \A x \in Cores : Waits(x)' = Waits(x)
  BY <1>2 DEF Waits
<1>4. ASSUME NEW w, w \in Waiting'
      PROVE  w \in Waiting /\ w # SettledEntry(c, e)
  <2>1. PICK x \in Cores :
            \/ \E f \in event_queue'[x] : w = SettledEntry(x, f)
            \/ \E i \in Waits(x)' : w = LooseEntry(x, ts_queue'[x][i])
    BY <1>4, WaitingMembers
  <2>2. CASE \E f \in event_queue'[x] : w = SettledEntry(x, f)
    <3>1. PICK f \in event_queue'[x] : w = SettledEntry(x, f)
      BY <2>2
    <3>2. f \in event_queue[x] /\ (x = c => f # e)
      BY <1>2, <3>1
    <3>3. x = c => f.id # e.id
      BY <3>2 DEF Ids, Distinct
    <3>4. w # SettledEntry(c, e)
      <4>1. w.core = x /\ w.id = f.id
        BY <3>1, EntryFields
      <4>2. SettledEntry(c, e).core = c /\ SettledEntry(c, e).id = e.id
        BY EntryFields
      <4> QED
        BY <3>3, <4>1, <4>2
    <3> QED
      BY <3>1, <3>2, <3>4, WaitingMembers
  <2>3. CASE \E i \in Waits(x)' : w = LooseEntry(x, ts_queue'[x][i])
    <3>1. PICK i \in Waits(x) : w = LooseEntry(x, ts_queue[x][i])
      BY <1>2, <1>3, <2>3
    <3>2. ~w.settled /\ SettledEntry(c, e).settled
      BY <3>1, EntryFields
    <3> QED
      BY <3>1, <3>2, WaitingMembers
  <2> QED
    BY <2>1, <2>2, <2>3
<1>5. ASSUME NEW w \in Waiting, w # SettledEntry(c, e)
      PROVE  w \in Waiting'
  <2>1. PICK x \in Cores :
            \/ \E f \in event_queue[x] : w = SettledEntry(x, f)
            \/ \E i \in Waits(x) : w = LooseEntry(x, ts_queue[x][i])
    BY WaitingMembers
  <2>2. CASE \E f \in event_queue[x] : w = SettledEntry(x, f)
    <3>1. PICK f \in event_queue[x] : w = SettledEntry(x, f)
      BY <2>2
    <3>2. f \in event_queue'[x]
      BY <1>2, <1>5, <3>1
    <3> QED
      BY <3>1, <3>2, WaitingMembers
  <2>3. CASE \E i \in Waits(x) : w = LooseEntry(x, ts_queue[x][i])
    BY <1>2, <1>3, <2>3, WaitingMembers
  <2> QED
    BY <2>1, <2>2, <2>3
<1>6. Waiting' = Waiting \ {SettledEntry(c, e)}
  BY <1>4, <1>5
<1> QED
  BY <1>1, <1>6

LEMMA WaitingAfterAdvanceStart ==
    ASSUME Timers, NEW c \in Cores, AdvanceStart(c)
    PROVE  Waiting' = {IF w.core = c THEN [w EXCEPT !.settled = TRUE] ELSE w : w \in Waiting}
<1> DEFINE Settles(w) == IF w.core = c THEN [w EXCEPT !.settled = TRUE] ELSE w
<1>1. /\ \A x \in Cores \ {c} :
             event_queue'[x] = event_queue[x] /\ ts_queue'[x] = ts_queue[x]
      /\ event_queue'[c] = event_queue[c] \cup Moved(c) /\ ts_queue'[c] = <<>>
  BY AdvanceStartEffect
<1>2. Waits(c)' = {} /\ \A x \in Cores \ {c} : Waits(x)' = Waits(x)
  BY <1>1 DEF Waits
<1>3. \A i \in Waits(c) : SettledEntry(c, MovedEvent(c, i)) = SettledEntry(c, ts_queue[c][i])
  BY MovedEvents DEF SettledEntry
<1>4. /\ \A x \in Cores : \A e : Settles(SettledEntry(x, e)) = SettledEntry(x, e)
      /\ \A e : Settles(LooseEntry(c, e)) = SettledEntry(c, e)
      /\ \A x \in Cores \ {c} : \A e : Settles(LooseEntry(x, e)) = LooseEntry(x, e)
  BY EntryFields, EntrySettles
<1> HIDE DEF Settles
<1>5. ASSUME NEW w, w \in Waiting'
      PROVE  \E v \in Waiting : w = Settles(v)
  <2>1. PICK x \in Cores :
            \/ \E e \in event_queue'[x] : w = SettledEntry(x, e)
            \/ \E i \in Waits(x)' : w = LooseEntry(x, ts_queue'[x][i])
    BY <1>5, WaitingMembers
  <2>2. CASE \E e \in event_queue'[x] : w = SettledEntry(x, e)
    <3>1. PICK e \in event_queue'[x] : w = SettledEntry(x, e)
      BY <2>2
    <3>2. CASE e \in event_queue[x]
      <4>1. w \in Waiting /\ w = Settles(w)
        BY <1>4, <3>1, <3>2, WaitingMembers
      <4> QED
        BY <4>1
    <3>3. CASE x = c /\ e \in Moved(c)
      <4>1. PICK i \in Waits(c) : e = MovedEvent(c, i)
        BY <3>3, MovedEvents
      <4>2. PICK v : v = LooseEntry(c, ts_queue[c][i])
        OBVIOUS
      <4>3. v \in Waiting
        BY <4>2, WaitingMembers
      <4>4. w = Settles(v)
        BY <1>3, <1>4, <3>1, <3>3, <4>1, <4>2
      <4> QED
        BY <4>3, <4>4
    <3> QED
      BY <1>1, <3>1, <3>2, <3>3
  <2>3. CASE \E i \in Waits(x)' : w = LooseEntry(x, ts_queue'[x][i])
    <3>1. PICK i \in Waits(x) : x # c /\ w = LooseEntry(x, ts_queue[x][i])
      BY <1>1, <1>2, <2>3
    <3>2. w \in Waiting /\ w = Settles(w)
      BY <1>4, <3>1, WaitingMembers
    <3> QED
      BY <3>2
  <2> QED
    BY <2>1, <2>2, <2>3
<1>6. ASSUME NEW v \in Waiting
      PROVE  Settles(v) \in Waiting'
  <2>1. PICK x \in Cores :
            \/ \E e \in event_queue[x] : v = SettledEntry(x, e)
            \/ \E i \in Waits(x) : v = LooseEntry(x, ts_queue[x][i])
    BY WaitingMembers
  <2>2. CASE \E e \in event_queue[x] : v = SettledEntry(x, e)
    <3>1. PICK e \in event_queue[x] : v = SettledEntry(x, e)
      BY <2>2
    <3>2. e \in event_queue'[x] /\ Settles(v) = SettledEntry(x, e)
      BY <1>1, <1>4, <3>1
    <3> QED
      BY <3>2, WaitingMembers
  <2>3. CASE \E i \in Waits(x) : v = LooseEntry(x, ts_queue[x][i])
    <3>1. PICK i \in Waits(x) : v = LooseEntry(x, ts_queue[x][i])
      BY <2>3
    <3>2. CASE x = c
      <4>1. MovedEvent(c, i) \in event_queue'[c]
        BY <1>1, <3>1, <3>2, MovedEvents
      <4>2. Settles(v) = SettledEntry(c, MovedEvent(c, i))
        BY <1>3, <1>4, <3>1, <3>2
      <4> QED
        BY <4>1, <4>2, WaitingMembers
    <3>3. CASE x # c
      <4>1. Settles(v) = v /\ i \in Waits(x)' /\ ts_queue'[x][i] = ts_queue[x][i]
        BY <1>1, <1>2, <1>4, <3>1, <3>3
      <4> QED
        BY <3>1, <4>1, WaitingMembers
    <3> QED
      BY <3>2, <3>3
  <2> QED
    BY <2>1, <2>2, <2>3
<1>7. Waiting' = {Settles(w) : w \in Waiting}
  BY <1>5, <1>6
<1> QED
  BY <1>7 DEF Settles

LEMMA EntryRecords ==
    ASSUME NEW c, NEW f
    PROVE  /\ LET e == SettledEntry(c, f) IN
              e = [core |-> e.core, id |-> e.id, time |-> e.time, key |-> e.key,
                   settled |-> e.settled]
           /\ LET e == LooseEntry(c, f) IN
              e = [core |-> e.core, id |-> e.id, time |-> e.time, key |-> e.key,
                   settled |-> e.settled]
BY DEF SettledEntry, LooseEntry

(* A new event is one that EventSchedule schedules.                        *)
LEMMA RefinesSchedule ==
    ASSUME Timers, Ids, NEW c \in Cores, NEW k, NEW f, NewEvent(c, f, k),
           executed_ticks' = executed_ticks
    PROVE  Schedule!Next
<1>1. /\ \/ Waiting' = Waiting \cup {SettledEntry(c, f)}
         \/ Waiting' = Waiting \cup {LooseEntry(c, f)}
      /\ \A w \in Waiting : w.id # f.id
  BY WaitingAfterNewEvent
<1>2. PICK e : /\ Waiting' = Waiting \cup {e} /\ e.id = f.id
               /\ e = [core |-> e.core, id |-> e.id, time |-> e.time, key |-> e.key,
                       settled |-> e.settled]
  BY <1>1, EntryFields, EntryRecords
<1>3. e \in Waiting' \ Waiting
  BY <1>1, <1>2
<1>4. Schedule!Schedule(e.core, e.id, e.time, e.key, e.settled)
  BY <1>1, <1>2 DEF Schedule!Schedule
<1> QED
  BY <1>3, <1>4 DEF Schedule!Next

LEMMA RefinesCancel ==
    ASSUME Timers, NEW keys \in SUBSET Keys, Unschedule(keys)
    PROVE  Schedule!Next
<1>1. executed_ticks' = executed_ticks
  BY UnscheduleEffect DEF FewerEvents
<1>2. Schedule!Cancel(keys)
  BY <1>1, WaitingAfterCancel DEF Schedule!Cancel
<1> QED
  BY <1>2 DEF Schedule!Next

LEMMA RefinesFire ==
    ASSUME Timers, Ids, NEW c \in Cores, PopEvent(c)
    PROVE  Schedule!Next
<1>1. executed_ticks' = executed_ticks
  BY PopEventEffect DEF FewerEvents
<1>2. PICK e \in event_queue[c] :
          /\ Waiting' = Waiting \ {SettledEntry(c, e)}
          /\ IsFront(c, e) /\ e.time <= executed_ticks[c]
  BY WaitingAfterPop
<1>3. PICK v : v = SettledEntry(c, e)
  OBVIOUS
<1>4. v \in Waiting /\ v.core = c /\ v.settled /\ v.time = e.time
  BY <1>3, EntryFields, WaitingMembers
<1>5. \A w \in Waiting : w.core = c /\ w.settled => e.time <= w.time
  <2> SUFFICES ASSUME NEW w \in Waiting, w.core = c, w.settled
               PROVE  e.time <= w.time
    OBVIOUS
  <2>1. PICK x \in Cores :
            \/ \E f \in event_queue[x] : w = SettledEntry(x, f)
            \/ \E i \in Waits(x) : w = LooseEntry(x, ts_queue[x][i])
    BY WaitingMembers
  <2>2. PICK f \in event_queue[x] : w = SettledEntry(x, f)
    BY <2>1, EntryFields
  <2>3. x = c /\ w.time = f.time
    BY <2>2, EntryFields
  <2>4. ~Before(f, e) /\ f.time \in Int /\ e.time \in Int
    BY <1>2, <2>3, QueueTypes DEF IsFront
  <2> QED
    BY <2>3, <2>4 DEF Before
<1>6. Schedule!Settled(c) = {w \in Waiting : w.core = c /\ w.settled}
  BY DEF Schedule!Settled
<1>7. v \in Schedule!Settled(c)
  BY <1>4, <1>6
<1>8. Schedule!Fire(c)
  BY <1>1, <1>2, <1>3, <1>4, <1>5, <1>6, <1>7 DEF Schedule!Fire
<1> QED
  BY <1>8 DEF Schedule!Next

LEMMA RefinesSettle ==
    ASSUME Timers, NEW c \in Cores, AdvanceStart(c), downcount[c] <= slice_length[c]
    PROVE  Schedule!Next
<1>1. /\ executed_ticks' \in [Cores -> Int]
      /\ executed_ticks'[c] = executed_ticks[c] + Executed(c)
      /\ \A x \in Cores \ {c} : executed_ticks'[x] = executed_ticks[x]
  BY AdvanceStartEffect
<1>2. executed_ticks'[c] >= executed_ticks[c]
  <2>1. executed_ticks[c] \in Int /\ downcount[c] \in Int /\ slice_length[c] \in Int
    BY TimerTypes
  <2> QED
    BY <1>1, <2>1 DEF Executed
<1>3. Schedule!Settle(c)
  BY <1>1, <1>2, WaitingAfterAdvanceStart DEF Schedule!Settle
<1> QED
  BY <1>3 DEF Schedule!Next

LEMMA RefinesCall ==
    ASSUME Types, Ids, NEW x \in Int, Called(x)
    PROVE  Schedule!Next \/ UNCHANGED <<executed_ticks, Waiting>>
<1>1. CASE \E c \in Cores, d \in Int, k \in Keys : ScheduleEvent(c, d - x, k)
  <2>1. PICK c \in Cores, d \in Int, k \in Keys : ScheduleEvent(c, d - x, k)
    BY <1>1
  <2>2. PICK m \in Int : m = d - x
    OBVIOUS
  <2>3. ScheduleEvent(c, m, k)
    BY <2>1, <2>2
  <2>4. PICK e : NewEvent(c, e, k)
    BY <2>3, ScheduleEventEffect DEF Types
  <2>5. executed_ticks' = executed_ticks
    BY <2>3, ScheduleEventEffect DEF Types
  <2> QED
    BY <2>4, <2>5, RefinesSchedule DEF Types
<1>2. CASE \E keys \in SUBSET Keys : Unschedule(keys)
  BY <1>2, RefinesCancel DEF Types
<1>3. CASE UNCHANGED timerVars
  BY <1>3, WaitingUnchanged
<1> QED
  BY <1>1, <1>2, <1>3 DEF Called

LEMMA RefinesStep ==
    ASSUME Types, Clocks, Ids, [Next]_vars
    PROVE  Schedule!Next \/ UNCHANGED <<executed_ticks, Waiting>>
<1>1. CASE Begin \/ SkipCore \/ StartAll \/ EndAdvanceAll \/ EndSlice \/ EndLoop
               \/ HostReadsClock \/ RunDelayed \/ EndAdvance \/ EndCatchUp \/ StartSlice
               \/ Execute \/ IdleCore \/ UNCHANGED vars
  <2>1. UNCHANGED <<event_queue, ts_queue>> /\ executed_ticks' = executed_ticks
    BY <1>1 DEF Begin, SkipCore, StartAll, EndAdvanceAll, EndSlice, EndLoop,
                HostReadsClock, RunDelayed, EndAdvance, AdvanceEnd, EndCatchUp,
                StartSlice, SetNextSlice, Execute, AddTicks, IdleCore, Idle, vars
  <2> QED
    BY <2>1, WaitingUnchanged
<1>2. CASE FireEvent
  BY <1>2, RefinesFire DEF FireEvent, Types, Located
<1>3. CASE SwitchThread
  BY <1>3, KeySets, RefinesCancel DEF SwitchThread, Types
<1>4. CASE CallbackReturns
  BY <1>4, CallbackCalls, RefinesCall
<1>5. CASE GuestCall
  BY <1>5, GuestCalls, RefinesCall
<1>6. CASE BeginAdvance
  <2>1. core \in Cores /\ AdvanceStart(core)
    BY <1>6, CoreFacts DEF BeginAdvance, Types, Locals
  <2> QED
    BY <2>1, RefinesSettle DEF Types, Clocks, Sanity
<1>7. CASE HostPushes
  <2>1. PICK c \in Cores, k \in Keys : \E e : NewEvent(c, e, k)
    BY <1>7, HostPushesEffect
  <2>2. executed_ticks' = executed_ticks
    BY <1>7, HostPushesEffect
  <2> QED
    BY <2>1, <2>2, RefinesSchedule DEF Types
<1> QED
  BY <1>1, <1>2, <1>3, <1>4, <1>5, <1>6, <1>7 DEF Next, LoopStep

(* The timers, the loop and the host threads keep what EventSchedule       *)
(* promises, whatever the callbacks and the guests schedule and cancel: no *)
(* event is lost, fires twice, early or after a later one                  *)
(* (core_timing.cpp:65-139, 215-251).                                      *)
THEOREM TimersKeepSchedule == Spec => ImplementsSchedule
<1>1. Init => Schedule!Init
  <2> SUFFICES ASSUME Init
               PROVE  executed_ticks \in [Cores -> Int] /\ Waiting = {}
    BY DEF Schedule!Init
  <2>1. executed_ticks \in [Cores -> Int] /\ \A c \in Cores : event_queue[c] = {} /\ ts_queue[c] = <<>>
    BY DEF Init, TimerInit
  <2>2. \A c \in Cores : Waits(c) = {}
    BY <2>1 DEF Waits
  <2> QED
    BY <2>1, <2>2, WaitingMembers
<1>2. (TypeOK /\ Types) /\ Clocks /\ Ids /\ [Next]_vars => [Schedule!Next]_(Schedule!vars)
  BY RefinesStep DEF Schedule!vars
<1> QED
  BY <1>1, <1>2, LoopTypeCorrect, ClocksCorrect, EventsOrdered, PTL
  DEF Spec, ImplementsSchedule, Schedule!Spec

(***************************************************************************)
(* The cores stay together.                                                *)
(***************************************************************************)
LEMMA OverZero == Over(0) = 0 /\ Overshoot \in Nat
BY LoopAssumption DEF Over

LEMMA OverNext ==
    ASSUME NEW a \in Int
    PROVE  Over(a) \in Int /\ Over(a + 1) = Over(a) + Overshoot
BY LoopAssumption DEF Over

LEMMA OverGrows ==
    ASSUME NEW a \in Int, NEW b \in Int, a <= b
    PROVE  Over(a) <= Over(b)
<1>1. PICK n \in Nat : n = b - a
  OBVIOUS
<1>2. Overshoot \in Nat
  BY LoopAssumption
<1>3. b * Overshoot = a * Overshoot + n * Overshoot
  BY <1>1, <1>2
<1>4. n * Overshoot \in Nat /\ a * Overshoot \in Int
  BY <1>2
<1> QED
  BY <1>3, <1>4 DEF Over

LEMMA ToleratedFacts == Tolerated \in Nat /\ MIN_DELAY \in Nat /\ MAX_SLICE_LENGTH \in Nat
BY TimingAssumption, LoopAssumption DEF Tolerated

(* The core that is furthest behind runs alone: if it overshoots the       *)
(* others, the ranks before its own move up.                               *)
LEMMA RanksWhenOneRuns ==
    ASSUME NEW T \in [Cores -> Int], NEW G \in Int, NEW x \in Cores, NEW r \in Ranks,
           \A c \in Cores : G - T[c] <= Tolerated + Over(r[c]),
           \A c \in Cores : T[x] <= T[c]
    PROVE  \E q \in Ranks : /\ q[x] = 0
                            /\ \A c \in Cores \ {x} :
                                   G + Overshoot - T[c] <= Tolerated + Over(q[c])
<1> DEFINE q == [c \in Cores |-> IF c = x THEN 0
                                 ELSE IF r[c] < r[x] THEN r[c] + 1 ELSE r[c]]
<1>1. \A c \in Cores : r[c] \in Cores /\ r[c] \in Nat /\ r[c] < NumCores
  BY CoreFacts DEF Ranks
<1>2. \A c \in Cores \ {x} : r[c] # r[x]
  BY DEF Ranks
<1>3. \A c \in Cores \ {x} :
          \/ r[c] < r[x] /\ q[c] = r[c] + 1 /\ q[c] <= r[x] /\ q[c] > 0
          \/ r[c] > r[x] /\ q[c] = r[c] /\ q[c] > 0
  BY <1>1, <1>2
<1>4. q[x] = 0
  OBVIOUS
<1>5. q \in [Cores -> Cores]
  <2>1. \A c \in Cores : r[c] < r[x] => r[c] + 1 \in Cores
    <3> SUFFICES ASSUME NEW c \in Cores, r[c] < r[x]
                 PROVE  r[c] + 1 \in Cores
      OBVIOUS
    <3>1. r[c] + 1 < NumCores /\ r[c] \in Cores
      BY <1>1, CoreFacts
    <3> QED
      BY <3>1, CoreFacts
  <2> QED
    BY <1>1, <2>1, CoreFacts
<1> HIDE DEF q
<1>6. \A c, d \in Cores : q[c] = q[d] => c = d
  <2> SUFFICES ASSUME NEW c \in Cores, NEW d \in Cores, q[c] = q[d]
               PROVE  c = d
    OBVIOUS
  <2>1. CASE c = x \/ d = x
    BY <1>3, <1>4, <2>1
  <2>2. CASE c # x /\ d # x
    <3>1. r[c] = r[d]
      BY <1>1, <1>3, <2>2
    <3> QED
      BY <3>1 DEF Ranks
  <2> QED
    BY <2>1, <2>2
<1>7. q \in Ranks
  BY <1>5, <1>6 DEF Ranks
<1>8. ASSUME NEW c \in Cores \ {x}
      PROVE  G + Overshoot - T[c] <= Tolerated + Over(q[c])
  <2>0. r[c] \in Int /\ r[x] \in Int /\ T[c] \in Int /\ T[x] \in Int
    BY <1>1
  <2>1. /\ Over(r[c]) \in Int /\ Over(r[x]) \in Int
        /\ Overshoot \in Int /\ Tolerated \in Int
    BY <2>0, OverNext, OverZero, ToleratedFacts
  <2>2. CASE r[c] < r[x] /\ q[c] = r[c] + 1
    <3>1. Over(q[c]) = Over(r[c]) + Overshoot
      BY <2>0, <2>2, OverNext
    <3>2. G - T[c] <= Tolerated + Over(r[c])
      OBVIOUS
    <3> QED
      BY <2>0, <2>1, <3>1, <3>2
  <2>3. CASE r[c] > r[x] /\ q[c] = r[c]
    <3>1. Over(r[x] + 1) = Over(r[x]) + Overshoot /\ Over(r[x] + 1) <= Over(r[c])
      <4>1. r[x] + 1 <= r[c] /\ r[x] + 1 \in Int /\ r[c] \in Int /\ r[x] \in Int
        BY <1>1, <2>3
      <4> QED
        BY <4>1, OverNext, OverGrows
    <3>2. G - T[x] <= Tolerated + Over(r[x]) /\ T[x] <= T[c]
      OBVIOUS
    <3> QED
      BY <2>0, <2>1, <2>3, <3>1, <3>2
  <2> QED
    BY <1>3, <2>2, <2>3
<1> QED
  BY <1>4, <1>7, <1>8

(* All cores ran, one after the other: the one that is ahead of all has    *)
(* rank 0, the ones before it rank by their distance, the ones after it by *)
(* their number.                                                           *)
LEMMA RanksWhenAllRan ==
    ASSUME NEW T \in [Cores -> Int], NEW G \in Int,
           \A c \in Cores : /\ G - MIN_DELAY <= T[c]
                            /\ T[c] <= G + MAX_SLICE_LENGTH + Over(c + 1),
           \A c, d \in Cores : c < d => T[d] - T[c] <= MIN_DELAY + Over(d - c)
    PROVE  \E q \in Ranks : \A c, d \in Cores : T[d] - T[c] <= Tolerated + Over(q[c])
<1>1. PICK l \in Cores : \A c \in Cores : T[c] <= T[l]
  <2>1. \A c \in Cores : T[c] \in Int
    OBVIOUS
  <2> QED
    BY <2>1, Leader
<1> DEFINE q == [c \in Cores |-> IF c <= l THEN l - c ELSE c]
<1>2. \A c \in Cores : c \in Int /\ 0 <= c /\ c < NumCores
  BY CoreFacts
<1>3. q \in [Cores -> Cores]
  <2>1. \A c \in Cores : c <= l => l - c \in Cores
    BY <1>2, CoreFacts DEF Cores
  <2> QED
    BY <2>1
<1>4. \A c \in Cores : \/ c <= l /\ q[c] = l - c /\ q[c] <= l
                       \/ c > l /\ q[c] = c
  BY <1>2
<1> HIDE DEF q
<1>5. \A c, d \in Cores : q[c] = q[d] => c = d
  BY <1>2, <1>4
<1>6. q \in Ranks
  BY <1>3, <1>5 DEF Ranks
<1>7. ASSUME NEW c \in Cores, NEW d \in Cores
      PROVE  T[d] - T[c] <= Tolerated + Over(q[c])
  <2>1. T[l] - T[c] <= Tolerated + Over(q[c])
    <3>0. /\ T[c] \in Int /\ T[l] \in Int /\ MIN_DELAY \in Nat /\ MAX_SLICE_LENGTH \in Nat
          /\ Tolerated = MAX_SLICE_LENGTH + MIN_DELAY
      BY ToleratedFacts DEF Tolerated
    <3>1. CASE c = l
      <4>1. Over(0) = 0 /\ q[c] = 0
        BY <1>2, <1>4, <3>1, OverZero
      <4> QED
        BY <3>0, <3>1, <4>1
    <3>2. CASE c < l
      <4>1. T[l] - T[c] <= MIN_DELAY + Over(l - c) /\ q[c] = l - c
        BY <1>2, <1>4, <3>2
      <4>2. Over(q[c]) \in Int
        BY <1>2, <4>1, OverNext
      <4> QED
        BY <3>0, <4>1, <4>2
    <3>3. CASE c > l
      <4>1. /\ T[l] <= G + MAX_SLICE_LENGTH + Over(l + 1) /\ G - MIN_DELAY <= T[c]
            /\ q[c] = c
        BY <1>2, <1>4, <3>3
      <4>2. Over(l + 1) <= Over(c) /\ Over(l + 1) \in Int /\ Over(c) \in Int
        <5>1. l + 1 <= c /\ l + 1 \in Int /\ c \in Int
          BY <1>2, <3>3
        <5> QED
          BY <5>1, OverNext, OverGrows
      <4>3. PICK a \in Int, b \in Int : a = Over(l + 1) /\ b = Over(c)
        BY <4>2
      <4>4. a <= b /\ T[l] <= G + MAX_SLICE_LENGTH + a /\ G - MIN_DELAY <= T[c]
        BY <4>1, <4>2, <4>3
      <4>5. T[l] - T[c] <= Tolerated + b
        BY <3>0, <4>4
      <4> QED
        BY <4>1, <4>3, <4>5
    <3> QED
      BY <1>2, <3>1, <3>2, <3>3
  <2>2. T[d] <= T[l] /\ T[d] \in Int /\ T[l] \in Int /\ T[c] \in Int
    BY <1>1
  <2>3. Over(q[c]) \in Int /\ Tolerated \in Int
    BY <1>2, <1>3, <1>4, OverNext, ToleratedFacts
  <2> QED
    BY <2>1, <2>2, <2>3
<1> QED
  BY <1>6, <1>7

LEMMA ClockTypes ==
    ASSUME Types, Types'
    PROVE  /\ \A c \in Cores : GetTicks(c) \in Int /\ downcount[c] \in Int
                               /\ downcount'[c] \in Int
           /\ core \in Int /\ global_ticks \in Int /\ max_delay \in Int
           /\ max_slice \in Int /\ start_ticks \in Int
<1>1. \A c \in Cores : GetTicks(c) \in Int /\ downcount[c] \in Int
  BY TicksType, TimerTypes DEF Types
<1>2. \A c \in Cores : downcount'[c] \in Int
  BY DEF Types, Timers
<1>3. core \in Int
  BY CoreFacts DEF Types, Locals
<1> QED
  BY <1>1, <1>2, <1>3 DEF Types, Locals

(* What leaves the loops and the clocks alone; slices may become shorter.  *)
LEMMA SpreadUntouched ==
    ASSUME Types, Types', Spread, SameTicks,
           UNCHANGED <<loop, step, core, global_ticks, max_delay,
                       current_core_to_execute, max_slice, start_ticks>>,
           \A c \in Cores : downcount'[c] <= downcount[c]
    PROVE  Spread'
<1>1. /\ loop' = loop /\ step' = step /\ core' = core /\ global_ticks' = global_ticks
      /\ max_delay' = max_delay /\ current_core_to_execute' = current_core_to_execute
      /\ max_slice' = max_slice /\ start_ticks' = start_ticks
  OBVIOUS
<1>2. \A c \in Cores : GetTicks(c)' = GetTicks(c)
  BY DEF SameTicks
<1>3. Together'
  BY <1>1, <1>2 DEF Spread, Together
<1>4. Following'
  <2> SUFFICES ASSUME loop = "CatchUp"
               PROVE  Following'
    BY <1>1 DEF Following
  <2>1. current_core_to_execute \in Cores => downcount'[current_core_to_execute] <= max_delay
    BY ClockTypes DEF Spread, Following
  <2>2. step \in {"Reschedule", "Advance"} => core \in Cores
    BY DEF Types, Located
  <2> QED
    BY <1>1, <1>2, <2>1, <2>2 DEF Spread, Following
<1>5. Catching'
  <2> SUFFICES ASSUME loop = "RunDelayed"
               PROVE  Catching'
    BY <1>1 DEF Catching
  <2>1. core \in Cores
    BY DEF Types, Located
  <2>2. GetTicks(core) + downcount'[core] <= global_ticks
    BY <2>1, ClockTypes DEF Spread, Catching
  <2> QED
    BY <1>1, <1>2, <2>1, <2>2 DEF Spread, Catching
<1>6. Gathered'
  BY <1>1, <1>2 DEF Spread, Gathered, Near
<1>7. InTurn'
  <2> SUFFICES ASSUME loop = "RunAll"
               PROVE  InTurn'
    BY <1>1 DEF InTurn
  <2>1. core \in Cores
    BY DEF Types, Located
  <2>2. step = "Run" => GetTicks(core) + downcount'[core] <= start_ticks + max_slice
    BY <2>1, ClockTypes DEF Spread, InTurn
  <2> QED
    BY <1>1, <1>2, <2>1, <2>2 DEF Spread, InTurn, Near
<1> QED
  BY <1>3, <1>4, <1>5, <1>6, <1>7 DEF Spread

LEMMA SpreadQuiet ==
    ASSUME Types, Types', Clocks, Spread, SameTicks,
           FireEvent \/ CallbackReturns \/ SwitchThread \/ GuestCall \/ HostPushes
               \/ HostReadsClock \/ UNCHANGED vars
    PROVE  Spread'
<1>1. UNCHANGED <<loop, step, core, global_ticks, max_delay,
                  current_core_to_execute, max_slice, start_ticks>>
  BY DEF FireEvent, CallbackReturns, SwitchThread, GuestCall, HostPushes,
         HostReadsClock, vars
<1>2. \A c \in Cores : downcount'[c] <= downcount[c]
  <2>0. \A c \in Cores : downcount[c] \in Int
    BY ClockTypes
  <2>1. CASE CallbackReturns
    BY <2>1, CallbackCalls, TimersAfterCall DEF Types
  <2>2. CASE GuestCall
    BY <2>2, GuestCalls, TimersAfterCall DEF Types
  <2>3. CASE FireEvent \/ SwitchThread \/ HostPushes \/ HostReadsClock \/ UNCHANGED vars
    <3>1. downcount' = downcount
      BY <2>3 DEF FireEvent, PopEvent, SwitchThread, Unschedule, HostPushes, PushThreadSafe,
                  HostReadsClock, vars
    <3> QED
      BY <2>0, <3>1
  <2> QED
    BY <2>1, <2>2, <2>3
<1> QED
  BY <1>1, <1>2, SpreadUntouched

(* The leading core sets the time the others catch up with.                *)
LEMMA SpreadBegin ==
    ASSUME Types, Types', Spread, SameTicks, Begin
    PROVE  Spread'
<1>1. /\ loop = "Top" /\ loop' = "CatchUp" /\ step' = "Begin" /\ core' = 0
      /\ max_delay' = 0 /\ current_core_to_execute' = NoCore
      /\ global_ticks' = GetGlobalTicks
  BY DEF Begin, At, Goto, Types, Located
<1>2. PICK l \in Cores : /\ GetGlobalTicks = GetTicks(l)
                         /\ \A c \in Cores : GetTicks(c) <= GetGlobalTicks
  BY GlobalTicks DEF Types
<1>3. PICK G : G = GetGlobalTicks
  OBVIOUS
<1>4. PICK r \in Ranks : \A c, d \in Cores : GetTicks(d) - GetTicks(c) <= Tolerated + Over(r[c])
  BY <1>1 DEF Spread, Together
<1>5. \A c \in Cores : GetTicks(c)' = GetTicks(c)
  BY DEF SameTicks
<1>6. \A c \in Cores : G - GetTicks(c) <= Tolerated + Over(r[c]) /\ GetTicks(c) <= G
  BY <1>2, <1>3, <1>4
<1>7. \A c \in Cores : ~ (c < 0)
  BY CoreFacts
<1>8. NoCore \notin Cores
  BY CoreFacts
<1>9. global_ticks' = G
  BY <1>1, <1>3
<1>10. Following'
  BY <1>1, <1>5, <1>6, <1>7, <1>8, <1>9 DEF Following
<1>11. loop' = "CatchUp"
  BY <1>1
<1> QED
  BY <1>10, <1>11 DEF Spread, Together, Catching, Gathered, InTurn

LEMMA SpreadSkipCore ==
    ASSUME Types, Types', Spread, SameTicks, SkipCore
    PROVE  Spread'
<1>1. /\ loop = "CatchUp" /\ loop' = "CatchUp" /\ step' = "Begin" /\ core' = core + 1
      /\ max_delay' = max_delay /\ current_core_to_execute' = current_core_to_execute
      /\ global_ticks' = global_ticks /\ downcount' = downcount
      /\ GetTicks(core) >= global_ticks /\ core \in 0..NumCores /\ core < NumCores
      /\ max_delay \in Nat
  BY DEF SkipCore, At, Goto, Types, Locals, Located
<1>2. \A c \in Cores : GetTicks(c)' = GetTicks(c)
  BY DEF SameTicks
<1>3. core \in Cores
  BY <1>1, CoreFacts
<1>4. global_ticks - GetTicks(core) <= max_delay
  BY <1>1, <1>3, ClockTypes
<1>5. \A c \in Cores : c < core + 1 => global_ticks - GetTicks(c) <= max_delay
  <2>1. \A c \in Cores : c < core + 1 => c < core \/ c = core
    BY <1>3, CoreFacts
  <2> QED
    BY <1>1, <1>4, <2>1 DEF Spread, Following
<1>6. Following'
  BY <1>1, <1>2, <1>5 DEF Spread, Following
<1> QED
  BY <1>1, <1>6 DEF Spread, Together, Catching, Gathered, InTurn

LEMMA SpreadBeginAdvance ==
    ASSUME Types, Types', Clocks, Spread, SameTicks, BeginAdvance
    PROVE  Spread'
<1>1. /\ loop \in {"CatchUp", "AdvanceAll"} /\ step = "Begin" /\ core \in Cores
      /\ loop' = loop /\ step' = "Advance" /\ core' = core
      /\ max_delay' = max_delay /\ current_core_to_execute' = current_core_to_execute
      /\ global_ticks' = global_ticks /\ max_slice' = max_slice
      /\ loop = "CatchUp" => GetTicks(core) < global_ticks
  BY CoreFacts DEF BeginAdvance, Goto, Types, Locals
<1>2. \A c \in Cores : GetTicks(c)' = GetTicks(c)
  BY DEF SameTicks
<1>3. \A c \in Cores \ {core} : downcount'[c] = downcount[c]
  BY <1>1 DEF BeginAdvance, AdvanceStart, Types, Timers
<1>4. loop = "CatchUp" /\ current_core_to_execute \in Cores => current_core_to_execute # core
  BY <1>1, CoreFacts DEF Clocks, Sanity
<1>5. Following'
  BY <1>1, <1>2, <1>3, <1>4 DEF Spread, Following
<1>6. Gathered'
  BY <1>1, <1>2 DEF Spread, Gathered, Near
<1> QED
  BY <1>1, <1>5, <1>6 DEF Spread, Together, Catching, InTurn

LEMMA SpreadEndAdvance ==
    ASSUME Types, Types', Spread, SameTicks, EndAdvance
    PROVE  Spread'
<1>1. /\ loop \in {"CatchUp", "AdvanceAll"} /\ step = "Advance" /\ core \in Cores
      /\ loop' = loop /\ step' = "Reschedule" /\ core' = core
      /\ max_delay' = max_delay /\ current_core_to_execute' = current_core_to_execute
      /\ global_ticks' = global_ticks /\ max_slice' = max_slice
      /\ downcount' = downcount
  BY DEF EndAdvance, AdvanceEnd, Goto, Types, Located
<1>2. \A c \in Cores : GetTicks(c)' = GetTicks(c)
  BY DEF SameTicks
<1>3. Following'
  BY <1>1, <1>2 DEF Spread, Following
<1>4. Gathered'
  BY <1>1, <1>2 DEF Spread, Gathered, Near
<1> QED
  BY <1>1, <1>3, <1>4 DEF Spread, Together, Catching, InTurn

(* The core that lags most is the one to run.                              *)
LEMMA SpreadEndCatchUp ==
    ASSUME Types, Types', Clocks, Spread, SameTicks, EndCatchUp
    PROVE  Spread'
<1>1. /\ loop = "CatchUp" /\ loop' = "CatchUp" /\ step = "Reschedule" /\ step' = "Begin"
      /\ core \in Cores /\ core' = core + 1
      /\ global_ticks' = global_ticks
  BY DEF EndCatchUp, At, Goto, Types, Located
<1>2. PICK delay \in Int :
          /\ delay = global_ticks - GetTicks(core)
          /\ SetNextSlice(core, delay)
          /\ max_delay' = AtLeast(max_delay, delay)
          /\ current_core_to_execute' =
                 IF max_delay < delay THEN core ELSE current_core_to_execute
  BY CatchUpDelay
<1>3. PICK s \in Int : /\ s <= delay
                       /\ slice_length' = [slice_length EXCEPT ![core] = s]
                       /\ downcount' = [downcount EXCEPT ![core] = s]
  BY <1>1, <1>2, SetNextSliceEffect DEF Types
<1>4. downcount'[core] = s /\ \A x \in Cores \ {core} : downcount'[x] = downcount[x]
  BY <1>1, <1>3, SlicesAfterSet DEF Types
<1>5. \A c \in Cores : GetTicks(c)' = GetTicks(c)
  BY DEF SameTicks
<1>6. /\ max_delay' >= max_delay /\ max_delay' >= delay
      /\ max_delay < delay => max_delay' = delay
      /\ ~ (max_delay < delay) => max_delay' = max_delay
  BY <1>2, ClockTypes DEF AtLeast
<1>7. \A c \in Cores : c < core + 1 => global_ticks - GetTicks(c) <= max_delay'
  <2> SUFFICES ASSUME NEW c \in Cores, c < core + 1
               PROVE  global_ticks - GetTicks(c) <= max_delay'
    OBVIOUS
  <2>1. c < core \/ c = core
    BY <1>1, CoreFacts
  <2>2. CASE c = core
    BY <1>2, <1>6, <2>2
  <2>3. CASE c < core
    <3>1. global_ticks - GetTicks(c) <= max_delay
      BY <1>1, <2>3 DEF Spread, Following
    <3>2. max_delay' \in Int
      BY DEF Types, Locals
    <3> QED
      BY <1>6, <3>1, <3>2, ClockTypes
  <2> QED
    BY <2>1, <2>2, <2>3
<1>8. current_core_to_execute' \in Cores =>
          /\ max_delay' = global_ticks - GetTicks(current_core_to_execute')
          /\ downcount'[current_core_to_execute'] <= max_delay'
  <2>1. CASE max_delay < delay
    BY <1>2, <1>3, <1>4, <1>6, <2>1
  <2>2. CASE ~ (max_delay < delay)
    <3>1. current_core_to_execute \in Cores => current_core_to_execute # core
      BY <1>1, CoreFacts DEF Clocks, Sanity
    <3> QED
      BY <1>1, <1>2, <1>4, <1>6, <2>2, <3>1 DEF Spread, Following
  <2> QED
    BY <2>1, <2>2
<1>9. PICK k : k = current_core_to_execute'
  OBVIOUS
<1>10. k \in Cores => max_delay' = global_ticks' - GetTicks(k)'
  BY <1>1, <1>5, <1>8, <1>9
<1>11. Following'
  BY <1>1, <1>5, <1>7, <1>8, <1>9, <1>10 DEF Spread, Following
<1> QED
  BY <1>1, <1>11 DEF Spread, Together, Catching, Gathered, InTurn

(* The core that runs alone is the one that is furthest behind.            *)
LEMMA SpreadRunDelayed ==
    ASSUME Types, Types', Spread, SameTicks, RunDelayed
    PROVE  Spread'
<1>1. PICK x \in Cores : x = current_core_to_execute
  BY DelayedCore
<1>2. /\ loop = "CatchUp" /\ loop' = "RunDelayed" /\ core = NumCores /\ core' = x
      /\ global_ticks' = global_ticks /\ downcount' = downcount
  BY <1>1 DEF RunDelayed, At, Goto
<1>3. PICK G \in Int : G = global_ticks
  BY ClockTypes
<1>4. PICK T : T = [c \in Cores |-> GetTicks(c)]
  OBVIOUS
<1>5. T \in [Cores -> Int]
  BY <1>4, ClockTypes
<1>6. \A c \in Cores : GetTicks(c) = T[c] /\ GetTicks(c)' = T[c]
  BY <1>4 DEF SameTicks
<1>7. /\ \A c \in Cores : T[c] <= G /\ G - T[c] <= max_delay
      /\ max_delay = G - T[x] /\ downcount[x] <= max_delay
  <2>1. \A c \in Cores : c < NumCores
    BY CoreFacts
  <2> QED
    BY <1>1, <1>2, <1>3, <1>6, <2>1 DEF Spread, Following
<1>8. PICK r \in Ranks : \A c \in Cores : G - T[c] <= Tolerated + Over(r[c])
  BY <1>2, <1>3, <1>6 DEF Spread, Following
<1>9. \A c \in Cores : T[x] <= T[c]
  BY <1>5, <1>7
<1>10. PICK q \in Ranks : /\ q[x] = 0
                          /\ \A c \in Cores \ {x} :
                                 G + Overshoot - T[c] <= Tolerated + Over(q[c])
  BY <1>5, <1>8, <1>9, RanksWhenOneRuns
<1>11. T[x] <= G + Overshoot /\ T[x] + downcount[x] <= G
  BY <1>5, <1>7, ClockTypes, OverZero
<1>12. GetTicks(core)' = T[x] /\ downcount'[core'] = downcount[x]
  BY <1>2, <1>6
<1>13. Catching'
  <2>1. \E r1 \in Ranks : \A c \in Cores :
            global_ticks' - GetTicks(c)' <= Tolerated + Over(r1[c])
    BY <1>2, <1>3, <1>6, <1>8
  <2>2. \E r1 \in Ranks : r1[x] = 0 /\ \A c \in Cores \ {x} :
            global_ticks' + Overshoot - GetTicks(c)' <= Tolerated + Over(r1[c])
    BY <1>2, <1>3, <1>6, <1>10
  <2>3. \A c \in Cores \ {x} : GetTicks(c)' <= global_ticks'
    BY <1>2, <1>3, <1>6, <1>7
  <2>4. /\ GetTicks(core)' <= global_ticks' + Overshoot
        /\ GetTicks(core)' + downcount'[core'] <= global_ticks'
    BY <1>2, <1>3, <1>11, <1>12
  <2> QED
    BY <1>2, <2>1, <2>2, <2>3, <2>4 DEF Catching
<1> QED
  BY <1>2, <1>13 DEF Spread, Together, Following, Gathered, InTurn

(* No core lags by more than MIN_DELAY.                                    *)
LEMMA SpreadStartAll ==
    ASSUME Types, Types', Spread, SameTicks, StartAll
    PROVE  Spread'
<1>1. /\ loop = "CatchUp" /\ loop' = "AdvanceAll" /\ core = NumCores
      /\ global_ticks' = global_ticks /\ max_delay <= MIN_DELAY
      /\ max_slice' = MAX_SLICE_LENGTH
  BY DEF StartAll, At, Goto, CaughtUp
<1>2. \A c \in Cores : GetTicks(c)' = GetTicks(c)
  BY DEF SameTicks
<1>3. \A c \in Cores : Near(c)
  <2> SUFFICES ASSUME NEW c \in Cores
               PROVE  Near(c)
    OBVIOUS
  <2>1. c < core
    BY <1>1, CoreFacts
  <2>2. GetTicks(c) <= global_ticks /\ global_ticks - GetTicks(c) <= max_delay
    BY <1>1, <2>1 DEF Spread, Following
  <2> QED
    BY <1>1, <2>2, ClockTypes, ToleratedFacts DEF Near
<1>4. Gathered'
  BY <1>1, <1>2, <1>3, ToleratedFacts DEF Gathered, Near
<1> QED
  BY <1>1, <1>4 DEF Spread, Together, Following, Catching, InTurn

LEMMA SpreadEndAdvanceAll ==
    ASSUME Types, Types', Clocks, Spread, SameTicks, EndAdvanceAll
    PROVE  Spread'
<1>1. /\ loop = "AdvanceAll" /\ step = "Reschedule" /\ core \in Cores
      /\ global_ticks' = global_ticks
      /\ max_slice' = AtMost(max_slice, GetMaxSliceLength(core))
      /\ \/ loop' = "AdvanceAll"
         \/ loop' = "RunAll" /\ step' = "Begin" /\ core' = 0
  BY DEF EndAdvanceAll, At, Goto, Types, Located
<1>2. \A c \in Cores : GetTicks(c)' = GetTicks(c)
  BY DEF SameTicks
<1>3. /\ \A c \in Cores : Near(c)
      /\ 0 <= max_slice /\ max_slice <= MAX_SLICE_LENGTH
  BY <1>1 DEF Spread, Gathered
<1>4. \A c \in Cores : Near(c)'
  BY <1>1, <1>2, <1>3 DEF Near
<1>5. 0 <= max_slice' /\ max_slice' <= MAX_SLICE_LENGTH
  <2>1. PICK n \in Int : n = GetMaxSliceLength(core)
    BY <1>1, MaxSliceLength DEF Types
  <2>2. n > 0
    BY <1>1, <2>1, MaxSliceLength DEF Types, Clocks, NothingDue
  <2> QED
    BY <1>1, <1>3, <2>1, <2>2, ClockTypes, ToleratedFacts DEF AtMost
<1>6. Gathered'
  BY <1>4, <1>5 DEF Gathered
<1>7. InTurn'
  <2> SUFFICES ASSUME loop' = "RunAll"
               PROVE  InTurn'
    BY DEF InTurn
  <2>1. step' = "Begin" /\ core' = 0
    BY <1>1
  <2>2. \A c \in Cores : ~ (c < 0)
    BY CoreFacts
  <2>3. max_slice' <= MAX_SLICE_LENGTH + Over(core')
    BY <1>5, <2>1, OverZero, ToleratedFacts
  <2> QED
    BY <1>4, <1>5, <2>1, <2>2, <2>3 DEF InTurn
<1> QED
  BY <1>1, <1>6, <1>7 DEF Spread, Together, Following, Catching

LEMMA SpreadStartSlice ==
    ASSUME Types, Types', Spread, SameTicks, StartSlice
    PROVE  Spread'
<1>1. /\ loop = "RunAll" /\ loop' = "RunAll" /\ step = "Begin" /\ step' = "Run"
      /\ core \in Cores /\ core' = core
      /\ global_ticks' = global_ticks /\ max_slice' = max_slice
      /\ SetNextSlice(core, max_slice) /\ max_slice \in Int
  BY DEF StartSlice, At, Goto, Types, Locals, Located
<1>2. \A c \in Cores : GetTicks(c)' = GetTicks(c)
  BY DEF SameTicks
<1>3. PICK s \in Int : /\ s <= max_slice
                       /\ slice_length' = [slice_length EXCEPT ![core] = s]
                       /\ downcount' = [downcount EXCEPT ![core] = s]
  BY <1>1, SetNextSliceEffect DEF Types
<1>4. downcount'[core] = s
  BY <1>1, <1>3, SlicesAfterSet DEF Types
<1>5. PICK t \in Int : t = GetTicks(core)
  BY <1>1, ClockTypes
<1>6. start_ticks' = t /\ GetTicks(core)' = t
  BY <1>1, <1>2, <1>5 DEF StartSlice
<1>7. global_ticks - MIN_DELAY <= t /\ t <= global_ticks
  BY <1>1, <1>5 DEF Spread, InTurn, Near
<1>8. 0 <= max_slice /\ t <= t + max_slice + Overshoot /\ t + s <= t + max_slice
  BY <1>1, <1>3, OverZero DEF Spread, InTurn
<1>9. \A c \in Cores : c > core => Near(c)'
  BY <1>1, <1>2 DEF Spread, InTurn, Near
<1>10. ~ (core > core)
  BY <1>1, CoreFacts
<1>11. InTurn'
  <2>1. step' = "Run" => /\ global_ticks' - MIN_DELAY <= start_ticks'
                         /\ start_ticks' <= global_ticks'
                         /\ start_ticks' <= GetTicks(core)'
                         /\ GetTicks(core)' <= start_ticks' + max_slice' + Overshoot
                         /\ GetTicks(core)' + downcount'[core'] <= start_ticks' + max_slice'
    BY <1>1, <1>4, <1>6, <1>7, <1>8
  <2>2. \A c \in Cores : c > core' \/ (c = core' /\ step' = "Begin") => Near(c)'
    BY <1>1, <1>9
  <2> QED
    BY <1>1, <1>2, <2>1, <2>2 DEF Spread, InTurn
<1> QED
  BY <1>1, <1>11 DEF Spread, Together, Following, Catching, Gathered

(* The clock of the core that runs moves by what is taken from downcount.  *)
LEMMA TicksWhenRunning ==
    ASSUME Types, Types', Clocks, Execute \/ IdleCore
    PROVE  /\ core \in Cores /\ step = "Run"
           /\ UNCHANGED loopVars
           /\ \A c \in Cores \ {core} : GetTicks(c)' = GetTicks(c)
           /\ \E m, t \in Int :
                  /\ m < downcount[core] /\ m >= - Overshoot /\ t = GetTicks(core)
                  /\ GetTicks(core)' = t + downcount[core] - m /\ downcount'[core] = m
<1>1. /\ core \in Cores /\ step = "Run" /\ core' = core
      /\ UNCHANGED loopVars
      /\ executed_ticks' = executed_ticks /\ slice_length' = slice_length
      /\ is_timer_sane' = is_timer_sane
  BY Executes DEF Execute, IdleCore
<1>2. PICK m \in Int : /\ m < downcount[core] /\ m >= - Overshoot
                       /\ downcount' = [downcount EXCEPT ![core] = m]
  BY Executes
<1>3. downcount'[core] = m /\ \A c \in Cores \ {core} : downcount'[c] = downcount[c]
  BY <1>1, <1>2 DEF Types, Timers
<1>4. \A c \in Cores \ {core} : GetTicks(c)' = GetTicks(c)
  BY <1>1, <1>3 DEF GetTicks, Executed
<1>5. ~is_timer_sane[core]
  BY <1>1 DEF Clocks, Sanity
<1>6. PICK x : x = core
  OBVIOUS
<1>7. executed_ticks[x] \in Int /\ slice_length[x] \in Int /\ downcount[x] \in Int
  BY <1>1, <1>6, TimerTypes DEF Types
<1>8. GetTicks(x) = executed_ticks[x] + (slice_length[x] - downcount[x])
  BY <1>5, <1>6 DEF GetTicks, Executed
<1>9. GetTicks(x)' = executed_ticks[x] + (slice_length[x] - m)
  BY <1>1, <1>3, <1>5, <1>6 DEF GetTicks, Executed
<1>10. GetTicks(x)' = GetTicks(core)'
  BY <1>1, <1>6
<1>11. PICK t \in Int : t = GetTicks(core)
  BY <1>1, ClockTypes
<1>12. GetTicks(core)' = t + downcount[core] - m
  BY <1>6, <1>7, <1>8, <1>9, <1>10, <1>11
<1> QED
  BY <1>1, <1>2, <1>3, <1>4, <1>11, <1>12

LEMMA SpreadExecute ==
    ASSUME Types, Types', Clocks, Spread, Execute \/ IdleCore
    PROVE  Spread'
<1>1. /\ core \in Cores /\ step = "Run"
      /\ UNCHANGED loopVars
      /\ \A c \in Cores \ {core} : GetTicks(c)' = GetTicks(c)
  BY TicksWhenRunning
<1>2. PICK m \in Int, t \in Int :
          /\ m < downcount[core] /\ m >= - Overshoot /\ t = GetTicks(core)
          /\ GetTicks(core)' = t + downcount[core] - m /\ downcount'[core] = m
  BY TicksWhenRunning
<1>3. PICK d \in Int : d = downcount[core]
  BY <1>1, ClockTypes
<1>4. PICK u \in Int : u = t + d - m
  OBVIOUS
<1>5. /\ GetTicks(core) = t /\ GetTicks(core)' = u /\ downcount'[core] = m
      /\ u >= t /\ u + m = t + d /\ u <= t + d + Overshoot /\ Overshoot \in Nat
  BY <1>2, <1>3, <1>4, OverZero
<1>6. /\ loop' = loop /\ step' = step /\ core' = core /\ global_ticks' = global_ticks
      /\ max_slice' = max_slice /\ start_ticks' = start_ticks
  BY <1>1
<1>7. loop \in {"RunDelayed", "RunAll"}
  BY <1>1 DEF Types, Located
<1>8. CASE loop = "RunDelayed"
  <2>1. t + d <= global_ticks
    BY <1>3, <1>5, <1>8 DEF Spread, Catching
  <2>2. u <= global_ticks + Overshoot /\ u + m <= global_ticks
    BY <1>5, <2>1, ClockTypes
  <2>3. \E r \in Ranks : \A c \in Cores : global_ticks - GetTicks(c)' <= Tolerated + Over(r[c])
    <3>1. PICK r \in Ranks : \A c \in Cores :
              global_ticks - GetTicks(c) <= Tolerated + Over(r[c])
      BY <1>8 DEF Spread, Catching
    <3>2. PICK b \in Int : b = Tolerated + Over(r[core])
      <4>1. r[core] \in Int
        BY <1>1, CoreFacts DEF Ranks
      <4> QED
        BY <4>1, OverNext, ToleratedFacts
    <3>3. global_ticks - u <= b
      <4>1. global_ticks - t <= b
        BY <1>1, <1>5, <3>1, <3>2
      <4> QED
        BY <1>5, <4>1, ClockTypes
    <3>4. \A c \in Cores : global_ticks - GetTicks(c)' <= Tolerated + Over(r[c])
      <4> SUFFICES ASSUME NEW c \in Cores
                   PROVE  global_ticks - GetTicks(c)' <= Tolerated + Over(r[c])
        OBVIOUS
      <4>1. CASE c = core
        <5>1. GetTicks(c)' = GetTicks(core)'
          BY <1>6, <4>1
        <5> QED
          BY <1>5, <3>2, <3>3, <4>1, <5>1
      <4>2. CASE c # core
        BY <1>1, <3>1, <4>2
      <4> QED
        BY <4>1, <4>2
    <3> QED
      BY <3>4
  <2>4. Catching'
    <3>1. \E r \in Ranks : r[core] = 0 /\ \A c \in Cores \ {core} :
               global_ticks + Overshoot - GetTicks(c)' <= Tolerated + Over(r[c])
      BY <1>1, <1>8 DEF Spread, Catching
    <3>2. \A c \in Cores \ {core} : GetTicks(c)' <= global_ticks
      BY <1>1, <1>8 DEF Spread, Catching
    <3> QED
      BY <1>5, <1>6, <2>2, <2>3, <3>1, <3>2 DEF Catching
  <2> QED
    BY <1>6, <1>8, <2>4 DEF Spread, Together, Following, Gathered, InTurn
<1>9. CASE loop = "RunAll"
  <2>1. t + d <= start_ticks + max_slice /\ start_ticks <= t
    BY <1>1, <1>3, <1>5, <1>9 DEF Spread, InTurn
  <2>2. /\ u <= start_ticks + max_slice + Overshoot /\ u + m <= start_ticks + max_slice
        /\ start_ticks <= u
    BY <1>5, <2>1, ClockTypes
  <2>3. \A c \in Cores : c < core \/ c > core => c \in Cores \ {core}
    BY <1>1, CoreFacts
  <2>4. /\ \A c \in Cores : c > core => Near(c)'
        /\ \A c \in Cores : c < core =>
              /\ global_ticks - MIN_DELAY <= GetTicks(c)'
              /\ GetTicks(c)' <= global_ticks + MAX_SLICE_LENGTH + Over(c + 1)
              /\ global_ticks - MIN_DELAY + max_slice <=
                     GetTicks(c)' + Over(core - 1 - c)
    BY <1>1, <1>6, <1>9, <2>3 DEF Spread, InTurn, Near
  <2>5. \A c, e \in Cores : c < e /\ e < core =>
              GetTicks(e)' - GetTicks(c)' <= MIN_DELAY + Over(e - c)
    <3>1. \A c, e \in Cores : c < e /\ e < core => c < core
      BY <1>1, CoreFacts
    <3> QED
      BY <1>1, <1>9, <2>3, <3>1 DEF Spread, InTurn
  <2>6. InTurn'
    BY <1>1, <1>5, <1>6, <1>9, <2>2, <2>4, <2>5 DEF Spread, InTurn
  <2> QED
    BY <1>6, <1>9, <2>6 DEF Spread, Together, Following, Catching, Gathered
<1> QED
  BY <1>7, <1>8, <1>9

(* The turn of a core ends: it used up at most its slice and an overshoot, *)
(* and the next core gets no more time than that.                          *)
LEMMA TurnEnds ==
    ASSUME Types, Spread, loop = "RunAll", step = "Run",
           NEW T \in [Cores -> Int], \A c \in Cores : GetTicks(c) = T[c],
           NEW G \in Int, G = global_ticks, NEW n \in Int, n = GetTicks(core) - start_ticks
    PROVE  /\ 0 <= n /\ n <= MAX_SLICE_LENGTH + Over(core + 1)
           /\ \A c \in Cores : c < core + 1 =>
                 /\ G - MIN_DELAY <= T[c]
                 /\ T[c] <= G + MAX_SLICE_LENGTH + Over(c + 1)
                 /\ G - MIN_DELAY + n <= T[c] + Over(core - c)
           /\ \A c, d \in Cores : c < d /\ d < core + 1 =>
                 T[d] - T[c] <= MIN_DELAY + Over(d - c)
<1>1. core \in Cores /\ core \in Int
  BY CoreFacts DEF Types, Located
<1>2. PICK S \in Int, m \in Int, O \in Nat, D \in Nat, L \in Nat :
          /\ S = start_ticks /\ m = max_slice
          /\ O = Overshoot /\ D = MIN_DELAY /\ L = MAX_SLICE_LENGTH
  BY OverZero, ToleratedFacts DEF Types, Locals
<1>3. PICK t \in Int : t = T[core] /\ n = t - S
  BY <1>1, <1>2
<1>4. PICK v \in Int : v = Over(core) /\ Over(core + 1) = v + O
  BY <1>1, <1>2, OverNext
<1>5. /\ G - D <= S /\ S <= G /\ S <= t /\ t <= S + m + O
      /\ 0 <= m /\ m <= L + v
  BY <1>1, <1>2, <1>3, <1>4 DEF Spread, InTurn
<1>6. \A c \in Cores : c < core =>
          /\ G - D <= T[c] /\ T[c] <= G + L + Over(c + 1)
          /\ G - D + m <= T[c] + Over(core - 1 - c)
  BY <1>2 DEF Spread, InTurn
<1>7. 0 <= n /\ n <= L + Over(core + 1)
  BY <1>2, <1>3, <1>4, <1>5
<1>8. \A c \in Cores : c < core => Over(core - c) = Over(core - 1 - c) + O
                                   /\ Over(core - 1 - c) \in Int
  <2> SUFFICES ASSUME NEW c \in Cores
               PROVE  Over(core - c) = Over(core - 1 - c) + O /\ Over(core - 1 - c) \in Int
    OBVIOUS
  <2>1. PICK k \in Int : k = core - 1 - c /\ core - c = k + 1
    BY <1>1, CoreFacts
  <2> QED
    BY <1>2, <2>1, OverNext
<1>9. \A c \in Cores : c < core + 1 => c < core \/ c = core
  BY <1>1, CoreFacts
<1>10. /\ G - D <= t /\ t <= G + L + Over(core + 1) /\ G - D + n <= t
       /\ core - core = 0
  BY <1>1, <1>2, <1>3, <1>4, <1>5
<1>11. ASSUME NEW c \in Cores, c < core + 1
       PROVE  /\ G - D <= T[c]
              /\ T[c] <= G + L + Over(c + 1)
              /\ G - D + n <= T[c] + Over(core - c)
  <2>1. CASE c = core
    BY <1>2, <1>3, <1>10, <2>1, OverZero
  <2>2. CASE c < core
    <3>1. PICK a \in Int : a = Over(core - 1 - c) /\ Over(core - c) = a + O
      BY <1>8, <2>2
    <3>2. /\ G - D <= T[c] /\ T[c] <= G + L + Over(c + 1) /\ G - D + m <= T[c] + a
      BY <1>6, <2>2, <3>1
    <3>3. n <= m + O
      BY <1>3, <1>5
    <3>4. G - D + n <= T[c] + (a + O)
      BY <1>2, <3>2, <3>3
    <3> QED
      BY <3>1, <3>2, <3>4
  <2> QED
    BY <1>9, <1>11, <2>1, <2>2
<1>12. ASSUME NEW c \in Cores, NEW d \in Cores, c < d, d < core + 1
       PROVE  T[d] - T[c] <= D + Over(d - c)
  <2>1. CASE d = core
    <3>1. c < core
      BY <1>12, <2>1
    <3>2. PICK a \in Int : a = Over(core - 1 - c) /\ Over(core - c) = a + O
      BY <1>8, <3>1
    <3>3. G - D + m <= T[c] + a
      BY <1>6, <3>1, <3>2
    <3>4. t - T[c] <= D + (a + O)
      BY <1>2, <1>5, <3>3
    <3> QED
      BY <1>3, <2>1, <3>2, <3>4
  <2>2. CASE d < core
    BY <1>2, <1>12, <2>2 DEF Spread, InTurn
  <2> QED
    BY <1>9, <1>12, <2>1, <2>2
<1> QED
  BY <1>2, <1>7, <1>11, <1>12

LEMMA SpreadEndTurn ==
    ASSUME Types, Types', Spread, SameTicks, EndSlice, loop = "RunAll"
    PROVE  Spread'
<1>1. /\ core \in Cores /\ step = "Run" /\ global_ticks' = global_ticks
      /\ max_slice' = GetTicks(core) - start_ticks
      /\ IF core + 1 < NumCores THEN Goto(loop, "Begin", core + 1)
                                ELSE Goto("Top", "Reschedule", core)
  BY DEF EndSlice, Types, Located
<1>2. PICK T : T = [c \in Cores |-> GetTicks(c)]
  OBVIOUS
<1>3. T \in [Cores -> Int]
  BY <1>2, ClockTypes
<1>4. \A c \in Cores : GetTicks(c) = T[c]
  BY <1>2
<1>5. \A c \in Cores : GetTicks(c)' = T[c]
  BY <1>4 DEF SameTicks
<1>6. PICK G \in Int, n \in Int : G = global_ticks /\ n = GetTicks(core) - start_ticks
  BY <1>1, ClockTypes
<1>7. /\ 0 <= n /\ n <= MAX_SLICE_LENGTH + Over(core + 1)
      /\ \A c \in Cores : c < core + 1 =>
            /\ G - MIN_DELAY <= T[c]
            /\ T[c] <= G + MAX_SLICE_LENGTH + Over(c + 1)
            /\ G - MIN_DELAY + n <= T[c] + Over(core - c)
      /\ \A c, d \in Cores : c < d /\ d < core + 1 =>
            T[d] - T[c] <= MIN_DELAY + Over(d - c)
  BY <1>1, <1>3, <1>4, <1>6, TurnEnds
<1>8. CASE core + 1 < NumCores
  <2>0. PICK k : k = core + 1
    OBVIOUS
  <2>1. /\ loop' = "RunAll" /\ step' = "Begin" /\ core' = k
        /\ max_slice' = n /\ global_ticks' = G
    BY <1>1, <1>6, <1>8, <2>0 DEF Goto
  <2>2. \A c \in Cores : c > k \/ c = k => Near(c)'
    <3> SUFFICES ASSUME NEW c \in Cores, c > k \/ c = k
                 PROVE  Near(c)'
      OBVIOUS
    <3>1. c > core
      BY <1>1, <2>0, CoreFacts
    <3>2. Near(c)
      BY <3>1 DEF Spread, InTurn
    <3> QED
      BY <1>4, <1>5, <1>6, <2>1, <3>2 DEF Near
  <2>3. \A c \in Cores : k - 1 - c = core - c
    BY <1>1, <2>0, CoreFacts
  <2>4. \A c \in Cores : c < k =>
            /\ global_ticks' - MIN_DELAY <= GetTicks(c)'
            /\ GetTicks(c)' <= global_ticks' + MAX_SLICE_LENGTH + Over(c + 1)
            /\ global_ticks' - MIN_DELAY + max_slice' <=
                   GetTicks(c)' + Over(k - 1 - c)
    BY <1>5, <1>7, <2>0, <2>1, <2>3
  <2>5. \A c, d \in Cores : c < d /\ d < k =>
            GetTicks(d)' - GetTicks(c)' <= MIN_DELAY + Over(d - c)
    BY <1>5, <1>7, <2>0
  <2>6. 0 <= max_slice' /\ max_slice' <= MAX_SLICE_LENGTH + Over(k)
    BY <1>7, <2>0, <2>1
  <2>7. InTurn'
    BY <2>1, <2>2, <2>4, <2>5, <2>6 DEF InTurn
  <2> QED
    BY <2>1, <2>7 DEF Spread, Together, Following, Catching, Gathered
<1>9. CASE ~ (core + 1 < NumCores)
  <2>1. loop' = "Top"
    BY <1>1, <1>9 DEF Goto
  <2>2. \A c \in Cores : c < core + 1
    BY <1>1, <1>9, CoreFacts
  <2>3. \A c \in Cores : /\ G - MIN_DELAY <= T[c]
                         /\ T[c] <= G + MAX_SLICE_LENGTH + Over(c + 1)
    BY <1>7, <2>2
  <2>4. \A c, d \in Cores : c < d => T[d] - T[c] <= MIN_DELAY + Over(d - c)
    BY <1>7, <2>2
  <2>5. PICK q \in Ranks : \A c, d \in Cores : T[d] - T[c] <= Tolerated + Over(q[c])
    BY <1>3, <2>3, <2>4, RanksWhenAllRan
  <2>6. Together'
    BY <1>5, <2>5 DEF Together
  <2> QED
    BY <2>1, <2>6 DEF Spread, Following, Catching, Gathered, InTurn
<1> QED
  BY <1>8, <1>9

(* The core that ran alone stopped before the others' time, or passed it   *)
(* by an overshoot.                                                        *)
LEMMA SpreadEndCatching ==
    ASSUME Types, Types', Spread, SameTicks, EndSlice, loop = "RunDelayed"
    PROVE  Spread'
<1>1. core \in Cores /\ loop' = "Top"
  BY DEF EndSlice, Goto, Types, Located
<1>2. PICK T : T = [c \in Cores |-> GetTicks(c)]
  OBVIOUS
<1>3. T \in [Cores -> Int]
  BY <1>2, ClockTypes
<1>4. \A c \in Cores : GetTicks(c) = T[c] /\ GetTicks(c)' = T[c]
  BY <1>2 DEF SameTicks
<1>5. PICK G \in Int, O \in Nat : G = global_ticks /\ O = Overshoot
  BY ClockTypes, OverZero
<1>6. \A r \in Ranks : \A c \in Cores : Over(r[c]) \in Int /\ Tolerated + Over(r[c]) \in Int
  BY CoreFacts, OverNext, ToleratedFacts DEF Ranks
<1>7. (\A c \in Cores \ {core} : T[c] <= G) /\ T[core] <= G + O
  BY <1>1, <1>4, <1>5 DEF Spread, Catching
<1>8. CASE T[core] <= G
  <2>1. PICK r \in Ranks : \A c \in Cores : G - T[c] <= Tolerated + Over(r[c])
    BY <1>4, <1>5 DEF Spread, Catching
  <2>2. \A d \in Cores : T[d] <= G
    BY <1>7, <1>8
  <2>3. \A c, d \in Cores : T[d] - T[c] <= Tolerated + Over(r[c])
    <3> SUFFICES ASSUME NEW c \in Cores, NEW d \in Cores
                 PROVE  T[d] - T[c] <= Tolerated + Over(r[c])
      OBVIOUS
    <3>1. PICK b \in Int : b = Tolerated + Over(r[c])
      BY <1>6
    <3>2. G - T[c] <= b /\ T[d] <= G
      BY <2>1, <2>2, <3>1
    <3>3. T[d] - T[c] <= b
      BY <1>3, <3>2
    <3> QED
      BY <3>1, <3>3
  <2> QED
    BY <1>1, <1>4, <2>3 DEF Spread, Together, Following, Catching, Gathered, InTurn
<1>9. CASE ~ (T[core] <= G)
  <2>1. PICK r \in Ranks : r[core] = 0 /\ \A c \in Cores \ {core} :
            G + O - T[c] <= Tolerated + Over(r[c])
    BY <1>4, <1>5 DEF Spread, Catching
  <2>2. \A d \in Cores : T[d] <= G + O
    <3> SUFFICES ASSUME NEW d \in Cores
                 PROVE  T[d] <= G + O
      OBVIOUS
    <3>1. T[d] \in Int
      BY <1>3
    <3> QED
      BY <1>7, <3>1
  <2>3. \A c, d \in Cores : T[d] - T[c] <= Tolerated + Over(r[c])
    <3> SUFFICES ASSUME NEW c \in Cores, NEW d \in Cores
                 PROVE  T[d] - T[c] <= Tolerated + Over(r[c])
      OBVIOUS
    <3>1. PICK b \in Int : b = Tolerated + Over(r[c])
      BY <1>6
    <3>2. T[d] - T[c] <= b
      <4>1. CASE c = core
        <5>1. T[d] - T[c] <= 0
          <6>1. CASE d = core
            BY <1>1, <1>3, <4>1, <6>1
          <6>2. CASE d # core
            <7>1. T[d] <= G /\ T[core] > G
              BY <1>1, <1>3, <1>7, <1>9, <6>2
            <7> QED
              BY <1>1, <1>3, <4>1, <7>1
          <6> QED
            BY <6>1, <6>2
        <5>2. 0 <= b
          BY <2>1, <3>1, <4>1, OverZero, ToleratedFacts
        <5> QED
          BY <1>3, <5>1, <5>2
      <4>2. CASE c # core
        <5>1. G + O - T[c] <= b /\ T[d] <= G + O
          BY <2>1, <2>2, <3>1, <4>2
        <5> QED
          BY <1>3, <5>1
      <4> QED
        BY <4>1, <4>2
    <3> QED
      BY <3>1, <3>2
  <2> QED
    BY <1>1, <1>4, <2>3 DEF Spread, Together, Following, Catching, Gathered, InTurn
<1> QED
  BY <1>8, <1>9

LEMMA SpreadStep ==
    ASSUME Types, Types', Clocks, Spread, [Next]_vars
    PROVE  Spread'
<1>1. Execute \/ IdleCore \/ SameTicks
  BY ClocksStep
<1>2. CASE Execute \/ IdleCore
  BY <1>2, SpreadExecute
<1>3. CASE SameTicks
  <2>1. CASE EndLoop
    <3>1. loop = "Top" /\ loop' = "Top"
      BY <2>1 DEF EndLoop, At, Goto
    <3> QED
      BY <1>3, <3>1 DEF Spread, SameTicks, Together, Following, Catching, Gathered, InTurn
  <2>2. CASE EndSlice
    <3>1. loop \in {"RunDelayed", "RunAll"}
      BY <2>2 DEF EndSlice, Types, Located
    <3> QED
      BY <1>3, <2>2, <3>1, SpreadEndTurn, SpreadEndCatching
  <2>3. CASE FireEvent \/ CallbackReturns \/ SwitchThread \/ GuestCall \/ HostPushes
               \/ HostReadsClock \/ UNCHANGED vars
    BY <1>3, <2>3, SpreadQuiet
  <2> QED
    BY <1>2, <1>3, <2>1, <2>2, <2>3, SpreadBegin, SpreadSkipCore, SpreadBeginAdvance,
       SpreadEndAdvance, SpreadEndCatchUp, SpreadRunDelayed, SpreadStartAll,
       SpreadEndAdvanceAll, SpreadStartSlice
    DEF Next, LoopStep
<1> QED
  BY <1>1, <1>2, <1>3

LEMMA SpreadInit == Init => Spread
<1> SUFFICES ASSUME Init
             PROVE  Spread
  OBVIOUS
<1>1. Types
  BY TypesInit
<1>2. PICK t \in Int : \A c \in Cores : GetTicks(c) = t
  <2>1. \A c \in Cores : /\ executed_ticks[c] = 0 /\ slice_length[c] = MAX_SLICE_LENGTH
                         /\ downcount[c] = MAX_SLICE_LENGTH
    BY DEF Init, TimerInit
  <2>2. \A c \in Cores : GetTicks(c) = 0
    BY <2>1, TimingAssumption DEF GetTicks, Executed
  <2> QED
    BY <2>2
<1>3. PICK r \in Ranks : r = [c \in Cores |-> c]
  BY DEF Ranks
<1>4. \A c \in Cores : 0 <= Tolerated + Over(r[c])
  <2> SUFFICES ASSUME NEW c \in Cores
               PROVE  0 <= Tolerated + Over(r[c])
    OBVIOUS
  <2>1. r[c] = c /\ c \in Int /\ 0 <= c
    BY <1>3, CoreFacts
  <2>2. 0 <= Over(c) /\ Over(c) \in Int
    BY <2>1, OverZero, OverNext, OverGrows
  <2> QED
    BY <2>1, <2>2, ToleratedFacts
<1>5. Together
  BY <1>2, <1>4 DEF Together
<1>6. loop = "Top"
  BY DEF Init
<1> QED
  BY <1>5, <1>6 DEF Spread, Following, Catching, Gathered, InTurn

LEMMA LeadBound ==
    /\ MaxLead \in Nat /\ Tolerated <= MaxLead
    /\ \A k \in Int : k <= NumCores - 1 => Tolerated + Over(k) <= MaxLead
<1>1. PICK n \in Nat : n = NumCores - 1
  BY TimingAssumption
<1>2. MaxLead = Tolerated + Over(n)
  BY <1>1 DEF MaxLead, Tolerated, Over
<1>3. Over(n) \in Int /\ 0 <= Over(n)
  BY <1>1, OverZero, OverNext, OverGrows
<1>4. \A k \in Int : k <= n => Over(k) <= Over(n) /\ Over(k) \in Int
  BY <1>1, OverNext, OverGrows
<1> QED
  BY <1>1, <1>2, <1>3, <1>4, ToleratedFacts

LEMMA TogetherWhileCatching ==
    ASSUME Types, Spread, loop = "RunDelayed", NEW a \in Cores, NEW b \in Cores
    PROVE  GetTicks(a) - GetTicks(b) <= MaxLead
<1>1. core \in Cores
  BY DEF Types, Located
<1>2. \A c \in Cores : GetTicks(c) \in Int
  BY TicksType DEF Types
<1>3. PICK G \in Int, O \in Nat, M \in Nat : G = global_ticks /\ O = Overshoot /\ M = MaxLead
  BY OverZero, LeadBound DEF Types, Locals
<1>4. \A r \in Ranks : \A c \in Cores : /\ Tolerated + Over(r[c]) \in Int
                                        /\ Tolerated + Over(r[c]) <= M
  <2> SUFFICES ASSUME NEW r \in Ranks, NEW c \in Cores
               PROVE  Tolerated + Over(r[c]) \in Int /\ Tolerated + Over(r[c]) <= M
    OBVIOUS
  <2>1. r[c] \in Cores
    BY DEF Ranks
  <2>2. r[c] \in Int /\ r[c] <= NumCores - 1
    BY <2>1, CoreFacts
  <2> QED
    BY <1>3, <2>2, OverNext, LeadBound, ToleratedFacts
<1>5. \A c \in Cores : G - GetTicks(c) <= M
  <2>1. PICK r \in Ranks : \A c \in Cores : G - GetTicks(c) <= Tolerated + Over(r[c])
    BY <1>3 DEF Spread, Catching
  <2> QED
    BY <1>2, <1>4, <2>1
<1>6. \A c \in Cores \ {core} : G + O - GetTicks(c) <= M
  <2>1. PICK r \in Ranks : \A c \in Cores \ {core} :
            G + O - GetTicks(c) <= Tolerated + Over(r[c])
    BY <1>3 DEF Spread, Catching
  <2> QED
    BY <1>2, <1>4, <2>1
<1>7. (\A c \in Cores \ {core} : GetTicks(c) <= G) /\ GetTicks(core) <= G + O
  BY <1>3 DEF Spread, Catching
<1>8. CASE b # core
  <2>1. GetTicks(a) <= G + O
    BY <1>2, <1>7
  <2> QED
    BY <1>2, <1>3, <1>6, <1>8, <2>1
<1>9. CASE b = core /\ a # core
  BY <1>2, <1>3, <1>5, <1>7, <1>9
<1>10. CASE b = core /\ a = core
  BY <1>2, <1>3, <1>10
<1> QED
  BY <1>8, <1>9, <1>10

LEMMA TogetherInTurn ==
    ASSUME Types, Spread, loop = "RunAll", step = "Run", NEW a \in Cores, NEW b \in Cores
    PROVE  GetTicks(a) - GetTicks(b) <= MaxLead
<1>1. PICK T : T = [c \in Cores |-> GetTicks(c)]
  OBVIOUS
<1>2. T \in [Cores -> Int] /\ \A c \in Cores : GetTicks(c) = T[c]
  BY <1>1, TicksType DEF Types
<1>3. core \in Cores /\ core \in Int /\ a \in Int /\ b \in Int
  BY CoreFacts DEF Types, Located
<1>4. PICK G \in Int, n \in Int : G = global_ticks /\ n = GetTicks(core) - start_ticks
  BY <1>2, <1>3 DEF Types, Locals
<1>5. /\ \A c \in Cores : c < core + 1 =>
            /\ G - MIN_DELAY <= T[c]
            /\ T[c] <= G + MAX_SLICE_LENGTH + Over(c + 1)
      /\ \A c, d \in Cores : c < d /\ d < core + 1 =>
            T[d] - T[c] <= MIN_DELAY + Over(d - c)
  BY <1>2, <1>4, TurnEnds
<1>6. \A c \in Cores : ~ (c < core + 1) => G - MIN_DELAY <= T[c] /\ T[c] <= G
  <2>1. \A c \in Cores : ~ (c < core + 1) => c > core
    BY <1>3, CoreFacts
  <2> QED
    BY <1>2, <1>4, <2>1 DEF Spread, InTurn, Near
<1>7. PICK D \in Nat, L \in Nat, M \in Nat :
          /\ D = MIN_DELAY /\ L = MAX_SLICE_LENGTH /\ M = MaxLead /\ D + L <= M
          /\ \A k \in Int : k <= NumCores - 1 => D + L + Over(k) <= M /\ Over(k) \in Int
  BY LeadBound, ToleratedFacts, OverNext DEF Tolerated
<1>8. T[a] \in Int /\ T[b] \in Int /\ G - D <= T[b]
  BY <1>2, <1>5, <1>6, <1>7
<1>9. CASE ~ (a < core + 1)
  <2>1. T[a] <= G
    BY <1>6, <1>9
  <2>2. T[a] - T[b] <= M
    BY <1>7, <1>8, <2>1
  <2> QED
    BY <1>2, <1>7, <2>2
<1>10. CASE a < core + 1 /\ a < b
  <2>1. a + 1 \in Int /\ a + 1 <= NumCores - 1
    BY <1>3, <1>10, CoreFacts
  <2>2. PICK v \in Int : v = Over(a + 1) /\ D + L + v <= M
    BY <1>7, <2>1
  <2>3. T[a] <= G + L + v
    BY <1>5, <1>7, <1>10, <2>2
  <2>4. T[a] - T[b] <= M
    BY <1>7, <1>8, <2>2, <2>3
  <2> QED
    BY <1>2, <1>7, <2>4
<1>11. CASE a < core + 1 /\ b < a
  <2>1. a - b \in Int /\ a - b <= NumCores - 1
    BY <1>3, <1>11, CoreFacts
  <2>2. PICK v \in Int : v = Over(a - b) /\ D + L + v <= M
    BY <1>7, <2>1
  <2>3. T[a] - T[b] <= D + v
    BY <1>5, <1>7, <1>11, <2>2
  <2>4. T[a] - T[b] <= M
    BY <1>7, <1>8, <2>2, <2>3
  <2> QED
    BY <1>2, <1>7, <2>4
<1>12. CASE a = b
  BY <1>2, <1>7, <1>8, <1>12
<1> QED
  BY <1>3, <1>9, <1>10, <1>11, <1>12

(* Whatever the guests, the callbacks and the host threads do, no core     *)
(* leaves another behind by more than a slice, what RunLoop tolerates, and *)
(* the overshoots of the other cores (core.cpp:151-215).                   *)
THEOREM LockstepCorrect == Spec => [](Spread /\ CoresStayTogether)
<1>1. Init => Spread
  BY SpreadInit
<1>2. (TypeOK /\ Types) /\ (TypeOK /\ Types)' /\ Clocks /\ Spread /\ [Next]_vars => Spread'
  BY SpreadStep
<1>3. (TypeOK /\ Types) /\ Spread => CoresStayTogether
  <2> SUFFICES ASSUME Types, Spread, step = "Run", NEW a \in Cores, NEW b \in Cores
               PROVE  GetTicks(a) - GetTicks(b) <= MaxLead
    BY DEF CoresStayTogether
  <2>1. loop \in {"RunDelayed", "RunAll"}
    BY DEF Types, Located
  <2> QED
    BY <2>1, TogetherWhileCatching, TogetherInTurn
<1> HIDE DEF Clocks, Spread, CoresStayTogether
<1> QED
  BY <1>1, <1>2, <1>3, LoopTypeCorrect, ClocksCorrect, PTL DEF Spec

(* A slice fits: it ends at the core's next event, which is still to come, *)
(* and leaves no core far behind another (core.cpp:183-205, the assertion  *)
(* of core_timing.cpp:209).                                                *)
THEOREM SlicesFitAlways == Spec => []SlicesFit
<1>1. (SliceStopsAtNextEvent /\ NextEventInFuture) /\ (Spread /\ CoresStayTogether) => SlicesFit
  BY DEF SlicesFit
<1> HIDE DEF SlicesFit, SliceStopsAtNextEvent, NextEventInFuture, Spread, CoresStayTogether
<1> QED
  BY <1>1, SlicesStopAtEvents, LockstepCorrect, PTL
=============================================================================

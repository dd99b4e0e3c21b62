---------------------------- MODULE EventSchedule ----------------------------
(***************************************************************************)
(* What Core::Timing promises (core/core_timing.h): an event that was      *)
(* scheduled fires once, on its core, not before its time and not after a  *)
(* later one, unless it is cancelled.  An event that another core or a     *)
(* host thread scheduled first has to settle, and only a settled event can *)
(* be cancelled: the header says nothing of this, UnscheduleEvent does.    *)
(***************************************************************************)
EXTENDS Integers

CONSTANTS Cores, Keys

VARIABLES
    now,        \* the time of each core
    waiting     \* the events to come, with the core and whether they settled

vars == <<now, waiting>>

Settled(c) == {e \in waiting : e.core = c /\ e.settled}

Init ==
    /\ now \in [Cores -> Int]
    /\ waiting = {}

(* A new identity, for the core's own queue or for one that has to settle. *)
Schedule(c, i, time, key, settled) ==
    /\ \A e \in waiting : e.id # i
    /\ waiting' = waiting \cup {[core |-> c, id |-> i, time |-> time,
                                 key |-> key, settled |-> settled]}
    /\ UNCHANGED now

(* Time passes and everything that arrived settles.                        *)
Settle(c) ==
    /\ now' \in [Cores -> Int] /\ now'[c] >= now[c]
    /\ \A d \in Cores \ {c} : now'[d] = now[d]
    /\ waiting' = {IF e.core = c THEN [e EXCEPT !.settled = TRUE] ELSE e :
                   e \in waiting}

(* Every settled event with one of the keys goes, on all cores.            *)
Cancel(keys) ==
    /\ waiting' = {e \in waiting : e.settled => e.key \notin keys}
    /\ UNCHANGED now

Fire(c) ==
    \E e \in Settled(c) :
        /\ e.time <= now[c]
        /\ \A f \in Settled(c) : e.time <= f.time
        /\ waiting' = waiting \ {e}
        /\ UNCHANGED now

Next ==
    \/ \E c \in Cores : Settle(c) \/ Fire(c)
    \/ \E keys \in SUBSET Keys : Cancel(keys)
    \/ \E e \in waiting' \ waiting :
          Schedule(e.core, e.id, e.time, e.key, e.settled)

Spec == Init /\ [][Next]_vars
=============================================================================

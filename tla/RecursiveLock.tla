---------------------------- MODULE RecursiveLock ----------------------------
(***************************************************************************)
(* What a kernel mutex promises, without waiting lists, priorities or a    *)
(* scheduler: a set of locks, each with an owner and a depth.  The owner   *)
(* may lock again; only the owner unlocks, one level at a time; a lock     *)
(* changes hands only through being free; and when its owner is dead it is *)
(* freed.  KernelSync implements this with owner <- holding_thread and     *)
(* depth <- lock_count (KernelSync!Lock).                                  *)
(***************************************************************************)
EXTENDS Integers

CONSTANTS Locks, Owners, NoOwner

VARIABLES owner, depth, dead

Init == /\ owner = [l \in Locks |-> NoOwner]
        /\ depth = [l \in Locks |-> 0]
        /\ dead = {}

Lock(l, t) ==
    /\ \/ owner[l] = NoOwner /\ depth[l] = 0
       \/ owner[l] = t /\ depth[l] > 0
    /\ t \notin dead
    /\ owner' = [owner EXCEPT ![l] = t]
    /\ depth' = [depth EXCEPT ![l] = @ + 1]
    /\ UNCHANGED dead

Unlock(l, t) ==
    /\ owner[l] = t
    /\ t \notin dead
    /\ depth[l] > 0
    /\ depth' = [depth EXCEPT ![l] = @ - 1]
    /\ owner' = [owner EXCEPT ![l] = IF depth[l] = 1 THEN NoOwner ELSE t]
    /\ UNCHANGED dead

Abandon(l, t) ==
    /\ owner[l] = t
    /\ t \in dead
    /\ owner' = [owner EXCEPT ![l] = NoOwner]
    /\ depth' = [depth EXCEPT ![l] = 0]
    /\ UNCHANGED dead

Die(t) ==
    /\ dead' = dead \cup {t}
    /\ UNCHANGED <<owner, depth>>

Next == \E t \in Owners :
            \/ \E l \in Locks : Lock(l, t) \/ Unlock(l, t) \/ Abandon(l, t)
            \/ Die(t)

Spec == Init /\ [][Next]_<<owner, depth, dead>>
=============================================================================

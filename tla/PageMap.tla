-------------------------------- MODULE PageMap --------------------------------
(***************************************************************************)
(* What the kernel's memory management promises, page by page: FCRAM is    *)
(* given to holders and taken back from them, and mappings of it come and  *)
(* go without moving.  No areas, and no order of allocation.               *)
(***************************************************************************)
EXTENDS Integers, FiniteSets

CONSTANTS Processes, Holders

VARIABLES
    owned,      \* pairs of a page of FCRAM and who holds it
    mapped      \* per process, pairs of an address and the page behind it

pmvars == <<owned, mapped>>

Init == owned = {} /\ \A p \in Processes : mapped[p] = {}

Firsts(pairs) == {x[1] : x \in pairs}
Seconds(pairs) == {x[2] : x \in pairs}

Gained(p) == mapped'[p] \ mapped[p]
Lost(p) == mapped[p] \ mapped'[p]
VisibleNext == UNION {Seconds(mapped'[p]) : p \in Processes}

(* Free pages go to one holder.  If a process gets to see new memory, it   *)
(* is these pages, each once, at places where it had nothing.              *)
Allocate(p, taken, gained) ==
    /\ Cardinality(Seconds(taken)) = 1 /\ Seconds(taken) \subseteq Holders
    /\ Firsts(taken) \cap Firsts(owned) = {} /\ owned \subseteq owned'
    /\ Lost(p) = {} /\ Firsts(gained) \cap Firsts(mapped[p]) = {}
    /\ Seconds(gained) \subseteq Firsts(taken)
    /\ Cardinality(Seconds(gained)) = Cardinality(gained)

(* A holder gives pages back.  Where a process loses sight of memory, it   *)
(* is of these pages, and nobody else sees them.                           *)
Release(p, returned) ==
    /\ Cardinality(Seconds(returned)) = 1 /\ owned' \subseteq owned
    /\ Gained(p) = {} /\ Seconds(Lost(p)) \subseteq Firsts(returned)
    /\ VisibleNext \cap Firsts(returned) = {}

(* Memory that somebody holds is mapped at free places, or unmapped.       *)
Map(p, gained) ==
    /\ owned' = owned /\ Lost(p) = {}
    /\ Firsts(gained) \cap Firsts(mapped[p]) = {}
    /\ Cardinality(Firsts(gained)) = Cardinality(gained)
    /\ Seconds(gained) \subseteq Firsts(owned)

Unmap(p) == owned' = owned /\ Gained(p) = {}

(* A process goes: with what it held, and with all it saw.                 *)
Vanish(p, returned) ==
    /\ owned' \subseteq owned /\ mapped'[p] = {}
    /\ VisibleNext \cap Firsts(returned) = {}

Next ==
    \E p \in Processes :
        /\ \A q \in Processes \ {p} : mapped'[q] = mapped[q]
        /\ LET taken == owned' \ owned  returned == owned \ owned' IN
              \/ Allocate(p, taken, Gained(p)) \/ Release(p, returned)
              \/ Map(p, Gained(p)) \/ Unmap(p)
              \/ Vanish(p, returned)

Spec == Init /\ [][Next]_pmvars
=============================================================================

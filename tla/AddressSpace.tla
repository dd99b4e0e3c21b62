------------------------------ MODULE AddressSpace ------------------------------
(***************************************************************************)
(* Kernel::VMManager (kernel/vm_manager.cpp): the address space of a       *)
(* process as a set of areas that are split and merged.  An address space  *)
(* is a value; the operations return the one that they leave behind.  The  *)
(* unit of addresses and of FCRAM is the page.                             *)
(***************************************************************************)
EXTENDS Integers, Sequences, FiniteSets

CONSTANT MAX_ADDRESS

ASSUME MaxAddressAssumption == MAX_ADDRESS \in Nat \ {0}

Span(base, size) == base..(base + size - 1)
Unbacked == -1

(* A free area has no backing memory; any other has a block of pages.      *)
IsFree(area) == area.backing = Unbacked
FreeArea(base, size) ==
    [base |-> base, size |-> size, backing |-> Unbacked, perms |-> "None", state |-> "Free"]

EmptySpace == {FreeArea(0, MAX_ADDRESS)}

FindVMA(areas, page) == CHOOSE a \in areas : page \in Span(a.base, a.size)

BackingOf(area, page) == IF IsFree(area) THEN Unbacked ELSE area.backing + (page - area.base)
At(areas, page) ==
    LET a == FindVMA(areas, page) IN [backing |-> BackingOf(a, page), state |-> a.state]

CanBeMergedWith(a, next) ==
    /\ a.base + a.size = next.base
    /\ a.perms = next.perms /\ a.state = next.state /\ IsFree(a) = IsFree(next)
    /\ IsFree(a) \/ a.backing + a.size = next.backing

(* Faulty: the right half keeps the backing of the whole.                  *)
SplitKeepsBacking(areas, page) ==
    LET a == FindVMA(areas, page)
        left == page - a.base IN
    IF page = MAX_ADDRESS \/ left = 0 THEN areas
    ELSE (areas \ {a}) \cup {[a EXCEPT !.size = left],
                             [a EXCEPT !.base = page, !.size = @ - left]}

SplitVMA(areas, page) ==
    IF page = MAX_ADDRESS \/ \E a \in areas : a.base = page THEN areas
    ELSE LET a == FindVMA(areas, page)
             left == page - a.base IN
         (areas \ {a}) \cup {[a EXCEPT !.size = left],
                             [a EXCEPT !.base = page, !.size = @ - left,
                                       !.backing = BackingOf(a, page)]}

Carve(areas, target, size) == SplitVMA(SplitVMA(areas, target + size), target)

(* Faulty: the previous area is left alone.                                *)
MergeNext(areas, page) ==
    LET a    == FindVMA(areas, page)
        next == {b \in areas : CanBeMergedWith(a, b)}
        wide == [a EXCEPT !.size = @ + (IF next = {} THEN 0 ELSE (CHOOSE b \in next : TRUE).size)]
    IN (areas \ ({a} \cup next)) \cup {wide}

(* The area at page, with the next one if they fit, with the previous one  *)
(* if they fit.                                                            *)
MergeAdjacent(areas, page) ==
    LET a    == FindVMA(areas, page)
        next == {b \in areas : CanBeMergedWith(a, b)}
        wide == [a EXCEPT !.size = @ + (IF next = {} THEN 0 ELSE (CHOOSE b \in next : TRUE).size)]
        prev == {b \in areas : CanBeMergedWith(b, wide)}
        all  == IF prev = {} THEN wide
                ELSE LET b == CHOOSE b \in prev : TRUE IN [b EXCEPT !.size = @ + wide.size]
    IN (areas \ ({a} \cup next \cup prev)) \cup {all}

(* One area changes its attributes and is merged with its neighbours.      *)
Become(areas, page, backing, perms, state) ==
    LET a == FindVMA(areas, page) IN
    MergeAdjacent((areas \ {a}) \cup {[a EXCEPT !.backing = backing, !.perms = perms,
                                                !.state = state]}, page)

Vacant(areas, target, size) ==
    LET a == FindVMA(areas, target) IN IsFree(a) /\ target + size <= a.base + a.size

InRange(areas, target, size) == {a \in areas : Span(a.base, a.size) \cap Span(target, size) # {}}

(* CarveVMARange gives up when any part is free.                           *)
Occupied(areas, target, size) == \A a \in InRange(areas, target, size) : ~IsFree(a)

MapBackingMemory(areas, target, backing, size, state) ==
    Become(Carve(areas, target, size), target, backing, "ReadWrite", state)

(* Of the area that holds page, wherever it begins: one that becomes free  *)
(* loses its memory, any other keeps it.                                   *)
Kept == "Kept"
Change(areas, page, perms, state) ==
    LET a == FindVMA(areas, page) IN
    Become(areas, page, IF state = "Free" THEN Unbacked ELSE a.backing, perms,
           IF state = Kept THEN a.state ELSE state)

Reprotect(areas, page, perms) == Change(areas, page, perms, Kept)

EndOf(areas, page) == LET a == FindVMA(areas, page) IN a.base + a.size

(* The loops over the areas of a range: each is changed and merged with    *)
(* its neighbours, and the next one is the one behind the result.  So an   *)
(* area that was merged is passed over, and nobody looks whether it could  *)
(* be merged with what comes after it.                                     *)
Walk(areas, target, size, perms, state) ==
    LET walk[n \in 0..size] ==
            IF n = 0 THEN [areas |-> Carve(areas, target, size), at |-> target]
            ELSE IF walk[n - 1].at >= target + size THEN walk[n - 1]
            ELSE LET changed == Change(walk[n - 1].areas, walk[n - 1].at, perms, state)
                 IN [areas |-> changed, at |-> EndOf(changed, walk[n - 1].at)]
    IN walk[size].areas

UnmapRange(areas, target, size) == Walk(areas, target, size, "None", "Free")
ReprotectRange(areas, target, size, perms) == Walk(areas, target, size, perms, Kept)
ChangeMemoryState(areas, target, size, state, perms) == Walk(areas, target, size, perms, state)

(* The condition under which ChangeMemoryState does it.                    *)
PermsAllow(perms, needed) == needed = "None" \/ perms = needed
MayChangeState(areas, target, size, state, perms) ==
    \A a \in InRange(areas, target, size) :
        ~IsFree(a) /\ a.state = state /\ PermsAllow(a.perms, perms)

(* The numbers of a set, from the lowest.                                  *)
Ascending(S) == [i \in 1..Cardinality(S) |-> CHOOSE x \in S : Cardinality({y \in S : y < x}) = i - 1]

(* The blocks behind a range: where each goes, from the start of the range. *)
BackingBlocks(areas, target, size) ==
    LET intervals == Ascending({IF a.base < target THEN target ELSE a.base :
                                    a \in InRange(areas, target, size)})
        end(page) == IF EndOf(areas, page) < target + size THEN EndOf(areas, page)
                     ELSE target + size
    IN [i \in 1..Len(intervals) |->
           [at |-> intervals[i] - target,
            backing |-> BackingOf(FindVMA(areas, intervals[i]), intervals[i]),
            size |-> end(intervals[i]) - intervals[i]]]

BackingPages(areas, target, size) == {At(areas, page).backing : page \in Span(target, size)}

(* Each block is mapped, and whatever area it is then part of reprotected. *)
MapBlocks(areas, target, blocks, state, perms) ==
    LET one(as, b) ==
            Reprotect(MapBackingMemory(as, target + b.at, b.backing, b.size, state),
                      target + b.at, perms)
        mapped[n \in 0..Len(blocks)] ==
            IF n = 0 THEN areas ELSE one(mapped[n - 1], blocks[n])
    IN mapped[Len(blocks)]
=============================================================================

------------------------------ MODULE HandleTable ------------------------------
(***************************************************************************)
(* Kernel::HandleTable (kernel/handle_table.cpp): a fixed number of slots, *)
(* each with an object and a generation; the generations of empty slots    *)
(* link them into a list.  A table is a record; the operations return the  *)
(* table that they leave behind.                                           *)
(***************************************************************************)
EXTENDS Integers, Sequences, FiniteSets

CONSTANTS
    MAX_COUNT,          \* the slots of a table
    GENERATION_LIMIT,   \* 1 << 15: generations fit below it
    KernelObjects,
    NullObject

ASSUME TableAssumption ==
    /\ MAX_COUNT \in Nat \ {0}
    /\ GENERATION_LIMIT \in Nat /\ GENERATION_LIMIT > 2
    /\ NullObject \notin KernelObjects

Slots == 0..(MAX_COUNT - 1)
Handle == [slot : Slots, generation : 0..(GENERATION_LIMIT - 1)]
NullHandle == [slot |-> 0, generation |-> 0]

(* The handles issued last, with whether they were given up since: history *)
(* only, as long as a generation is not used again.                        *)
Remembered == GENERATION_LIMIT - 1

EmptyTable ==
    [objects |-> [i \in Slots |-> NullObject],
     generations |-> [i \in Slots |-> i + 1],
     next_generation |-> 1,
     next_free_slot |-> 0,
     recent |-> <<>>]

Full(t) == t.next_free_slot >= MAX_COUNT

IsValid(t, h) ==
    /\ h.slot \in Slots
    /\ t.objects[h.slot] # NullObject
    /\ t.generations[h.slot] = h.generation

GetGeneric(t, h) == IF IsValid(t, h) THEN t.objects[h.slot] ELSE NullObject

(* Faulty: the generation does not change.                                 *)
SameGeneration(g) == g

NextGeneration(g) == IF g + 1 >= GENERATION_LIMIT THEN 1 ELSE g + 1

NewHandle(t) == [slot |-> t.next_free_slot, generation |-> t.next_generation]

Remember(recent, h) ==
    LET longer == Append(recent, [handle |-> h, open |-> TRUE]) IN
    IF Len(longer) > Remembered THEN Tail(longer) ELSE longer

Forget(recent, h) ==
    [i \in 1..Len(recent) |->
        IF recent[i].handle = h THEN [recent[i] EXCEPT !.open = FALSE] ELSE recent[i]]

(* Create, of a table that is not full.                                    *)
Created(t, object) ==
    [objects |-> [t.objects EXCEPT ![t.next_free_slot] = object],
     generations |-> [t.generations EXCEPT ![t.next_free_slot] = t.next_generation],
     next_generation |-> NextGeneration(t.next_generation),
     next_free_slot |-> t.generations[t.next_free_slot],
     recent |-> Remember(t.recent, NewHandle(t))]

(* Faulty: the slot keeps its generation, which is then taken for a link.  *)
KeepGeneration(t, h) == t.generations

LinkFree(t, h) == [t.generations EXCEPT ![h.slot] = t.next_free_slot]

(* Close, of a valid handle.                                               *)
Closed(t, h) ==
    [t EXCEPT !.objects[h.slot] = NullObject,
              !.generations = LinkFree(t, h),
              !.next_free_slot = h.slot,
              !.recent = Forget(@, h)]

(* The empty slots in the order of the list, at most MAX_COUNT of them.    *)
FreeList(t) ==
    LET next[i \in 0..MAX_COUNT] ==
            IF i = 0 THEN t.next_free_slot
            ELSE IF next[i - 1] \in Slots THEN t.generations[next[i - 1]] ELSE MAX_COUNT
    IN [i \in 1..Cardinality({j \in Slots : next[j] \in Slots}) |-> next[i - 1]]
=============================================================================

----------------------------- MODULE HandlePassing -----------------------------
(***************************************************************************)
(* The handle tables of processes and what changes them: SVCs that create, *)
(* duplicate and close handles, and the handle descriptors of IPC messages *)
(* between processes (TranslateCommandBuffer) and to and from emulated     *)
(* services (HLERequestContext).  Messages that would make the emulator    *)
(* stop (R_ASSERT on a full table) are left out.                           *)
(***************************************************************************)
EXTENDS HandleTable, SequencesExt

CONSTANTS
    Processes,
    MaxHandles      \* bound: the handles of one descriptor

ASSUME PassingAssumption == MaxHandles \in Nat

VARIABLES
    handle_table,   \* per process
    context,        \* what an emulated service got with a request: objects, or null
    observed        \* history variable: what went wrong with the last message

vars == <<handle_table, context, observed>>

Descriptors == {"CopyHandle", "MoveHandle"}

Init ==
    /\ handle_table = [p \in Processes |-> EmptyTable]
    /\ context = <<>>
    /\ observed = {}

InTable(t) == {t.objects[i] : i \in Slots} \ {NullObject}
Exists(o) == \/ \E p \in Processes : o \in InTable(handle_table[p])
             \/ \E i \in 1..Len(context) : context[i] = o

(* What a process may put into a message: its handles, some that it gave   *)
(* up, and the null handle.                                                *)
Known(p) ==
    LET t == handle_table[p] IN
    {[slot |-> i, generation |-> t.generations[i]] :
        i \in {j \in Slots : t.objects[j] # NullObject}} \cup {NullHandle}
    \cup {t.recent[i].handle : i \in 1..Len(t.recent)}

Messages(p) == UNION {[1..n -> Known(p)] : n \in 1..MaxHandles}

(***************************************************************************)
(* SVCs.  On a full table Create fails, and the new object is gone.        *)
(***************************************************************************)
CreateObject(p) ==
    \E o \in KernelObjects :
        /\ ~Exists(o) /\ ~Full(handle_table[p])
        /\ handle_table' = [handle_table EXCEPT ![p] = Created(@, o)]
        /\ observed' = {}
        /\ UNCHANGED context

DuplicateHandle(p, h) ==
    LET object == GetGeneric(handle_table[p], h) IN
    /\ object # NullObject /\ ~Full(handle_table[p])
    /\ handle_table' = [handle_table EXCEPT ![p] = Created(@, object)]
    /\ observed' = {}
    /\ UNCHANGED context

CloseHandle(p, h) ==
    /\ IsValid(handle_table[p], h)
    /\ handle_table' = [handle_table EXCEPT ![p] = Closed(@, h)]
    /\ observed' = {}
    /\ UNCHANGED context

(***************************************************************************)
(* The translation of one descriptor, handle by handle: the tables so far, *)
(* the words written, the objects found, and whether everything fitted.    *)
(***************************************************************************)
(* Only the descriptor of a single handle equals MoveHandle (ipc.cpp:83,   *)
(* hle_ipc.cpp:191): the number of handles is part of the word.            *)
Closes(kind, hs) == kind = "MoveHandle" /\ Len(hs) = 1

Take(tables, p, h, closes) ==
    IF closes /\ IsValid(tables[p], h)
    THEN [tables EXCEPT ![p] = Closed(@, h)] ELSE tables

(* Faulty: the handle is closed before the object is looked up.            *)
LookAfterTaking(tables, p, h, closes) == GetGeneric(Take(tables, p, h, closes)[p], h)

Look(tables, p, h, closes) == GetGeneric(tables[p], h)

Give(a, p, object) ==
    IF object = NullObject
    THEN [a EXCEPT !.new = Append(@, NullHandle)]
    ELSE IF Full(a.tables[p]) THEN [a EXCEPT !.fits = FALSE]
    ELSE [a EXCEPT !.tables[p] = Created(@, object),
                   !.new = Append(@, NewHandle(a.tables[p]))]

Start == [tables |-> handle_table, new |-> <<>>, found |-> <<>>, fits |-> TRUE]

Translate(from, to, kind, hs) ==
    LET one(a, h) == Give([a EXCEPT !.tables = Take(a.tables, from, h, Closes(kind, hs))],
                          to, Look(a.tables, from, h, Closes(kind, hs)))
        after[i \in 0..Len(hs)] == IF i = 0 THEN Start ELSE one(after[i - 1], hs[i])
    IN after[Len(hs)]

(* An object the sender named did not arrive, in its place.                *)
Lost(from, to, hs, a) ==
    \E i \in 1..Len(hs) :
        /\ IsValid(handle_table[from], hs[i])
        /\ GetGeneric(a.tables[to], a.new[i]) # GetGeneric(handle_table[from], hs[i])

(* A request or a reply between processes.                                 *)
Pass(from, to, kind, hs) ==
    LET a == Translate(from, to, kind, hs) IN
    /\ a.fits
    /\ handle_table' = a.tables
    /\ observed' = IF Lost(from, to, hs, a) THEN {"lost"} ELSE {}
    /\ UNCHANGED context

(* A request to a service, whose handles have to be valid or null, and the *)
(* reply, with what the service does not drop.                             *)
AskService(p, kind, hs) ==
    LET one(a, h) == [a EXCEPT !.tables = Take(a.tables, p, h, Closes(kind, hs)),
                               !.found = Append(@, Look(a.tables, p, h, Closes(kind, hs)))]
        after[i \in 0..Len(hs)] == IF i = 0 THEN Start ELSE one(after[i - 1], hs[i])
        a == after[Len(hs)] IN
    /\ context = <<>> /\ \A i \in 1..Len(hs) : hs[i] = NullHandle \/ a.found[i] # NullObject
    /\ handle_table' = a.tables /\ context' = a.found
    /\ observed' = {}

ServiceAnswers(p, objects) ==
    LET after[i \in 0..Len(objects)] == IF i = 0 THEN Start ELSE Give(after[i - 1], p, objects[i])
        a == after[Len(objects)] IN
    /\ context # <<>> /\ a.fits
    /\ handle_table' = a.tables /\ context' = <<>>
    /\ observed' = {}

Next ==
    \E p \in Processes :
        \/ CreateObject(p)
        \/ \E h \in Known(p) : DuplicateHandle(p, h) \/ CloseHandle(p, h)
        \/ \E kind \in Descriptors, hs \in Messages(p) :
              \/ \E q \in Processes : Pass(p, q, kind, hs)
              \/ AskService(p, kind, hs)
        \/ \E objects \in {<<>>, context} : ServiceAnswers(p, objects)

Spec == Init /\ [][Next]_vars

(***************************************************************************)
(* Properties.                                                             *)
(***************************************************************************)
Table == [objects : [Slots -> KernelObjects \cup {NullObject}],
          generations : [Slots -> 0..(IF MAX_COUNT > GENERATION_LIMIT
                                      THEN MAX_COUNT ELSE GENERATION_LIMIT)],
          next_generation : 1..(GENERATION_LIMIT - 1),
          next_free_slot : 0..MAX_COUNT,
          recent : Seq([handle : Handle, open : BOOLEAN])]

(* Every table has its type; generation 0 is never used, so that no handle *)
(* is the null handle (handle_table.cpp:46-50).                            *)
TypeOK ==
    /\ \A p \in Processes : handle_table[p] \in Table
    /\ context \in Seq(KernelObjects \cup {NullObject})
    /\ observed \subseteq {"lost"}

(* The list of free slots holds every empty slot once and nothing else:    *)
(* closing and creating in any order loses no slot (handle_table.cpp:37-74). *)
FreeListExact ==
    \A p \in Processes :
        LET t == handle_table[p]
            free == FreeList(t) IN
        /\ {free[i] : i \in 1..Len(free)} = {i \in Slots : t.objects[i] = NullObject}
        /\ \A i, j \in 1..Len(free) : i # j => free[i] # free[j]

(* "To prevent accidental use of a freed Handle whose slot has already     *)
(* been reused" (handle_table.h:33): a handle that was given up stays      *)
(* invalid until all other generations were used.                          *)
StaleHandlesInvalid ==
    \A p \in Processes :
        LET t == handle_table[p] IN
        \A i \in 1..Len(t.recent) : ~t.recent[i].open => ~IsValid(t, t.recent[i].handle)

(* The tables are sound: typed, no slot lost, no stale handle comes alive. *)
TablesSound == TypeOK /\ FreeListExact /\ StaleHandlesInvalid

(* What no step may do: make a handle name another object, or take away a  *)
(* handle that its owner neither closed nor moved (handle_table.h:24-45).  *)
GivenUp(p, h) ==
    \/ CloseHandle(p, h)
    \/ AskService(p, "MoveHandle", <<h>>)
    \/ \E q \in Processes : Pass(p, q, "MoveHandle", <<h>>)

HandlesStable ==
    [][\A p \in Processes, h \in Handle :
          IsValid(handle_table[p], h) =>
              \/ GetGeneric(handle_table'[p], h) = GetGeneric(handle_table[p], h)
              \/ GivenUp(p, h)]_vars

(* The receiver gets each object that the sender could name, for a copy as *)
(* for a move: nothing is lost on the way (ipc.cpp:71-97).                 *)
NothingLostInTransfer == "lost" \notin observed
=============================================================================

--------------------------- MODULE ThreadQueueList ---------------------------
(***************************************************************************)
(* Common::ThreadQueueList (common/thread_queue_list.h): one FIFO per      *)
(* priority level, the levels that were ever used being chained from the   *)
(* best (lowest number) to the worst.  A level that was never prepared is  *)
(* not on the chain, and a walk along the chain does not see it.           *)
(*                                                                         *)
(* A list is a record: linked is the set of levels on the chain, level[p]  *)
(* the FIFO of level p.  link() inserts a level where it belongs, so the   *)
(* chain is sorted and the set of its members determines it.               *)
(*                                                                         *)
(* Operators carry the names of the C++ members.                           *)
(***************************************************************************)
EXTENDS Integers, SequencesExt

(* T(), the null thread a pop returns when it finds nothing.               *)
CONSTANT NoThread

(* The type of the lists.                                                  *)
Lists(priorities, elements) ==
    [linked : SUBSET priorities, level : [priorities -> Seq(elements)]]

EmptyList(priorities) == [linked |-> {}, level |-> [p \in priorities |-> <<>>]]

prepare(list, p) == [list EXCEPT !.linked = @ \cup {p}]

push_back(list, p, e) == [list EXCEPT !.level[p] = Append(@, e)]

push_front(list, p, e) == [list EXCEPT !.level[p] = <<e>> \o @]

(* Faulty: erases the first element, whichever it is.                      *)
EraseHead(s, e) == IF s = <<>> THEN s ELSE Tail(s)

(* The sequence s without its first e.                                     *)
Erase(s, e) ==
    LET at == {i \in 1..Len(s) : s[i] = e}
    IN  IF at = {} THEN s ELSE RemoveAt(s, Min(at))

(* std::remove drops every e of the level; the users of the list never put *)
(* one twice (KernelSync!ReadyQueueExact), so dropping the first is the    *)
(* same.                                                                   *)
remove(list, p, e) == [list EXCEPT !.level[p] = Erase(@, e)]

move(list, e, old, new) == push_back(prepare(remove(list, old, e), new), new, e)

(* Faulty: misses a thread that is alone on its level; takes a level that  *)
(* is no better than bound.                                                *)
OccupiedTwice(list) == {p \in list.linked : Len(list.level[p]) > 1}
OccupiedUpTo(list, bound) == {p \in list.linked : list.level[p] # <<>> /\ p <= bound}

(* The linked levels that hold a thread, and those of them better than     *)
(* bound.                                                                  *)
Occupied(list) == {p \in list.linked : list.level[p] # <<>>}
OccupiedBelow(list, bound) == {p \in Occupied(list) : p < bound}

(* The oldest thread of the best of the given levels, and the list without *)
(* it.  pop_first looks at Occupied, pop_first_better(bound) at            *)
(* OccupiedBelow.                                                          *)
front(list, levels) ==
    IF levels = {} THEN NoThread ELSE Head(list.level[Min(levels)])
pop(list, levels) ==
    IF levels = {} THEN list ELSE [list EXCEPT !.level[Min(levels)] = Tail(@)]

get_first(list) == front(list, Occupied(list))
=============================================================================

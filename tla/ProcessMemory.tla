----------------------------- MODULE ProcessMemory -----------------------------
(***************************************************************************)
(* The memory of processes: FCRAM in two regions (MemoryRegionInfo), heap, *)
(* linear heap, aliases and thread-local storage (Process), blocks of      *)
(* shared memory (SharedMemory), and what the books say of them            *)
(* (memory_used, ResourceLimit).  A call that fails changes nothing and is *)
(* left out, except where the code leaves something behind.                *)
(***************************************************************************)
EXTENDS AddressSpace, FiniteSetsExt

CONSTANTS
    Processes, Blocks, Threads,
    NoProcess, NoBlock, NoThread,
    HEAP_PAGES,         \* bound: of the heap
    APPLICATION_PAGES,  \* bound: of the region that processes allocate from
    BASE_PAGES,         \* bound: of the region of thread-local storage
    TLS_ENTRIES,        \* slots in a page of thread-local storage (8)
    MaxSize,            \* bound: pages per call
    MaxBlocks,          \* bound: blocks counted (one is not, see DestroyProcess)
    Permissions,        \* that memory is allocated with, or protected with
    Misuse              \* what guests do besides giving back what they got

Misuses == {"frees_lent", "unmaps_unpaired", "maps_anywhere", "lends_unready",
            "unmaps_other", "closes_mapped", "ends_lending", "exhausts_base", "loads_short"}

ASSUME PermissionsAssumption == Permissions \subseteq {"Read", "ReadWrite"}
ASSUME MisuseAssumption == Misuse \subseteq Misuses
ASSUME BoundsAssumption ==
    /\ HEAP_PAGES \in Nat /\ APPLICATION_PAGES \in Nat /\ BASE_PAGES \in Nat
    /\ TLS_ENTRIES \in Nat \ {0} /\ MaxSize \in Nat /\ IsFiniteSet(Threads)

APPLICATION == 0..(APPLICATION_PAGES - 1)
BASE == APPLICATION_PAGES..(APPLICATION_PAGES + BASE_PAGES - 1)
FCRAM == APPLICATION \cup BASE

(* The address space: code, heap, shared memory (one page), linear heap    *)
(* (as large as FCRAM), TLS.                                               *)
PROCESS_IMAGE_VADDR == 0
HEAP_VADDR == 1
HEAP_VADDR_END == HEAP_VADDR + HEAP_PAGES
SHARED_MEMORY_VADDR_END == HEAP_VADDR_END + 1
LINEAR_HEAP_VADDR == SHARED_MEMORY_VADDR_END
TLS_AREA_VADDR == LINEAR_HEAP_VADDR + APPLICATION_PAGES + BASE_PAGES

(* There is room for a page of thread-local storage per thread.            *)
ASSUME TlsAssumption == MAX_ADDRESS >= TLS_AREA_VADDR + Cardinality(Threads)

(* What areas, processes, threads and blocks are made of.  The null values *)
(* are none of these.                                                      *)
Area == [base : 0..(MAX_ADDRESS - 1), size : 1..MAX_ADDRESS, backing : FCRAM \cup {Unbacked},
         perms : {"None", "Read", "ReadWrite", "ReadExecute"},
         state : {"Free", "Code", "Private", "Shared", "Continuous", "Aliased", "Alias", "Locked"}]
Process == [status : {"Running", "Exited"}, areas : SUBSET Area, holding_memory : SUBSET FCRAM,
            holding_tls_memory : SUBSET FCRAM, memory_used : Int,
            tls_slots : Seq(SUBSET (0..(TLS_ENTRIES - 1)))]
Thread == [process : Processes, slot : Nat \X Nat]

Block == [at : Nat, backing : Nat, size : Nat]
SharedBlock ==
    [owner_process : Processes \cup {NoProcess}, base_address : Nat, size : Nat,
     holding_memory : SUBSET FCRAM, backing_blocks : Seq(Block)]

ASSUME NullAssumption ==
    NoProcess \notin Processes \cup Process /\ NoThread \notin Thread /\ NoBlock \notin SharedBlock

Sizes == 1..MaxSize
Heap(size) == {v \in HEAP_VADDR..(HEAP_VADDR_END - 1) : v + size <= HEAP_VADDR_END}
LinearHeap(size) == {LINEAR_HEAP_VADDR + f : f \in {g \in APPLICATION : g + size <= APPLICATION_PAGES}}

VARIABLES
    process,        \* per process, its memory, or NoProcess
    free_blocks,    \* the free pages of FCRAM
    limit,          \* what the resource limit of the processes counts
    thread,         \* per thread, its process and its slot, or NoThread
    shared_memory,  \* per block, what it is made of, or NoBlock
    failed          \* an assertion failed, or what follows is undefined

vars == <<process, free_blocks, limit, thread, shared_memory, failed>>

Init ==
    /\ process = [p \in Processes |-> NoProcess]
    /\ free_blocks = FCRAM
    /\ limit = [Commit |-> 0, Thread |-> 0, SharedMemory |-> 0]
    /\ thread = [t \in Threads |-> NoThread]
    /\ shared_memory = [s \in Blocks |-> NoBlock]
    /\ failed = FALSE

Exists(p) == process[p] # NoProcess
Running(p) == Exists(p) /\ process[p].status = "Running"

(***************************************************************************)
(* MemoryRegionInfo.                                                       *)
(***************************************************************************)
(* Faulty: one page too high.                                              *)
HighestPagesOffByOne(S, size) ==
    {f + 1 : f \in CHOOSE H \in SUBSET S :
        Cardinality(H) = size /\ \A f \in H, g \in S \ H : f > g}

(* HeapAllocate: whole blocks from the highest, so the highest free pages. *)
HighestPages(S, size) ==
    CHOOSE H \in SUBSET S :
        Cardinality(H) = size /\ \A f \in H, g \in S \ H : f > g

(* LinearAllocate: the lowest free pages in a row.                         *)
Rows(S, size) == {f \in S : Span(f, size) \subseteq S}
Lowest(S) == CHOOSE f \in S : \A g \in S : f <= g

(* A set of pages as blocks, each at its place in a row of all of them.    *)
BlocksOf(S) ==
    LET starts == Ascending({f \in S : f - 1 \notin S})
        length(f) == CHOOSE n \in 1..Cardinality(S) : Span(f, n) \subseteq S /\ f + n \notin S
    IN [i \in 1..Len(starts) |->
           [at |-> Cardinality({g \in S : g < starts[i]}), backing |-> starts[i],
            size |-> length(starts[i])]]

(* Faulty: the pages are not taken out of the free blocks.                 *)
TakenKept(S) == UNCHANGED <<free_blocks, failed>>

Taken(S) == free_blocks' = free_blocks \ S /\ UNCHANGED failed

(* Free asserts that the pages "must be allocated blocks".                 *)
Free(S) ==
    /\ free_blocks' = free_blocks \cup S
    /\ failed' = (failed \/ S \cap free_blocks # {})

(***************************************************************************)
(* Process, as values of a process.                                        *)
(***************************************************************************)
EmptyProcess ==
    [status |-> "Running", areas |-> EmptySpace, holding_memory |-> {},
     holding_tls_memory |-> {}, memory_used |-> 0, tls_slots |-> <<>>]

WithMemory(P, target, S, state, perms) ==
    [P EXCEPT !.areas = MapBlocks(@, target, BlocksOf(S), state, perms),
              !.holding_memory = @ \cup S,
              !.memory_used = @ + Cardinality(S)]

WithoutMemory(P, target, size, S) ==
    [P EXCEPT !.areas = UnmapRange(@, target, size),
              !.holding_memory = @ \ S,
              !.memory_used = @ - size]

(* The first slot that is free, in a new page if there is none.            *)
TlsSlot(P) ==
    LET free == {n \in 1..Len(P.tls_slots) : Cardinality(P.tls_slots[n]) < TLS_ENTRIES} IN
    IF free = {} THEN <<Len(P.tls_slots) + 1, 0>>
    ELSE <<Lowest(free), Lowest((0..(TLS_ENTRIES - 1)) \ P.tls_slots[Lowest(free)])>>

NeedsTlsPage(P) == TlsSlot(P)[1] > Len(P.tls_slots)

(* AllocateThreadLocalStorage; f is the page of BASE that a new page gets. *)
WithTls(P, f) ==
    LET slot == TlsSlot(P) IN
    IF NeedsTlsPage(P)
    THEN [P EXCEPT !.holding_tls_memory = @ \cup {f},
                   !.memory_used = @ + 1,
                   !.tls_slots = Append(@, {0}),
                   !.areas = MapBackingMemory(@, TLS_AREA_VADDR + Len(P.tls_slots), f, 1, "Locked")]
    ELSE [P EXCEPT !.tls_slots[slot[1]] = @ \cup {slot[2]}]

FreeBase == free_blocks \cap BASE

(***************************************************************************)
(* ControlMemory.                                                          *)
(***************************************************************************)
HeapAllocate(p, target, size, perms) ==
    /\ Running(p) /\ Vacant(process[p].areas, target, size)
    /\ Cardinality(free_blocks \cap APPLICATION) >= size
    /\ LET S == HighestPages(free_blocks \cap APPLICATION, size) IN
          /\ process' = [process EXCEPT ![p] = WithMemory(@, target, S, "Private", perms)]
          /\ Taken(S)
    /\ limit' = [limit EXCEPT !.Commit = @ + size]
    /\ UNCHANGED <<thread, shared_memory>>

(* A guest that is in order frees memory that is not lent or borrowed.     *)
InState(p, target, size, state) ==
    \A v \in Span(target, size) : At(process[p].areas, v).state = state

HeapFree(p, target, size) ==
    /\ Running(p) /\ Occupied(process[p].areas, target, size)
    /\ "frees_lent" \in Misuse \/ InState(p, target, size, "Private")
    /\ LET S == BackingPages(process[p].areas, target, size) IN
          /\ process' = [process EXCEPT ![p] = WithoutMemory(@, target, size, S)]
          /\ Free(S)
    /\ limit' = [limit EXCEPT !.Commit = @ - size]
    /\ UNCHANGED <<thread, shared_memory>>

(* At the address that belongs to the pages; it has to be free.            *)
LinearAllocate(p, size, perms) ==
    /\ Running(p) /\ Rows(free_blocks \cap APPLICATION, size) # {}
    /\ LET f == Lowest(Rows(free_blocks \cap APPLICATION, size))
           target == LINEAR_HEAP_VADDR + f IN
       IF Vacant(process[p].areas, target, size)
       THEN /\ process' = [process EXCEPT ![p] =
                              WithMemory(@, target, Span(f, size), "Continuous", perms)]
            /\ Taken(Span(f, size))
       ELSE failed' = TRUE /\ UNCHANGED <<process, free_blocks>>
    /\ limit' = [limit EXCEPT !.Commit = @ + size]
    /\ UNCHANGED <<thread, shared_memory>>

LinearFree(p, target, size) ==
    /\ Running(p) /\ Occupied(process[p].areas, target, size)
    /\ "frees_lent" \in Misuse \/ InState(p, target, size, "Continuous")
    /\ LET S == Span(target - LINEAR_HEAP_VADDR, size) IN
          /\ process' = [process EXCEPT ![p] = WithoutMemory(@, target, size, S)]
          /\ Free(S)
    /\ limit' = [limit EXCEPT !.Commit = @ - size]
    /\ UNCHANGED <<thread, shared_memory>>

Disjoint(target, source, size) == Span(target, size) \cap Span(source, size) = {}

(* The source is marked, and seen a second time at the target.             *)
Map(p, target, source, size, perms) ==
    /\ Running(p) /\ Disjoint(target, source, size)
    /\ Vacant(process[p].areas, target, size)
    /\ MayChangeState(process[p].areas, source, size, "Private", "ReadWrite")
    /\ LET marked == ChangeMemoryState(process[p].areas, source, size, "Aliased", "ReadWrite") IN
       process' = [process EXCEPT ![p].areas =
           MapBlocks(marked, target, BackingBlocks(marked, source, size), "Alias", perms)]
    /\ UNCHANGED <<free_blocks, limit, thread, shared_memory, failed>>

SameMemory(p, target, source, size) ==
    \A i \in 0..(size - 1) : At(process[p].areas, target + i).backing
                             = At(process[p].areas, source + i).backing

(* Nothing checks that the two belong together; the second step may fail   *)
(* when the first is done.                                                 *)
Unmap(p, target, source, size, perms) ==
    /\ Running(p) /\ Disjoint(target, source, size)
    /\ Occupied(process[p].areas, target, size)
    /\ \/ "unmaps_unpaired" \in Misuse
       \/ SameMemory(p, target, source, size) /\ InState(p, target, size, "Alias")
    /\ LET unmapped == UnmapRange(process[p].areas, target, size) IN
       process' = [process EXCEPT ![p].areas =
           IF MayChangeState(unmapped, source, size, "Aliased", "None")
           THEN ChangeMemoryState(unmapped, source, size, "Private", perms) ELSE unmapped]
    /\ UNCHANGED <<free_blocks, limit, thread, shared_memory, failed>>

Protect(p, target, size, perms) ==
    /\ Running(p) /\ Occupied(process[p].areas, target, size)
    /\ process' = [process EXCEPT ![p].areas = ReprotectRange(@, target, size, perms)]
    /\ UNCHANGED <<free_blocks, limit, thread, shared_memory, failed>>

(***************************************************************************)
(* Shared memory.                                                          *)
(***************************************************************************)
Automatic(s) == shared_memory[s].base_address = 0

(* From the region BASE; the emulator stops when it is full (left out).    *)
CreateAutomatic(p, s, size) ==
    /\ Running(p) /\ shared_memory[s] = NoBlock /\ limit.SharedMemory < MaxBlocks
    /\ Rows(FreeBase, size) # {}
    /\ LET f == Lowest(Rows(FreeBase, size)) IN
          /\ Taken(Span(f, size))
          /\ shared_memory' = [shared_memory EXCEPT ![s] =
                [owner_process |-> p, base_address |-> 0, size |-> size,
                 holding_memory |-> Span(f, size), backing_blocks |-> BlocksOf(Span(f, size))]]
    /\ process' = [process EXCEPT ![p].memory_used = @ + size]
    /\ limit' = [limit EXCEPT !.SharedMemory = @ + 1]
    /\ UNCHANGED thread

(* Of memory that the owner has.  When it is not in order the new block is *)
(* destroyed, before its address is set: as if it had been automatic.      *)
CreateFromHeap(p, s, address, size, perms) ==
    /\ Running(p) /\ shared_memory[s] = NoBlock /\ limit.SharedMemory < MaxBlocks
    /\ IF MayChangeState(process[p].areas, address, size, "Private", "ReadWrite")
       THEN LET lent == ChangeMemoryState(process[p].areas, address, size, "Locked", perms) IN
            /\ process' = [process EXCEPT ![p].areas = lent]
            /\ shared_memory' = [shared_memory EXCEPT ![s] =
                  [owner_process |-> p, base_address |-> address, size |-> size,
                   holding_memory |-> {}, backing_blocks |-> BackingBlocks(lent, address, size)]]
            /\ limit' = [limit EXCEPT !.SharedMemory = @ + 1]
       ELSE /\ "lends_unready" \in Misuse
            /\ process' = [process EXCEPT ![p].memory_used = @ - size]
            /\ UNCHANGED <<shared_memory, limit>>
    /\ UNCHANGED <<free_blocks, thread, failed>>

(* An automatic block may be mapped at the address that belongs to it; that *)
(* another is mapped at the null page is left out.                         *)
MapBlock(p, s, address, perms) ==
    /\ Running(p) /\ shared_memory[s] # NoBlock
    /\ LET block  == shared_memory[s]
           target == IF Automatic(s) /\ address = 0
                     THEN LINEAR_HEAP_VADDR + block.backing_blocks[1].backing ELSE address IN
          /\ address # 0 => address + block.size < SHARED_MEMORY_VADDR_END
          /\ target # 0 /\ Vacant(process[p].areas, target, block.size)
          /\ process' = [process EXCEPT ![p].areas =
                            MapBlocks(@, target, block.backing_blocks, "Shared", perms)]
    /\ UNCHANGED <<free_blocks, limit, thread, shared_memory, failed>>

(* Whatever is there; a guest in order unmaps what was mapped.             *)
UnmapBlock(p, s, address) ==
    /\ Running(p) /\ shared_memory[s] # NoBlock
    /\ Occupied(process[p].areas, address, shared_memory[s].size)
    /\ "unmaps_other" \in Misuse \/ InState(p, address, shared_memory[s].size, "Shared")
    /\ process' = [process EXCEPT ![p].areas = UnmapRange(@, address, shared_memory[s].size)]
    /\ UNCHANGED <<free_blocks, limit, thread, shared_memory, failed>>

PagesOf(block) ==
    UNION {Span(b.backing, b.size) : b \in {block.backing_blocks[i] :
                                                i \in 1..Len(block.backing_blocks)}}
Sees(p, S, state) ==
    /\ Exists(p)
    /\ \E v \in 0..(MAX_ADDRESS - 1) : At(process[p].areas, v).backing \in S
                                       /\ At(process[p].areas, v).state = state
MappedSomewhere(s) == \E p \in Processes : Sees(p, PagesOf(shared_memory[s]), "Shared")

(* What the owner gets back: its memory, or the size of its share.         *)
Returned(P, block) ==
    IF block.base_address = 0
    THEN [P EXCEPT !.memory_used = @ - block.size]
    ELSE IF MayChangeState(P.areas, block.base_address, block.size, "Locked", "None")
    THEN [P EXCEPT !.areas = ChangeMemoryState(@, block.base_address, block.size,
                                               "Private", "ReadWrite")]
    ELSE P

(* The last handle is closed.  Mappings of the block stay.                 *)
DestroyBlock(s) ==
    LET block == shared_memory[s]
        p     == block.owner_process IN
    /\ block # NoBlock
    /\ "closes_mapped" \in Misuse \/ ~MappedSomewhere(s)
    /\ shared_memory' = [shared_memory EXCEPT ![s] = NoBlock]
    /\ Free(block.holding_memory)
    /\ limit' = IF p = NoProcess THEN limit ELSE [limit EXCEPT !.SharedMemory = @ - 1]
    /\ process' = IF p = NoProcess THEN process
                  ELSE [process EXCEPT ![p] = Returned(@, block)]
    /\ UNCHANGED thread

(***************************************************************************)
(* Processes and threads.                                                  *)
(***************************************************************************)
(* One page stands for the segments of the code and the stack.  A process  *)
(* that is loaded when there is no memory for them runs without them.      *)
Run(p, t) ==
    /\ ~Exists(p) /\ thread[t] = NoThread /\ FreeBase # {}
    /\ "loads_short" \in Misuse \/ free_blocks \cap APPLICATION # {}
    /\ LET A == free_blocks \cap APPLICATION
           S == IF A = {} THEN {} ELSE HighestPages(A, 1)
           f == Lowest(FreeBase)
           loaded == IF S = {} THEN EmptyProcess
                     ELSE WithMemory(EmptyProcess, PROCESS_IMAGE_VADDR, S, "Code", "ReadExecute") IN
          /\ process' = [process EXCEPT ![p] = WithTls(loaded, f)]
          /\ thread' = [thread EXCEPT ![t] = [process |-> p, slot |-> TlsSlot(loaded)]]
          /\ Taken(S \cup {f})
          /\ limit' = [limit EXCEPT !.Commit = @ + Cardinality(S), !.Thread = @ + 1]
    /\ UNCHANGED shared_memory

(* Without a slot the thread exists nevertheless, and is counted.          *)
CreateThread(p, t) ==
    /\ Running(p) /\ thread[t] = NoThread
    /\ IF NeedsTlsPage(process[p]) /\ FreeBase = {}
       THEN /\ "exhausts_base" \in Misuse
            /\ thread' = [thread EXCEPT ![t] = [process |-> p, slot |-> <<0, 0>>]]
            /\ UNCHANGED <<process, free_blocks, failed>>
       ELSE LET f == IF NeedsTlsPage(process[p]) THEN {Lowest(FreeBase)} ELSE {} IN
            /\ process' = [process EXCEPT ![p] = WithTls(@, IF f = {} THEN 0 ELSE Lowest(f))]
            /\ thread' = [thread EXCEPT ![t] = [process |-> p, slot |-> TlsSlot(process[p])]]
            /\ Taken(f)
    /\ limit' = [limit EXCEPT !.Thread = @ + 1]
    /\ UNCHANGED shared_memory

ThreadsOf(p) == {t \in Threads : thread[t] # NoThread /\ thread[t].process = p}

(* Thread::Stop, of a set of threads of a process.                         *)
SlotsReset(P, S) ==
    [P EXCEPT !.tls_slots =
        [n \in 1..Len(@) |-> @[n] \ {thread[t].slot[2] : t \in {u \in S : thread[u].slot[1] = n}}]]

Stop(p, S, status) ==
    /\ process' = [process EXCEPT ![p] = [SlotsReset(@, S) EXCEPT !.status = status]]
    /\ thread' = [t \in Threads |-> IF t \in S THEN NoThread ELSE thread[t]]
    /\ limit' = [limit EXCEPT !.Thread = @ - Cardinality(S)]
    /\ failed' = (failed \/ \E t \in S : thread[t].slot[1] = 0)
    /\ UNCHANGED <<free_blocks, shared_memory>>

ExitThread(p, t) == Running(p) /\ t \in ThreadsOf(p) /\ Stop(p, {t}, "Running")

TerminateProcess(p) == Running(p) /\ Stop(p, ThreadsOf(p), "Exited")

(* The last handle to an ended process is closed; its own handles go, with *)
(* the blocks that nobody else names.  Those that it made do not find it   *)
(* any more, so that the limit counts them for ever; what another process  *)
(* made is returned to that one (bound: one block to each).                *)
Returning(q, closed) == {s \in closed : shared_memory[s].owner_process = q}
Settled(q, closed) ==
    IF Returning(q, closed) = {} THEN process[q]
    ELSE Returned(process[q], shared_memory[CHOOSE s \in Returning(q, closed) : TRUE])

Lends(p, others) ==
    \E s \in others : /\ shared_memory[s] # NoBlock /\ ~Automatic(s)
                      /\ shared_memory[s].owner_process = p

DestroyProcess(p, closed) ==
    LET P == process[p]
        S == P.holding_memory \cup P.holding_tls_memory
        gone == UNION {shared_memory[s].holding_memory : s \in closed} IN
    /\ Exists(p) /\ P.status = "Exited"
    /\ \A s \in closed : shared_memory[s] # NoBlock
    /\ \A q \in Processes \ {p} : \A s, u \in Returning(q, closed) : s = u
    /\ "ends_lending" \in Misuse \/ ~Lends(p, Blocks \ closed)
    /\ "closes_mapped" \in Misuse
       \/ \A s \in closed, q \in Processes \ {p} : ~Sees(q, PagesOf(shared_memory[s]), "Shared")
    /\ Free(S \cup gone)
    /\ process' = [q \in Processes |-> IF q = p THEN NoProcess ELSE Settled(q, closed)]
    /\ limit' = [limit EXCEPT !.Commit = @ - Cardinality(P.holding_memory),
                              !.SharedMemory = @ - Cardinality({s \in closed :
                                  shared_memory[s].owner_process \notin {p, NoProcess}})]
    /\ shared_memory' = [s \in Blocks |->
          IF s \in closed THEN NoBlock
          ELSE IF shared_memory[s] # NoBlock /\ shared_memory[s].owner_process = p
          THEN [shared_memory[s] EXCEPT !.owner_process = NoProcess] ELSE shared_memory[s]]
    /\ UNCHANGED thread

(* A well-behaved guest makes aliases in the heap; nothing checks it.      *)
Targets(size) ==
    IF "maps_anywhere" \in Misuse THEN Heap(size) \cup LinearHeap(size) ELSE Heap(size)

Next ==
    \/ \E p \in Processes, size \in Sizes :
          \/ \E v \in Heap(size), perms \in Permissions :
                HeapAllocate(p, v, size, perms) \/ Protect(p, v, size, perms)
          \/ \E v \in Heap(size) :
                \/ HeapFree(p, v, size)
                \/ \E s \in Blocks : CreateFromHeap(p, s, v, size, "ReadWrite")
                \/ \E w \in Targets(size) :
                      Map(p, w, v, size, "ReadWrite") \/ Unmap(p, w, v, size, "ReadWrite")
          \/ LinearAllocate(p, size, "ReadWrite")
          \/ \E v \in LinearHeap(size) : LinearFree(p, v, size)
          \/ \E s \in Blocks : CreateAutomatic(p, s, size)
    \/ \E p \in Processes, s \in Blocks :
          \/ \E v \in Heap(1) \cup {0} : MapBlock(p, s, v, "ReadWrite")
          \/ \E v \in Heap(1) : UnmapBlock(p, s, v)
    \/ \E s \in Blocks : DestroyBlock(s)
    \/ \E p \in Processes :
          \/ \E t \in Threads : Run(p, t) \/ CreateThread(p, t) \/ ExitThread(p, t)
          \/ TerminateProcess(p)
          \/ \E closed \in SUBSET Blocks : DestroyProcess(p, closed)

Spec == Init /\ [][Next]_vars

(***************************************************************************)
(* Properties.                                                             *)
(***************************************************************************)
Live == {p \in Processes : Exists(p)}
LiveBlocks == {s \in Blocks : shared_memory[s] # NoBlock}

(* Every variable has its type, and no count is below zero.                *)
TypeOK ==
    /\ free_blocks \subseteq FCRAM /\ failed \in BOOLEAN
    /\ limit \in [{"Commit", "Thread", "SharedMemory"} -> Nat]
    /\ thread \in [Threads -> Thread \cup {NoThread}]
    /\ shared_memory \in [Blocks -> SharedBlock \cup {NoBlock}]
    /\ \A p \in Live :
          /\ process[p] \in Process /\ process[p].memory_used \in Nat
          /\ process[p].holding_memory \subseteq APPLICATION
          /\ process[p].holding_tls_memory \subseteq BASE

(* "The invariant elem.base + elem.size == next.base is preserved"         *)
(* (vm_manager.h:108): splitting and merging in any order leaves every page *)
(* in one area, and memory that is free on both sides of a bound in one    *)
(* area, so that Vacant finds all room that there is (vm_manager.cpp:271). *)
AreasTile ==
    \A p \in Live :
        LET areas == process[p].areas IN
        /\ UNION {Span(a.base, a.size) : a \in areas} = 0..(MAX_ADDRESS - 1)
        /\ \A a, b \in areas : a # b => Span(a.base, a.size) \cap Span(b.base, b.size) = {}
        /\ \A a, b \in areas : IsFree(a) => ~CanBeMergedWith(a, b)

(* "No two similar and adjacent regions exist that have not been merged"   *)
(* (vm_manager.h:109), those that are backed included.                     *)
MergeableAreMerged ==
    \A p \in Live : \A a, b \in process[p].areas : ~CanBeMergedWith(a, b)

(* Each page of FCRAM is free or held by one process or block, through any *)
(* order of allocating, lending, freeing and ending (memory.cpp:181-269).  *)
Holdings == [p \in Live |-> process[p].holding_memory \cup process[p].holding_tls_memory]
BlockHoldings == [s \in LiveBlocks |-> shared_memory[s].holding_memory]
FcramConserved ==
    \A f \in FCRAM :
        (IF f \in free_blocks THEN 1 ELSE 0) + Cardinality({p \in Live : f \in Holdings[p]})
            + Cardinality({s \in LiveBlocks : f \in BlockHoldings[s]}) = 1

(* The books agree with what is held: of each process, its own pages and   *)
(* those of its automatic blocks; and the limit that all processes share   *)
(* (process.cpp:325-327, 354-355, 600-620).                                *)
Charged(p) ==
    Holdings[p] \cup UNION {BlockHoldings[s] : s \in {b \in LiveBlocks :
                               Automatic(b) /\ shared_memory[b].owner_process = p}}
BooksBalance ==
    /\ \A p \in Live : process[p].memory_used = Cardinality(Charged(p))
    /\ limit.Commit = Cardinality(UNION {process[p].holding_memory : p \in Live})
    /\ limit.Thread = Cardinality({t \in Threads : thread[t] # NoThread})

(* No two threads share a slot, and the slots in use are those of threads  *)
(* (process.cpp:429-497, thread.cpp:112-119).                              *)
TlsSlotsExact ==
    \A p \in Live :
        /\ \A t, u \in ThreadsOf(p) : t # u => thread[t].slot # thread[u].slot
        /\ {thread[t].slot : t \in ThreadsOf(p)} =
              UNION {{<<n, i>> : i \in process[p].tls_slots[n]} : n \in 1..Len(process[p].tls_slots)}

(* Pages that are freed were allocated, and linear memory finds its place  *)
(* (the assertions of memory.cpp:266 and process.cpp:396).                 *)
NoAssertionFails == ~failed

(* What the emulator keeps count of agrees with what there is.             *)
Accounting == FcramConserved /\ BooksBalance /\ TlsSlotsExact /\ NoAssertionFails

(* What each call promises, page by page.                                  *)
Owned == UNION ({Holdings[p] \X {p} : p \in Live}
                \cup {BlockHoldings[s] \X {s} : s \in LiveBlocks})
Mapped(p) ==
    IF ~Exists(p) THEN {}
    ELSE UNION {{<<v, BackingOf(a, v)>> : v \in Span(a.base, a.size)} :
                   a \in {b \in process[p].areas : ~IsFree(b)}}

PageMapSpec == INSTANCE PageMap WITH
    Holders <- Processes \cup Blocks,
    owned <- Owned, mapped <- [p \in Processes |-> Mapped(p)]
ImplementsPageMap == PageMapSpec!Spec
=============================================================================

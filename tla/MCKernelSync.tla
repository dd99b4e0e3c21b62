----------------------------- MODULE MCKernelSync -----------------------------
(* Constants of the TLC runs of KernelSync.                                *)
EXTENDS KernelSync

CONSTANTS t1, t2, t3, p1, p2, m1, m2, s1, e1, e2, k1, a1, x1

(* One core, one process.                                                  *)
OneCore == [t \in Threads |-> 0]
OneProcess == [t \in Threads |-> p1]
MainT1 == [p \in Processes |-> t1]

(* t1 is the best, t3 the worst.                                           *)
Descending == t1 :> 0 @@ t2 :> 1 @@ t3 :> 2

(* A function whose domain is a kind of object the instance lacks.         *)
Nothing == <<>>

(* Handle lists: one object, or also two at once, or the end of t2.        *)
Singles == {<<o>> : o \in Objects \ Threads}
SemaphoreEvent == Singles \cup {<<s1, e1>>}
MutexJoin == {<<m1>>, <<t2, m1>>}

OneShot == [x \in Signals |-> "OneShot"]
Pulse == [x \in Signals |-> "Pulse"]
OneSlot == [s \in Semaphores |-> 1]

(* What ArbitrateAddress may signal: all the waiters, one.                 *)
AllOrOne == {-1, 1}

TwoProcesses == t1 :> p1 @@ t2 :> p1 @@ t3 :> p2
MainT1T3 == p1 :> t1 @@ p2 :> t3

(* One thread alone on core 1.                                             *)
T2OnCore1 == t1 :> 0 @@ t2 :> 1 @@ t3 :> 0
T3OnCore1 == t1 :> 0 @@ t2 :> 0 @@ t3 :> 1
=============================================================================

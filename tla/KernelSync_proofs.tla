-------------------------- MODULE KernelSync_proofs --------------------------
(***************************************************************************)
(* Theorems about KernelSync, for every set of threads and objects, every  *)
(* number of cores and every value of the other constants that satisfies   *)
(* the assumptions of KernelCore and KernelSync: types, holders and lock   *)
(* counts, then the stack of kernel code, then the cores and the threads   *)
(* they run.                                                               *)
(***************************************************************************)
EXTENDS KernelInvariant, SequenceTheorems, FiniteSetTheorems, WellFoundedInduction, TLAPS

(***************************************************************************)
(* FIRST PART: types, holders and lock counts.                             *)
(***************************************************************************)

(***************************************************************************)
(* Facts about the operators of ThreadQueueList: what each returns.        *)
(***************************************************************************)
(* A nonempty set of naturals has a least element, which Min picks: the    *)
(* smallest of the intervals 0..n belongs to the least n.                  *)
LEMMA MinNat ==
    ASSUME NEW S, S \subseteq Nat, S # {}
    PROVE  /\ Min(S) \in S
           /\ \A y \in S : Min(S) <= y
<1> DEFINE T == {0..n : n \in S}
<1>1. T \subseteq FiniteSubsetsOf(Nat) /\ T # {}
  <2>1. \A n \in S : 0..n \in SUBSET Nat /\ IsFiniteSet(0..n)
    BY FS_Interval
  <2> QED
    BY <2>1 DEF FiniteSubsetsOf
<1>2. PICK X \in T : \A Y \in T : ~ (<<Y, X>> \in StrictSubsetOrdering(Nat))
  <2> HIDE DEF T
  <2> QED
    BY <1>1, FS_StrictSubsetOrderingWellFounded, WFMin
<1>3. PICK x \in S : X = 0..x
  OBVIOUS
<1>4. \A y \in S : x <= y
  <2> SUFFICES ASSUME NEW y \in S, y < x
               PROVE  FALSE
    OBVIOUS
  <2>1. 0..y \subseteq 0..x /\ 0..y # 0..x
    <3>1. x \in 0..x /\ x \notin 0..y
      OBVIOUS
    <3> QED
      BY <3>1
  <2>2. 0..y \in T /\ 0..y \subseteq Nat /\ 0..x \subseteq Nat
    OBVIOUS
  <2>3. <<0..y, 0..x>> \in StrictSubsetOrdering(Nat)
    BY <2>1, <2>2, Zenon DEF StrictSubsetOrdering
  <2> QED
    BY <1>2, <1>3, <2>2, <2>3
<1> QED
  BY <1>4 DEF Min

(* The greater of two integers is one of them.                             *)
LEMMA MaxPair ==
    ASSUME NEW a \in Int, NEW b \in Int
    PROVE  Max({a, b}) \in {a, b}
<1>1. \E x \in {a, b} : \A y \in {a, b} : x >= y
  OBVIOUS
<1> QED
  BY <1>1 DEF Max

(* Removing the i-th element leaves a sequence over the same set.          *)
LEMMA RemoveAtType ==
    ASSUME NEW S, NEW s \in Seq(S), NEW i \in 1..Len(s)
    PROVE  RemoveAt(s, i) \in Seq(S)
<1>1. SubSeq(s, 1, i - 1) \in Seq(S)
  <2>1. \A j \in 1..(i - 1) : s[j] \in S
    OBVIOUS
  <2> QED
    BY <2>1, SubSeqProperties
<1>2. SubSeq(s, i + 1, Len(s)) \in Seq(S)
  <2>1. \A j \in (i + 1)..Len(s) : s[j] \in S
    OBVIOUS
  <2> QED
    BY <2>1, SubSeqProperties
<1> QED
  BY <1>1, <1>2, ConcatProperties DEF RemoveAt

(* So does removing an element by value.                                   *)
LEMMA EraseType ==
    ASSUME NEW S, NEW s \in Seq(S), NEW e
    PROVE  Erase(s, e) \in Seq(S)
<1> DEFINE at == {i \in 1..Len(s) : s[i] = e}
<1>1. CASE at = {}
  BY <1>1 DEF Erase
<1>2. CASE at # {}
  <2>1. Min(at) \in 1..Len(s)
    <3>1. at \subseteq 1..Len(s) /\ at \subseteq Nat
      OBVIOUS
    <3> HIDE DEF at
    <3> QED
      BY <1>2, <3>1, MinNat
  <2> HIDE DEF at
  <2>2. RemoveAt(s, Min(at)) \in Seq(S)
    BY <2>1, RemoveAtType
  <2> QED
    BY <1>2, <2>2 DEF Erase, at
<1> QED
  BY <1>1, <1>2

(* The operations that take a level and an element keep the type.          *)
LEMMA ListOperationsType ==
    ASSUME NEW P, NEW S, NEW list \in Lists(P, S), NEW p \in P, NEW q \in P, NEW e \in S
    PROVE  /\ prepare(list, p) \in Lists(P, S)
           /\ push_back(list, p, e) \in Lists(P, S)
           /\ push_front(list, p, e) \in Lists(P, S)
           /\ remove(list, p, e) \in Lists(P, S)
           /\ move(list, e, p, q) \in Lists(P, S)
<1>1. \A l \in Lists(P, S), r \in P : prepare(l, r) \in Lists(P, S)
  BY DEF prepare, Lists
<1>2. \A l \in Lists(P, S), r \in P : push_back(l, r, e) \in Lists(P, S)
  <2> SUFFICES ASSUME NEW l \in Lists(P, S), NEW r \in P
               PROVE  push_back(l, r, e) \in Lists(P, S)
    OBVIOUS
  <2>1. Append(l.level[r], e) \in Seq(S)
    BY AppendProperties DEF Lists
  <2> QED
    BY <2>1 DEF push_back, Lists
<1>3. push_front(list, p, e) \in Lists(P, S)
  <2>1. <<e>> \o list.level[p] \in Seq(S)
    BY ConcatProperties DEF Lists
  <2> QED
    BY <2>1 DEF push_front, Lists
<1>4. remove(list, p, e) \in Lists(P, S)
  <2>1. Erase(list.level[p], e) \in Seq(S)
    BY EraseType DEF Lists
  <2> QED
    BY <2>1 DEF remove, Lists
<1> QED
  BY <1>1, <1>2, <1>3, <1>4 DEF move

(* The head of the best of some occupied levels is an element of the list, *)
(* and the list without it keeps its type.                                 *)
LEMMA PopType ==
    ASSUME NEW P, P \subseteq Nat, NEW S, NEW list \in Lists(P, S),
           NEW levels, levels \subseteq Occupied(list)
    PROVE  /\ levels # {} => front(list, levels) \in S
           /\ levels = {} => front(list, levels) = NoThread
           /\ pop(list, levels) \in Lists(P, S)
<1>1. CASE levels = {}
  BY <1>1 DEF front, pop
<1>2. CASE levels # {}
  <2> DEFINE p == Min(levels)
  <2>1. p \in levels
    BY <1>2, MinNat DEF Occupied, Lists
  <2>2. p \in P /\ list.level[p] \in Seq(S) /\ list.level[p] # <<>>
    BY <2>1 DEF Occupied, Lists
  <2>3. Head(list.level[p]) \in S /\ Tail(list.level[p]) \in Seq(S)
    BY <2>2, HeadTailProperties
  <2> HIDE DEF p
  <2>4. pop(list, levels) = [list EXCEPT !.level[p] = Tail(@)]
    BY <1>2 DEF pop, p
  <2>5. pop(list, levels) \in Lists(P, S)
    BY <2>2, <2>3, <2>4 DEF Lists
  <2> QED
    BY <1>2, <2>3, <2>5 DEF front, p
<1> QED
  BY <1>1, <1>2

(***************************************************************************)
(* What the levels hold.                                                   *)
(***************************************************************************)
LEMMA RangeTail ==
    ASSUME NEW S, NEW s \in Seq(S), s # <<>>
    PROVE  /\ Range(s) = {Head(s)} \cup Range(Tail(s))
           /\ IsInjective(s) => IsInjective(Tail(s)) /\ Range(Tail(s)) = Range(s) \ {Head(s)}
<1>1. /\ Tail(s) \in Seq(S) /\ Head(s) = s[1] /\ Len(s) \in Nat \ {0}
      /\ Len(Tail(s)) = Len(s) - 1
      /\ \A i \in 1..Len(Tail(s)) : Tail(s)[i] = s[i + 1]
      /\ DOMAIN s = 1..Len(s) /\ DOMAIN Tail(s) = 1..Len(Tail(s))
  BY HeadTailProperties, EmptySeq, LenProperties
<1>2. /\ Range(s) = {s[i] : i \in 1..Len(s)}
      /\ Range(Tail(s)) = {Tail(s)[i] : i \in 1..Len(Tail(s))}
  BY <1>1, RangeEquality
<1>3. \A i \in 1..Len(s) : i = 1 \/ (i - 1 \in 1..Len(Tail(s)) /\ s[i] = Tail(s)[i - 1])
  BY <1>1
<1>4. \A i \in 1..Len(Tail(s)) : i + 1 \in 1..Len(s) /\ i + 1 # 1
  BY <1>1
<1>5. 1 \in 1..Len(s)
  BY <1>1
<1>6. Range(s) \subseteq {Head(s)} \cup Range(Tail(s))
  BY <1>1, <1>2, <1>3
<1>7. {Head(s)} \cup Range(Tail(s)) \subseteq Range(s)
  BY <1>1, <1>2, <1>4, <1>5
<1>8. ASSUME IsInjective(s)
      PROVE  IsInjective(Tail(s)) /\ Head(s) \notin Range(Tail(s))
  <2>1. \A i, j \in 1..Len(s) : s[i] = s[j] => i = j
    BY <1>1, <1>8 DEF IsInjective
  <2>2. \A i, j \in 1..Len(Tail(s)) : Tail(s)[i] = Tail(s)[j] => i = j
    <3> SUFFICES ASSUME NEW i \in 1..Len(Tail(s)), NEW j \in 1..Len(Tail(s)),
                        Tail(s)[i] = Tail(s)[j]
                 PROVE  i = j
      OBVIOUS
    <3>1. i + 1 = j + 1
      BY <1>1, <1>4, <2>1
    <3> QED
      BY <3>1
  <2>3. \A i \in 1..Len(Tail(s)) : Tail(s)[i] # Head(s)
    BY <1>1, <1>4, <1>5, <2>1
  <2> QED
    BY <1>1, <1>2, <2>2, <2>3 DEF IsInjective
<1> QED
  BY <1>6, <1>7, <1>8

LEMMA RangeAppend ==
    ASSUME NEW S, NEW s \in Seq(S), NEW e \in S
    PROVE  /\ Range(Append(s, e)) = Range(s) \cup {e}
           /\ IsInjective(s) /\ e \notin Range(s) => IsInjective(Append(s, e))
<1>1. /\ Append(s, e) \in Seq(S) /\ Len(Append(s, e)) = Len(s) + 1 /\ Len(s) \in Nat
      /\ \A i \in 1..Len(s) : Append(s, e)[i] = s[i]
      /\ Append(s, e)[Len(s) + 1] = e
      /\ DOMAIN s = 1..Len(s) /\ DOMAIN Append(s, e) = 1..(Len(s) + 1)
  BY AppendProperties, LenProperties
<1>2. /\ Range(s) = {s[i] : i \in 1..Len(s)}
      /\ Range(Append(s, e)) = {Append(s, e)[i] : i \in 1..(Len(s) + 1)}
  BY <1>1, RangeEquality
<1>3. \A i \in 1..(Len(s) + 1) : i \in 1..Len(s) \/ i = Len(s) + 1
  BY <1>1
<1>4. \A i \in 1..Len(s) : i \in 1..(Len(s) + 1)
  BY <1>1
<1>5. Len(s) + 1 \in 1..(Len(s) + 1)
  BY <1>1
<1>6. Range(Append(s, e)) \subseteq Range(s) \cup {e}
  BY <1>1, <1>2, <1>3
<1>7. Range(s) \cup {e} \subseteq Range(Append(s, e))
  BY <1>1, <1>2, <1>4, <1>5
<1>8. ASSUME IsInjective(s), e \notin Range(s)
      PROVE  IsInjective(Append(s, e))
  <2>1. \A i, j \in 1..Len(s) : s[i] = s[j] => i = j
    BY <1>1, <1>8 DEF IsInjective
  <2>2. \A i \in 1..Len(s) : s[i] # e
    BY <1>2, <1>8
  <2>3. \A i, j \in 1..(Len(s) + 1) : Append(s, e)[i] = Append(s, e)[j] => i = j
    BY <1>1, <1>3, <2>1, <2>2
  <2> QED
    BY <1>1, <2>3 DEF IsInjective
<1> QED
  BY <1>6, <1>7, <1>8

LEMMA RangePushFront ==
    ASSUME NEW S, NEW s \in Seq(S), NEW e \in S
    PROVE  /\ Range(<<e>> \o s) = Range(s) \cup {e}
           /\ IsInjective(s) /\ e \notin Range(s) => IsInjective(<<e>> \o s)
<1>1. <<e>> \in Seq(S) /\ Len(<<e>>) = 1 /\ <<e>>[1] = e
  OBVIOUS
<1>2. /\ <<e>> \o s \in Seq(S) /\ Len(<<e>> \o s) = Len(s) + 1 /\ Len(s) \in Nat
      /\ \A i \in 1..(Len(s) + 1) : (<<e>> \o s)[i] = IF i <= 1 THEN <<e>>[i] ELSE s[i - 1]
      /\ DOMAIN s = 1..Len(s) /\ DOMAIN (<<e>> \o s) = 1..(Len(s) + 1)
  BY <1>1, ConcatProperties, LenProperties
<1>3. Range(<<e>> \o s) = Range(<<e>>) \cup Range(s)
  BY <1>1, RangeConcatenation
<1>4. Range(<<e>>) = {e}
  BY DEF Range
<1>5. ASSUME IsInjective(s), e \notin Range(s)
      PROVE  IsInjective(<<e>> \o s)
  <2>1. \A i, j \in 1..Len(s) : s[i] = s[j] => i = j
    BY <1>2, <1>5 DEF IsInjective
  <2>2. \A i \in 1..Len(s) : s[i] # e
    BY <1>5, RangeEquality
  <2>3. \A i \in 1..(Len(s) + 1) : i = 1 \/ (i - 1 \in 1..Len(s) /\ ~ (i <= 1))
    BY <1>2
  <2>4. ASSUME NEW i \in 1..(Len(s) + 1), NEW j \in 1..(Len(s) + 1),
               (<<e>> \o s)[i] = (<<e>> \o s)[j]
        PROVE  i = j
    <3>1. CASE i = 1 /\ j # 1
      BY <1>1, <1>2, <2>2, <2>3, <2>4, <3>1
    <3>2. CASE i # 1 /\ j = 1
      BY <1>1, <1>2, <2>2, <2>3, <2>4, <3>2
    <3>3. CASE i # 1 /\ j # 1
      <4>1. s[i - 1] = s[j - 1] /\ i - 1 \in 1..Len(s) /\ j - 1 \in 1..Len(s)
        BY <1>2, <2>3, <2>4, <3>3
      <4>2. i - 1 = j - 1
        BY <2>1, <4>1
      <4> QED
        BY <4>2
    <3> QED
      BY <3>1, <3>2, <3>3
  <2> QED
    BY <1>2, <2>4 DEF IsInjective
<1> QED
  BY <1>3, <1>4, <1>5

(* Removing the k-th element leaves the others.                            *)
LEMMA RangeRemoveAt ==
    ASSUME NEW S, NEW s \in Seq(S), NEW k \in 1..Len(s)
    PROVE  /\ Range(RemoveAt(s, k)) = {s[i] : i \in (1..Len(s)) \ {k}}
           /\ IsInjective(s) => /\ IsInjective(RemoveAt(s, k))
                                /\ Range(RemoveAt(s, k)) = Range(s) \ {s[k]}
<1> DEFINE a == SubSeq(s, 1, k - 1)
           b == SubSeq(s, k + 1, Len(s))
           r == RemoveAt(s, k)
<1>1. Len(s) \in Nat /\ DOMAIN s = 1..Len(s) /\ k \in Nat /\ \A i \in 1..Len(s) : s[i] \in S
  BY LenProperties
<1>2. /\ a \in Seq(S) /\ Len(a) = k - 1
      /\ \A i \in 1..(k - 1) : a[i] = s[i]
  <2>1. \A i \in 1..(k - 1) : s[i] \in S
    BY <1>1
  <2>2. /\ a \in Seq(S) /\ Len(a) = IF 1 <= k - 1 THEN (k - 1) - 1 + 1 ELSE 0
        /\ \A i \in 1..((k - 1) - 1 + 1) : a[i] = s[1 + i - 1]
    BY <1>1, <2>1, SubSeqProperties
  <2> HIDE DEF a
  <2> QED
    BY <1>1, <2>2
<1>3. /\ b \in Seq(S) /\ Len(b) = Len(s) - k
      /\ \A i \in 1..(Len(s) - k) : b[i] = s[k + i]
  <2>1. \A i \in (k + 1)..Len(s) : s[i] \in S
    BY <1>1
  <2>2. /\ b \in Seq(S) /\ Len(b) = IF k + 1 <= Len(s) THEN Len(s) - (k + 1) + 1 ELSE 0
        /\ \A i \in 1..(Len(s) - (k + 1) + 1) : b[i] = s[(k + 1) + i - 1]
    BY <1>1, <2>1, SubSeqProperties
  <2> HIDE DEF b
  <2>3. /\ Len(s) - (k + 1) + 1 = Len(s) - k
        /\ (IF k + 1 <= Len(s) THEN Len(s) - (k + 1) + 1 ELSE 0) = Len(s) - k
    <3>1. /\ Len(s) \in Int /\ k \in Int /\ k <= Len(s)
          /\ k + 1 \in Int /\ Len(s) - (k + 1) \in Int
      BY <1>1
    <3>2. Len(s) - (k + 1) + 1 = Len(s) - k
      BY <3>1
    <3>3. k + 1 <= Len(s) \/ k = Len(s)
      BY <3>1
    <3>4. k = Len(s) => ~ (k + 1 <= Len(s)) /\ Len(s) - k = 0
      BY <3>1
    <3> QED
      BY <3>2, <3>3, <3>4
  <2>4. ASSUME NEW i \in 1..(Len(s) - k)
        PROVE  b[i] = s[k + i]
    <3>1. (k + 1) + i - 1 = k + i /\ i \in 1..(Len(s) - (k + 1) + 1)
      BY <1>1
    <3> QED
      BY <2>2, <3>1
  <2> QED
    BY <2>2, <2>3, <2>4
<1>4. r = a \o b
  BY DEF RemoveAt
<1> HIDE DEF a, b, r
<1>5. /\ r \in Seq(S) /\ Len(r) = Len(s) - 1
      /\ \A i \in 1..(Len(s) - 1) : r[i] = IF i < k THEN s[i] ELSE s[i + 1]
  <2>1. /\ a \o b \in Seq(S) /\ Len(a \o b) = (k - 1) + (Len(s) - k)
        /\ \A i \in 1..((k - 1) + (Len(s) - k)) :
              (a \o b)[i] = IF i <= k - 1 THEN a[i] ELSE b[i - (k - 1)]
    <3>1. /\ a \o b \in Seq(S) /\ Len(a \o b) = Len(a) + Len(b)
          /\ \A i \in 1..(Len(a) + Len(b)) :
                (a \o b)[i] = IF i <= Len(a) THEN a[i] ELSE b[i - Len(a)]
      BY <1>2, <1>3, ConcatProperties
    <3> QED
      BY <1>2, <1>3, <3>1
  <2>2. ASSUME NEW i \in 1..(Len(s) - 1)
        PROVE  r[i] = IF i < k THEN s[i] ELSE s[i + 1]
    <3>1. CASE i < k
      BY <1>1, <1>2, <1>4, <2>1, <3>1
    <3>2. CASE ~ (i < k)
      <4>1. i - (k - 1) \in 1..(Len(s) - k) /\ k + (i - (k - 1)) = i + 1
        BY <1>1, <3>2
      <4> QED
        BY <1>1, <1>3, <1>4, <2>1, <3>2, <4>1
    <3> QED
      BY <3>1, <3>2
  <2> QED
    BY <1>1, <1>4, <2>1, <2>2
<1>6. DOMAIN r = 1..(Len(s) - 1) /\ Range(r) = {r[i] : i \in 1..(Len(s) - 1)}
  BY <1>5, LenProperties, RangeEquality
<1>7. Range(r) = {s[i] : i \in (1..Len(s)) \ {k}}
  <2>1. \A i \in 1..(Len(s) - 1) : \E j \in (1..Len(s)) \ {k} : r[i] = s[j]
    <3> SUFFICES ASSUME NEW i \in 1..(Len(s) - 1)
                 PROVE  \E j \in (1..Len(s)) \ {k} : r[i] = s[j]
      OBVIOUS
    <3>1. CASE i < k
      BY <1>1, <1>5, <3>1
    <3>2. CASE ~ (i < k)
      <4>1. i + 1 \in (1..Len(s)) \ {k} /\ r[i] = s[i + 1]
        BY <1>1, <1>5, <3>2
      <4> QED
        BY <4>1
    <3> QED
      BY <3>1, <3>2
  <2>2. \A j \in (1..Len(s)) \ {k} : \E i \in 1..(Len(s) - 1) : r[i] = s[j]
    <3> SUFFICES ASSUME NEW j \in (1..Len(s)) \ {k}
                 PROVE  \E i \in 1..(Len(s) - 1) : r[i] = s[j]
      OBVIOUS
    <3>1. CASE j < k
      BY <1>1, <1>5, <3>1
    <3>2. CASE ~ (j < k)
      <4>1. j - 1 \in 1..(Len(s) - 1) /\ ~ (j - 1 < k) /\ (j - 1) + 1 = j
        BY <1>1, <3>2
      <4>2. r[j - 1] = s[j]
        BY <1>5, <4>1
      <4> QED
        BY <4>1, <4>2
    <3> QED
      BY <3>1, <3>2
  <2>3. Range(r) \subseteq {s[i] : i \in (1..Len(s)) \ {k}}
    BY <1>6, <2>1
  <2>4. {s[i] : i \in (1..Len(s)) \ {k}} \subseteq Range(r)
    BY <1>6, <2>2
  <2> QED
    BY <2>3, <2>4
<1>8. ASSUME IsInjective(s)
      PROVE  IsInjective(r) /\ Range(r) = Range(s) \ {s[k]}
  <2>1. \A i, j \in 1..Len(s) : s[i] = s[j] => i = j
    BY <1>1, <1>8 DEF IsInjective
  <2>2. ASSUME NEW i \in 1..(Len(s) - 1), NEW j \in 1..(Len(s) - 1), r[i] = r[j]
        PROVE  i = j
    <3> DEFINE p == IF i < k THEN i ELSE i + 1
               q == IF j < k THEN j ELSE j + 1
    <3>1. r[i] = s[p] /\ r[j] = s[q] /\ p \in 1..Len(s) /\ q \in 1..Len(s)
      BY <1>1, <1>5
    <3>2. p = q
      <4> HIDE DEF p, q
      <4> QED
        BY <2>1, <2>2, <3>1
    <3> QED
      BY <1>1, <3>2
  <2>3. Range(s) = {s[i] : i \in 1..Len(s)}
    BY RangeEquality
  <2>4. IsInjective(r)
    BY <1>6, <2>2 DEF IsInjective
  <2>5. {s[i] : i \in (1..Len(s)) \ {k}} = {s[i] : i \in 1..Len(s)} \ {s[k]}
    BY <2>1
  <2> QED
    BY <1>7, <2>3, <2>4, <2>5
<1> QED
  BY <1>7, <1>8 DEF r

(* Erasing an element takes nothing else away, and from a sequence without *)
(* repetitions it takes the element away.                                  *)
LEMMA RangeErase ==
    ASSUME NEW S, NEW s \in Seq(S), NEW e
    PROVE  /\ Range(Erase(s, e)) \subseteq Range(s)
           /\ Range(s) \subseteq Range(Erase(s, e)) \cup {e}
           /\ IsInjective(s) => IsInjective(Erase(s, e)) /\ Range(Erase(s, e)) = Range(s) \ {e}
<1> DEFINE at == {i \in 1..Len(s) : s[i] = e}
<1>1. Range(s) = {s[i] : i \in 1..Len(s)}
  BY RangeEquality
<1>2. CASE at = {}
  <2>1. Erase(s, e) = s
    BY <1>2 DEF Erase
  <2>2. e \notin Range(s)
    BY <1>1, <1>2
  <2> QED
    BY <2>1, <2>2
<1>3. CASE at # {}
  <2> DEFINE k == Min(at)
  <2>1. k \in 1..Len(s) /\ s[k] = e
    <3>1. at \subseteq Nat
      OBVIOUS
    <3>2. k \in at
      <4> HIDE DEF at
      <4> QED
        BY <1>3, <3>1, MinNat
    <3> QED
      BY <3>2
  <2>2. Erase(s, e) = RemoveAt(s, k)
    BY <1>3 DEF Erase
  <2> HIDE DEF k, at
  <2> QED
    BY <1>1, <2>1, <2>2, RangeRemoveAt
<1> QED
  BY <1>2, <1>3

(* What each operation adds and takes.                                     *)
LEMMA PushBackContents ==
    ASSUME NEW P, NEW S, NEW list \in Lists(P, S), NEW p \in P, NEW e \in S
    PROVE  LET new == push_back(list, p, e)
           IN  /\ new.linked = list.linked
               /\ Range(new.level[p]) = Range(list.level[p]) \cup {e}
               /\ IsInjective(list.level[p]) /\ e \notin Range(list.level[p]) =>
                     IsInjective(new.level[p])
               /\ \A r \in P \ {p} : new.level[r] = list.level[r]
<1>1. list.level[p] \in Seq(S)
  BY DEF Lists
<1>2. LET new == push_back(list, p, e)
      IN  /\ new.linked = list.linked
          /\ new.level[p] = Append(list.level[p], e)
          /\ \A r \in P \ {p} : new.level[r] = list.level[r]
  BY DEF Lists, push_back
<1> DEFINE s == list.level[p]
<1>3. /\ Range(Append(s, e)) = Range(s) \cup {e}
      /\ IsInjective(s) /\ e \notin Range(s) => IsInjective(Append(s, e))
  BY <1>1, RangeAppend
<1> QED
  BY <1>2, <1>3

LEMMA PushFrontContents ==
    ASSUME NEW P, NEW S, NEW list \in Lists(P, S), NEW p \in P, NEW e \in S
    PROVE  LET new == push_front(list, p, e)
           IN  /\ new.linked = list.linked
               /\ Range(new.level[p]) = Range(list.level[p]) \cup {e}
               /\ IsInjective(list.level[p]) /\ e \notin Range(list.level[p]) =>
                     IsInjective(new.level[p])
               /\ \A r \in P \ {p} : new.level[r] = list.level[r]
<1>1. list.level[p] \in Seq(S)
  BY DEF Lists
<1>2. LET new == push_front(list, p, e)
      IN  /\ new.linked = list.linked
          /\ new.level[p] = <<e>> \o list.level[p]
          /\ \A r \in P \ {p} : new.level[r] = list.level[r]
  BY DEF Lists, push_front
<1> DEFINE s == list.level[p]
<1>3. /\ Range(<<e>> \o s) = Range(s) \cup {e}
      /\ IsInjective(s) /\ e \notin Range(s) => IsInjective(<<e>> \o s)
  BY <1>1, RangePushFront
<1> QED
  BY <1>2, <1>3

LEMMA RemoveContents ==
    ASSUME NEW P, NEW S, NEW list \in Lists(P, S), NEW p \in P, NEW e \in S
    PROVE  LET new == remove(list, p, e)
           IN  /\ new.linked = list.linked
               /\ Range(new.level[p]) \subseteq Range(list.level[p])
               /\ IsInjective(list.level[p]) =>
                     /\ Range(new.level[p]) = Range(list.level[p]) \ {e}
                     /\ IsInjective(new.level[p])
               /\ \A r \in P \ {p} : new.level[r] = list.level[r]
<1>1. list.level[p] \in Seq(S)
  BY DEF Lists
<1>2. LET new == remove(list, p, e)
      IN  /\ new.linked = list.linked
          /\ new.level[p] = Erase(list.level[p], e)
          /\ \A r \in P \ {p} : new.level[r] = list.level[r]
  BY DEF Lists, remove
<1> DEFINE s == list.level[p]
<1>3. /\ Range(Erase(s, e)) \subseteq Range(s)
      /\ IsInjective(s) => IsInjective(Erase(s, e)) /\ Range(Erase(s, e)) = Range(s) \ {e}
  BY <1>1, RangeErase
<1> QED
  BY <1>2, <1>3

(* A move adds at most the moved element, and only to the new level; it    *)
(* links the new level.                                                    *)
LEMMA MoveContents ==
    ASSUME NEW P, NEW S, NEW list \in Lists(P, S), NEW p \in P, NEW q \in P, NEW e \in S
    PROVE  /\ move(list, e, p, q).linked = list.linked \cup {q}
           /\ \A r \in P : Range(move(list, e, p, q).level[r]) \subseteq
                             Range(list.level[r]) \cup {e}
           /\ /\ \A r \in P : IsInjective(list.level[r])
              /\ \A r \in P \ {p} : e \notin Range(list.level[r])
              => /\ \A r \in P : IsInjective(move(list, e, p, q).level[r])
                 /\ Range(move(list, e, p, q).level[q]) = Range(list.level[q]) \cup {e}
                 /\ \A r \in P \ {q} :
                       Range(move(list, e, p, q).level[r]) = Range(list.level[r]) \ {e}
<1> DEFINE a == remove(list, p, e)
           b == prepare(a, q)
           d == push_back(b, q, e)
<1>1. a \in Lists(P, S) /\ b \in Lists(P, S)
  BY ListOperationsType
<1>2. /\ a.linked = list.linked
      /\ Range(a.level[p]) \subseteq Range(list.level[p])
      /\ IsInjective(list.level[p]) =>
            Range(a.level[p]) = Range(list.level[p]) \ {e} /\ IsInjective(a.level[p])
      /\ \A r \in P \ {p} : a.level[r] = list.level[r]
  BY RemoveContents
<1>3. move(list, e, p, q) = d
  BY DEF move
<1> HIDE DEF a
<1>4. b.linked = a.linked \cup {q} /\ \A r \in P : b.level[r] = a.level[r]
  BY <1>1 DEF prepare, Lists
<1> HIDE DEF b
<1>5. /\ d.linked = b.linked
      /\ Range(d.level[q]) = Range(b.level[q]) \cup {e}
      /\ IsInjective(b.level[q]) /\ e \notin Range(b.level[q]) => IsInjective(d.level[q])
      /\ \A r \in P \ {q} : d.level[r] = b.level[r]
  <2>1. b \in Lists(P, S)
    BY <1>1
  <2> QED
    BY <2>1, PushBackContents
<1> HIDE DEF d
<1>6. \A r \in P : Range(d.level[r]) \subseteq Range(list.level[r]) \cup {e}
  BY <1>2, <1>4, <1>5
<1>7. ASSUME \A r \in P : IsInjective(list.level[r]),
             \A r \in P \ {p} : e \notin Range(list.level[r])
      PROVE  /\ \A r \in P : IsInjective(d.level[r])
             /\ Range(d.level[q]) = Range(list.level[q]) \cup {e}
             /\ \A r \in P \ {q} : Range(d.level[r]) = Range(list.level[r]) \ {e}
  <2>1. \A r \in P : IsInjective(b.level[r]) /\ Range(b.level[r]) = Range(list.level[r]) \ {e}
    <3> SUFFICES ASSUME NEW r \in P
                 PROVE  IsInjective(b.level[r]) /\ Range(b.level[r]) = Range(list.level[r]) \ {e}
      OBVIOUS
    <3>1. CASE r = p
      BY <1>2, <1>4, <1>7, <3>1
    <3>2. CASE r # p
      BY <1>2, <1>4, <1>7, <3>2
    <3> QED
      BY <3>1, <3>2
  <2>2. e \notin Range(b.level[q])
    BY <2>1
  <2>3. IsInjective(d.level[q])
    BY <1>5, <2>1, <2>2
  <2>4. Range(d.level[q]) = Range(list.level[q]) \cup {e}
    BY <1>5, <2>1
  <2>5. \A r \in P \ {q} :
           IsInjective(d.level[r]) /\ Range(d.level[r]) = Range(list.level[r]) \ {e}
    BY <1>5, <2>1
  <2> QED
    BY <2>3, <2>4, <2>5
<1> QED
  BY <1>2, <1>3, <1>4, <1>5, <1>6, <1>7

(* A pop takes the head of the best of the given levels away.              *)
LEMMA PopContents ==
    ASSUME NEW P, P \subseteq Nat, NEW S, NEW list \in Lists(P, S),
           NEW levels, levels \subseteq Occupied(list), levels # {}
    PROVE  LET p == Min(levels)
               e == front(list, levels)
           IN  /\ p \in levels /\ p \in P
               /\ \A l \in levels : p <= l
               /\ e \in Range(list.level[p])
               /\ pop(list, levels).linked = list.linked
               /\ Range(pop(list, levels).level[p]) \subseteq Range(list.level[p])
               /\ IsInjective(list.level[p]) =>
                     /\ IsInjective(pop(list, levels).level[p])
                     /\ Range(pop(list, levels).level[p]) = Range(list.level[p]) \ {e}
               /\ \A r \in P \ {p} : pop(list, levels).level[r] = list.level[r]
<1> DEFINE p == Min(levels)
           s == list.level[p]
<1>1. p \in levels /\ \A l \in levels : p <= l
  BY MinNat DEF Occupied, Lists
<1>2. p \in P /\ s \in Seq(S) /\ s # <<>>
  BY <1>1 DEF Occupied, Lists
<1> HIDE DEF p
<1>3. /\ pop(list, levels).linked = list.linked
      /\ pop(list, levels).level[p] = Tail(s)
      /\ \A r \in P \ {p} : pop(list, levels).level[r] = list.level[r]
  BY <1>2 DEF pop, Lists, p
<1>4. front(list, levels) = Head(s)
  BY DEF front, p
<1> HIDE DEF s
<1>5. /\ Range(s) = {Head(s)} \cup Range(Tail(s))
      /\ IsInjective(s) => /\ IsInjective(Tail(s))
                           /\ Range(Tail(s)) = Range(s) \ {Head(s)}
  BY <1>2, RangeTail
<1> QED
  BY <1>1, <1>2, <1>3, <1>4, <1>5 DEF p, s

(***************************************************************************)
(* Frames and the work stack.                                              *)
(***************************************************************************)
(* Every constructor makes a frame.                                        *)
LEMMA FrameType ==
    /\ \A o \in Objects : WakeupAll(o) \in Frames
    /\ \A o \in Objects, t \in Threads : Acquire(o, t) \in Frames
    /\ \A t \in Threads, r \in Reasons : Callback(t, r) \in Frames
    /\ \A t \in Threads, os \in Seq(Objects) : AddWaiting(t, os) \in Frames
    /\ \A t \in Threads : /\ RemoveWaiting(t) \in Frames
                          /\ Resume(t) \in Frames
                          /\ Stop(t) \in Frames
    /\ \A ms \in SUBSET Mutexes : UpdateMutexes(ms) \in Frames
    /\ \A t \in Threads, ms \in SUBSET Mutexes : ReleaseMutexes(t, ms) \in Frames
    /\ \A c \in Cores, p \in Processes : TerminateThreads(c, p) \in Frames
    /\ \A a \in Arbiters, x \in Addresses, n \in Int : ResumeArbitrated(a, x, n) \in Frames
    /\ \A c \in Cores, ts \in SUBSET Threads : BoostStarved(c, ts) \in Frames
    /\ \A c \in Cores : PopNext(c) \in Frames
    /\ \A c \in Cores, t \in Threads \cup {NoThread} :
          Requeue(c, t) \in Frames /\ SwitchContext(c, t) \in Frames
BY DEF Frames, WakeupAll, Acquire, Callback, AddWaiting, RemoveWaiting, Resume, Stop,
       UpdateMutexes, ReleaseMutexes, TerminateThreads, ResumeArbitrated, BoostStarved,
       PopNext, Requeue, SwitchContext

(* The fields of a frame of each kind.                                     *)
LEMMA FrameFields ==
    ASSUME NEW f \in Frames
    PROVE  /\ f.op = "WakeupAll" => f.object \in Objects
           /\ f.op = "Acquire" => f.object \in Objects /\ f.thread \in Threads
           /\ f.op = "Callback" => f.thread \in Threads /\ f.reason \in Reasons
           /\ f.op = "AddWaiting" => f.thread \in Threads /\ f.objects \in Seq(Objects)
           /\ f.op \in {"RemoveWaiting", "Resume", "Stop"} => f.thread \in Threads
           /\ f.op = "UpdateMutexes" => f.mutexes \in SUBSET Mutexes
           /\ f.op = "ReleaseMutexes" => f.thread \in Threads /\ f.mutexes \in SUBSET Mutexes
           /\ f.op = "TerminateThreads" => f.core \in Cores /\ f.process \in Processes
           /\ f.op = "ResumeArbitrated" =>
                 f.arbiter \in Arbiters /\ f.address \in Addresses /\ f.count \in Int
           /\ f.op = "BoostStarved" => f.core \in Cores /\ f.threads \in SUBSET Threads
           /\ f.op = "PopNext" => f.core \in Cores
           /\ f.op \in {"Requeue", "SwitchContext"} =>
                 f.core \in Cores /\ f.next \in Threads \cup {NoThread}
BY DEF Frames

(* The head of a nonempty stack is a frame, the rest a stack.              *)
LEMMA WorkTop ==
    ASSUME work \in Seq(Frames), work # <<>>
    PROVE  top \in Frames /\ Tail(work) \in Seq(Frames)
BY HeadTailProperties DEF top

(* Pushing frames on a stack gives a stack.                                *)
LEMMA PushFrames ==
    ASSUME NEW w \in Seq(Frames), NEW f \in Frames, NEW g \in Frames, NEW h \in Frames
    PROVE  /\ <<f>> \o w \in Seq(Frames)
           /\ <<f, g>> \o w \in Seq(Frames)
           /\ <<f, g, h>> \o w \in Seq(Frames)
<1>1. <<f>> \in Seq(Frames) /\ <<f, g>> \in Seq(Frames) /\ <<f, g, h>> \in Seq(Frames)
  OBVIOUS
<1> QED
  BY <1>1, ConcatProperties

(* A step whose assertion fails changes nothing but fault.                 *)
LEMMA FailType ==
    ASSUME TypeOK, fault' \in Faults, UNCHANGED systemVars
    PROVE  TypeOK'
BY DEF TypeOK, systemVars, prioVars, ownVars, waitVars, countVars, timeVars, runVars,
       cpuVars, lifeVars, arbVars, setupVars, replyVars

(***************************************************************************)
(* Priorities.                                                             *)
(***************************************************************************)
(* The best of some priorities is one of them.                             *)
LEMMA MinPriority ==
    ASSUME NEW S, S \subseteq Priorities, S # {}
    PROVE  Min(S) \in S /\ Min(S) \in Priorities
<1>1. S \subseteq Nat
  BY CoreAssumption DEF Priorities
<1> QED
  BY <1>1, MinNat

LEMMA BestPriorityType ==
    ASSUME nominal_priority \in [Threads -> Priorities],
           NEW t \in Threads, NEW priority \in [Mutexes -> Priorities],
           NEW ms \in SUBSET Mutexes
    PROVE  BestPriority(t, ms, priority) \in Priorities
<1> DEFINE S == {nominal_priority[t]} \cup {priority[m] : m \in ms}
<1>1. S \subseteq Priorities /\ S # {}
  OBVIOUS
<1> HIDE DEF S
<1>2. Min(S) \in Priorities
  BY <1>1, MinPriority
<1> QED
  BY <1>2 DEF BestPriority, S

(* Changing a priority keeps the type of the ready queues.                 *)
LEMMA BoostPriorityType ==
    ASSUME TypeOK, NEW t \in Threads, NEW p \in Priorities, BoostPriority(t, p)
    PROVE  /\ current_priority' \in [Threads -> Priorities]
           /\ ready_queue' \in [Cores -> Lists(Priorities, Threads)]
<1>1. CoreOf[t] \in Cores /\ current_priority[t] \in Priorities
  BY CoreAssumption DEF TypeOK
<1>2. /\ move(ready_queue[CoreOf[t]], t, current_priority[t], p) \in Lists(Priorities, Threads)
      /\ prepare(ready_queue[CoreOf[t]], p) \in Lists(Priorities, Threads)
  BY <1>1, ListOperationsType DEF TypeOK
<1> QED
  BY <1>1, <1>2 DEF TypeOK, BoostPriority, Requeued

LEMMA UpdateMutexPriorityType ==
    ASSUME TypeOK, NEW m \in Mutexes, NEW ws \in Seq(Threads), UpdateMutexPriority(m, ws)
    PROVE  /\ mutex_priority' \in [Mutexes -> Priorities]
           /\ current_priority' \in [Threads -> Priorities]
           /\ ready_queue' \in [Cores -> Lists(Priorities, Threads)]
<1> DEFINE S == {ThreadPrioLowest} \cup {current_priority[t] : t \in Range(ws)}
           best == Min(S)
           t == holding_thread[m]
<1>1. best \in Priorities
  <2>1. Range(ws) \subseteq Threads
    BY RangeOfSeq
  <2>2. S \subseteq Priorities /\ S # {}
    BY <2>1, CoreAssumption DEF TypeOK, Priorities
  <2> HIDE DEF S
  <2> QED
    BY <2>2, MinPriority
<1> HIDE DEF best
<1>2. CASE t = NoThread \/ best = mutex_priority[m]
  BY <1>2 DEF UpdateMutexPriority, TypeOK, prioVars, best
<1>3. CASE ~ (t = NoThread \/ best = mutex_priority[m])
  <2>1. /\ mutex_priority' = [mutex_priority EXCEPT ![m] = best]
        /\ BoostPriority(t, BestPriority(t, held_mutexes[t], mutex_priority'))
    BY <1>3 DEF UpdateMutexPriority, best
  <2>2. t \in Threads /\ held_mutexes[t] \in SUBSET Mutexes
    BY <1>3 DEF TypeOK
  <2>3. mutex_priority' \in [Mutexes -> Priorities]
    BY <1>1, <2>1 DEF TypeOK
  <2>4. BestPriority(t, held_mutexes[t], mutex_priority') \in Priorities
    BY <2>2, <2>3, BestPriorityType DEF TypeOK
  <2> QED
    BY <2>1, <2>2, <2>3, <2>4, BoostPriorityType
<1> QED
  BY <1>2, <1>3

(***************************************************************************)
(* Each step of the kernel keeps the types.                                *)
(***************************************************************************)
USE DEF prioVars, ownVars, waitVars, countVars, timeVars, runVars, cpuVars, lifeVars,
        arbVars, setupVars, replyVars

LEMMA UpdateMutexesStepType ==
    ASSUME TypeOK, UpdateMutexesStep
    PROVE  TypeOK'
<1>1. /\ work \in Seq(Frames) /\ work # <<>>
      /\ top \in Frames /\ Tail(work) \in Seq(Frames)
      /\ top.mutexes \in SUBSET Mutexes
  BY WorkTop, FrameFields DEF TypeOK, UpdateMutexesStep, Runs, top
<1>2. CASE top.mutexes = {}
  BY <1>1, <1>2 DEF TypeOK, UpdateMutexesStep, Return
<1>3. CASE top.mutexes # {}
  <2>1. PICK m \in top.mutexes :
           /\ UpdateMutexPriority(m, waiting_threads[m])
           /\ work' = <<UpdateMutexes(top.mutexes \ {m})>> \o Tail(work)
    BY <1>3 DEF UpdateMutexesStep
  <2>2. m \in Mutexes /\ waiting_threads[m] \in Seq(Threads)
    BY <1>1 DEF TypeOK, Objects
  <2>3. /\ mutex_priority' \in [Mutexes -> Priorities]
        /\ current_priority' \in [Threads -> Priorities]
        /\ ready_queue' \in [Cores -> Lists(Priorities, Threads)]
    BY <2>1, <2>2, UpdateMutexPriorityType
  <2>4. UpdateMutexes(top.mutexes \ {m}) \in Frames
    BY <1>1, FrameType
  <2>5. work' \in Seq(Frames)
    BY <1>1, <2>1, <2>4, PushFrames
  <2> QED
    BY <2>3, <2>5 DEF TypeOK, UpdateMutexesStep
<1> QED
  BY <1>2, <1>3

LEMMA AcquireMutexType ==
    ASSUME TypeOK, NEW m \in Mutexes, NEW t \in Threads, AcquireMutex(m, t)
    PROVE  /\ mutex_priority' \in [Mutexes -> Priorities]
           /\ lock_count' \in [Mutexes -> Nat]
           /\ holding_thread' \in [Mutexes -> Threads \cup {NoThread}]
           /\ held_mutexes' \in [Threads -> SUBSET Mutexes]
           /\ current_priority' \in [Threads -> Priorities]
           /\ ready_queue' \in [Cores -> Lists(Priorities, Threads)]
           /\ halted' \in SUBSET Cores
<1>1. CASE lock_count[m] = 0
  <2> DEFINE hm == [held_mutexes EXCEPT ![t] = @ \cup {m}]
             mp == [mutex_priority EXCEPT ![m] = current_priority[t]]
  <2>0. /\ held_mutexes' = hm /\ mutex_priority' = mp
        /\ BoostPriority(t, BestPriority(t, hm[t], mp))
    BY <1>1 DEF AcquireMutex
  <2>1. mutex_priority' \in [Mutexes -> Priorities]
    BY <2>0 DEF TypeOK
  <2>2. held_mutexes' \in [Threads -> SUBSET Mutexes]
    BY <2>0 DEF TypeOK
  <2>3. holding_thread' \in [Mutexes -> Threads \cup {NoThread}]
    BY <1>1 DEF TypeOK, AcquireMutex
  <2>4. lock_count' \in [Mutexes -> Nat]
    BY <1>1 DEF TypeOK, AcquireMutex
  <2>5. halted' \in SUBSET Cores
    BY <1>1 DEF TypeOK, AcquireMutex, PrepareReschedule
  <2>6. BestPriority(t, hm[t], mp) \in Priorities
    BY <2>0, <2>1, <2>2, BestPriorityType DEF TypeOK
  <2> HIDE DEF hm, mp
  <2> QED
    BY <2>0, <2>1, <2>2, <2>3, <2>4, <2>5, <2>6, BoostPriorityType
<1>2. CASE lock_count[m] # 0
  BY <1>2 DEF TypeOK, AcquireMutex
<1> QED
  BY <1>1, <1>2

LEMMA AcquireStepType ==
    ASSUME TypeOK, AcquireStep
    PROVE  TypeOK'
<1> DEFINE o == top.object
           t == top.thread
<1>1. /\ work \in Seq(Frames) /\ work # <<>>
      /\ Tail(work) \in Seq(Frames)
      /\ o \in Objects /\ t \in Threads
  BY WorkTop, FrameFields DEF TypeOK, AcquireStep, Runs, top
<1>2. CASE o \notin Semaphores /\ ShouldWait(o, t)
  <2>1. fault' = "object unavailable!" /\ UNCHANGED systemVars
    BY <1>2 DEF AcquireStep, Fail
  <2>2. fault' \in Faults
    BY <2>1 DEF Faults
  <2> QED
    BY <2>1, <2>2, FailType
<1>3. CASE ~ (o \notin Semaphores /\ ShouldWait(o, t))
  <2>1. /\ mutex_priority' \in [Mutexes -> Priorities]
        /\ lock_count' \in [Mutexes -> Nat]
        /\ holding_thread' \in [Mutexes -> Threads \cup {NoThread}]
        /\ held_mutexes' \in [Threads -> SUBSET Mutexes]
        /\ current_priority' \in [Threads -> Priorities]
        /\ ready_queue' \in [Cores -> Lists(Priorities, Threads)]
        /\ halted' \in SUBSET Cores
    <3>1. CASE o \in Mutexes
      <4>1. AcquireMutex(o, t)
        BY <1>3, <3>1 DEF AcquireStep
      <4> QED
        BY <1>1, <3>1, <4>1, AcquireMutexType
    <3>2. CASE o \notin Mutexes
      BY <1>3, <3>2 DEF AcquireStep, TypeOK
    <3> QED
      BY <3>1, <3>2
  <2>2. available_count' \in [Semaphores -> Int]
    <3>1. \/ available_count' = available_count
          \/ available_count' = [available_count EXCEPT ![o] = @ - 1]
      BY <1>3 DEF AcquireStep
    <3> QED
      BY <3>1 DEF TypeOK
  <2>6. signaled' \in [Signals -> BOOLEAN]
    <3>1. signaled' = signaled \/ signaled' = [signaled EXCEPT ![o] = FALSE]
      BY <1>3 DEF AcquireStep
    <3> QED
      BY <3>1 DEF TypeOK
  <2>3. acquired' \in [Threads -> SUBSET Objects]
    <3>1. acquired' = acquired \/ acquired' = [acquired EXCEPT ![t] = @ \cup {o}]
      BY <1>3 DEF AcquireStep
    <3>2. acquired[t] \cup {o} \in SUBSET Objects
      BY <1>1 DEF TypeOK
    <3> HIDE DEF o, t
    <3> QED
      BY <1>1, <3>1, <3>2 DEF TypeOK
  <2>4. work' \in Seq(Frames)
    BY <1>1, <1>3 DEF AcquireStep, Return
  <2>5. UNCHANGED <<status, waitVars, timeVars, runVars, cpu, lifeVars, arbVars, setupVars,
                    wakeup_callback, outcome, fault>>
    BY <1>3 DEF AcquireStep
  <2> QED
    BY <2>1, <2>2, <2>3, <2>4, <2>5, <2>6 DEF TypeOK
<1> QED
  BY <1>2, <1>3

LEMMA AddWaitingStepType ==
    ASSUME TypeOK, AddWaitingStep
    PROVE  TypeOK'
<1> DEFINE t == top.thread
           os == top.objects
           o == Head(os)
           ws == IF t \in Range(waiting_threads[o])
                 THEN waiting_threads[o]
                 ELSE Append(waiting_threads[o], t)
<1>1. /\ work \in Seq(Frames) /\ work # <<>>
      /\ Tail(work) \in Seq(Frames)
      /\ t \in Threads /\ os \in Seq(Objects)
  BY WorkTop, FrameFields DEF TypeOK, AddWaitingStep, Runs, top
<1>2. CASE os = <<>>
  BY <1>1, <1>2 DEF TypeOK, AddWaitingStep, Return
<1>3. CASE os # <<>>
  <2>1. o \in Objects /\ Tail(os) \in Seq(Objects)
    BY <1>1, <1>3, HeadTailProperties
  <2>2. ws \in Seq(Threads)
    <3>1. waiting_threads[o] \in Seq(Threads)
      BY <2>1 DEF TypeOK
    <3> QED
      BY <1>1, <3>1, AppendProperties
  <2>3. /\ waiting_threads' = [waiting_threads EXCEPT ![o] = ws]
        /\ pending_mutexes' = [pending_mutexes EXCEPT ![t] = @ \cup ({o} \cap Mutexes)]
        /\ work' = <<AddWaiting(t, Tail(os))>> \o Tail(work)
        /\ IF o \in Mutexes
           THEN UpdateMutexPriority(o, ws)
           ELSE UNCHANGED <<mutex_priority, prioVars>>
    BY <1>3 DEF AddWaitingStep
  <2>4. /\ mutex_priority' \in [Mutexes -> Priorities]
        /\ current_priority' \in [Threads -> Priorities]
        /\ ready_queue' \in [Cores -> Lists(Priorities, Threads)]
    <3> HIDE DEF ws, o
    <3>1. CASE o \in Mutexes
      BY <2>2, <2>3, <3>1, UpdateMutexPriorityType
    <3>2. CASE o \notin Mutexes
      BY <2>3, <3>2 DEF TypeOK
    <3> QED
      BY <3>1, <3>2
  <2>5. waiting_threads' \in [Objects -> Seq(Threads)]
    <3> HIDE DEF ws, o
    <3> QED
      BY <2>2, <2>3 DEF TypeOK
  <2>6. pending_mutexes' \in [Threads -> SUBSET Mutexes]
    <3> HIDE DEF t, o
    <3>1. pending_mutexes[t] \cup ({o} \cap Mutexes) \in SUBSET Mutexes
      BY <1>1 DEF TypeOK
    <3> QED
      BY <2>3, <3>1 DEF TypeOK
  <2>7. work' \in Seq(Frames)
    <3>1. AddWaiting(t, Tail(os)) \in Frames
      BY <1>1, <2>1, FrameType
    <3> QED
      BY <1>1, <2>3, <3>1, PushFrames
  <2> QED
    BY <2>4, <2>5, <2>6, <2>7 DEF TypeOK, AddWaitingStep
<1> QED
  BY <1>2, <1>3

LEMMA RemoveWaitingStepType ==
    ASSUME TypeOK, RemoveWaitingStep
    PROVE  TypeOK'
<1> DEFINE t == top.thread
           o == Head(wait_objects[t])
           ws == Erase(waiting_threads[o], t)
<1>1. /\ work \in Seq(Frames) /\ work # <<>>
      /\ Tail(work) \in Seq(Frames)
      /\ t \in Threads
  BY WorkTop, FrameFields DEF TypeOK, RemoveWaitingStep, Runs, top
<1>2. CASE wait_objects[t] = <<>>
  BY <1>1, <1>2 DEF TypeOK, RemoveWaitingStep, Return
<1>3. CASE wait_objects[t] # <<>>
  <2>1. o \in Objects /\ Tail(wait_objects[t]) \in Seq(Objects)
    BY <1>1, <1>3, HeadTailProperties DEF TypeOK
  <2>2. ws \in Seq(Threads)
    <3>1. waiting_threads[o] \in Seq(Threads)
      BY <2>1 DEF TypeOK
    <3> QED
      BY <3>1, EraseType
  <2>3. /\ waiting_threads' = [waiting_threads EXCEPT ![o] = ws]
        /\ wait_objects' = [wait_objects EXCEPT ![t] = Tail(@)]
        /\ pending_mutexes' = [pending_mutexes EXCEPT ![t] = @ \ {o}]
        /\ work' = work
        /\ IF o \in Mutexes
           THEN UpdateMutexPriority(o, ws)
           ELSE UNCHANGED <<mutex_priority, prioVars>>
    BY <1>3 DEF RemoveWaitingStep
  <2>4. /\ mutex_priority' \in [Mutexes -> Priorities]
        /\ current_priority' \in [Threads -> Priorities]
        /\ ready_queue' \in [Cores -> Lists(Priorities, Threads)]
    <3> HIDE DEF ws, o
    <3>1. CASE o \in Mutexes
      BY <2>2, <2>3, <3>1, UpdateMutexPriorityType
    <3>2. CASE o \notin Mutexes
      BY <2>3, <3>2 DEF TypeOK
    <3> QED
      BY <3>1, <3>2
  <2>5. waiting_threads' \in [Objects -> Seq(Threads)]
    <3> HIDE DEF ws, o
    <3> QED
      BY <2>2, <2>3 DEF TypeOK
  <2>6. wait_objects' \in [Threads -> Seq(Objects)]
    <3> HIDE DEF t
    <3> QED
      BY <2>1, <2>3 DEF TypeOK
  <2>7. pending_mutexes' \in [Threads -> SUBSET Mutexes]
    <3> HIDE DEF t, o
    <3>1. pending_mutexes[t] \ {o} \in SUBSET Mutexes
      BY <1>1 DEF TypeOK
    <3> QED
      BY <2>3, <3>1 DEF TypeOK
  <2> QED
    BY <1>1, <2>3, <2>4, <2>5, <2>6, <2>7 DEF TypeOK, RemoveWaitingStep
<1> QED
  BY <1>2, <1>3

(* The thread that HighestPriorityReady picks is on the list.              *)
LEMMA HighestPriorityReadyType ==
    ASSUME TypeOK, NEW o \in Objects
    PROVE  HighestPriorityReady(o) \in Threads \cup {NoThread}
<1> DEFINE ws == waiting_threads[o]
           ready == {i \in 1..Len(ws) : ReadyToRun(o, ws[i])}
           levels == {current_priority[ws[i]] : i \in ready}
           best == Min(levels)
           firsts == {i \in ready : current_priority[ws[i]] = best}
<1>1. ws \in Seq(Threads)
  BY DEF TypeOK
<1>2. CASE ready = {}
  BY <1>2 DEF HighestPriorityReady
<1>3. CASE ready # {}
  <2>1. levels \subseteq Priorities /\ levels # {}
    <3>1. \A i \in ready : ws[i] \in Threads
      BY <1>1
    <3>2. \A i \in ready : current_priority[ws[i]] \in Priorities
      BY <3>1 DEF TypeOK
    <3> HIDE DEF ws, ready
    <3> QED
      BY <1>3, <3>2
  <2>2. best \in levels
    <3> HIDE DEF levels
    <3> QED
      BY <2>1, MinPriority
  <2>3. firsts # {} /\ firsts \subseteq Nat /\ firsts \subseteq 1..Len(ws)
    <3> HIDE DEF best
    <3> QED
      BY <2>2
  <2>4. Min(firsts) \in 1..Len(ws)
    <3> HIDE DEF firsts
    <3> QED
      BY <2>3, MinNat
  <2>5. ws[Min(firsts)] \in Threads
    <3> HIDE DEF firsts, ws
    <3> QED
      BY <1>1, <2>4
  <2>6. HighestPriorityReady(o) = ws[Min(firsts)]
    BY <1>3 DEF HighestPriorityReady
  <2> QED
    BY <2>5, <2>6
<1> QED
  BY <1>2, <1>3

(* The acquisitions of a list of objects are a stack of frames.            *)
LEMMA AcquireCallsType ==
    ASSUME NEW os \in Seq(Objects), NEW t \in Threads
    PROVE  [i \in 1..Len(os) |-> Acquire(os[i], t)] \in Seq(Frames)
<1>1. Len(os) \in Nat /\ \A i \in 1..Len(os) : os[i] \in Objects
  OBVIOUS
<1>2. \A i \in 1..Len(os) : Acquire(os[i], t) \in Frames
  BY <1>1, FrameType
<1>3. [i \in 1..Len(os) |-> Acquire(os[i], t)] \in [1..Len(os) -> Frames]
  BY <1>2
<1> QED
  BY <1>1, <1>3, IsASeq

LEMMA WakeupAllStepType ==
    ASSUME TypeOK, WakeupAllStep
    PROVE  TypeOK'
<1> DEFINE o == top.object
           t == HighestPriorityReady(o)
           taken == Taken(o, t)
<1>1. /\ work \in Seq(Frames) /\ work # <<>>
      /\ Tail(work) \in Seq(Frames)
      /\ o \in Objects
  BY WorkTop, FrameFields DEF TypeOK, WakeupAllStep, Runs, top
<1>2. CASE \E x \in Range(waiting_threads[o]) : status[x] \notin WaitingOnObjects
  <2>1. fault' = "Inconsistent thread statuses in waiting_threads" /\ UNCHANGED systemVars
    BY <1>2 DEF WakeupAllStep, Fail
  <2>2. fault' \in Faults
    BY <2>1 DEF Faults
  <2> QED
    BY <2>1, <2>2, FailType
<1>3. CASE ~ \E x \in Range(waiting_threads[o]) : status[x] \notin WaitingOnObjects
  <2>1. UNCHANGED <<status, mutex_priority, prioVars, ownVars, waitVars, available_count,
                    timeVars, runVars, cpuVars, lifeVars, arbVars, setupVars, replyVars, fault>>
    BY <1>3 DEF WakeupAllStep
  <2>2. CASE t = NoThread
    <3>1. work' = Tail(work)
      BY <1>3, <2>2 DEF WakeupAllStep, Return
    <3>2. signaled' = signaled \/ signaled' = [signaled EXCEPT ![o] = FALSE]
      BY <1>3, <2>2 DEF WakeupAllStep
    <3>3. signaled' \in [Signals -> BOOLEAN]
      BY <3>2 DEF TypeOK
    <3> QED
      BY <1>1, <2>1, <3>1, <3>3 DEF TypeOK
  <2>3. CASE t # NoThread
    <3> DEFINE calls == [i \in 1..Len(taken) |-> Acquire(taken[i], t)]
               tail == <<Callback(t, "Signal"), RemoveWaiting(t), Resume(t)>>
    <3>1. t \in Threads
      BY <1>1, <2>3, HighestPriorityReadyType
    <3>2. work' = calls \o tail \o work /\ UNCHANGED signaled
      BY <1>3, <2>3 DEF WakeupAllStep
    <3>3. taken \in Seq(Objects)
      <4> HIDE DEF t, o
      <4>1. <<o>> \in Seq(Objects) /\ wait_objects[t] \in Seq(Objects)
        BY <1>1, <3>1 DEF TypeOK
      <4> QED
        BY <4>1 DEF Taken
    <3>4. calls \in Seq(Frames)
      <4> HIDE DEF t, taken
      <4> QED
        BY <3>1, <3>3, AcquireCallsType
    <3>5. tail \in Seq(Frames)
      <4>1. "Signal" \in Reasons
        BY DEF Reasons
      <4>2. /\ Callback(t, "Signal") \in Frames
            /\ RemoveWaiting(t) \in Frames
            /\ Resume(t) \in Frames
        BY <3>1, <4>1, FrameType
      <4> QED
        BY <4>2
    <3>6. work' \in Seq(Frames)
      <4> HIDE DEF calls, tail
      <4> QED
        BY <1>1, <3>2, <3>4, <3>5, ConcatProperties
    <3> QED
      BY <2>1, <3>2, <3>6 DEF TypeOK
  <2> QED
    BY <2>2, <2>3
<1> QED
  BY <1>2, <1>3

LEMMA CallbackStepType ==
    ASSUME TypeOK, CallbackStep
    PROVE  TypeOK'
<1> DEFINE t == top.thread
           callback == wakeup_callback[t]
<1>1. /\ work \in Seq(Frames) /\ work # <<>>
      /\ Tail(work) \in Seq(Frames)
      /\ t \in Threads /\ top.reason \in Reasons
  BY WorkTop, FrameFields DEF TypeOK, CallbackStep, Runs, top
<1>2. CASE callback \in Arbiters /\ top.reason # "Timeout"
  <2>1. fault' = "arbiter woken by a signal" /\ UNCHANGED systemVars
    BY <1>2 DEF CallbackStep, Fail
  <2>2. fault' \in Faults
    BY <2>1 DEF Faults
  <2> QED
    BY <2>1, <2>2, FailType
<1>3. CASE ~ (callback \in Arbiters /\ top.reason # "Timeout")
  <2>1. outcome' \in [Threads -> {"none"} \cup Reasons]
    <3>1. outcome' = outcome \/ outcome' = [outcome EXCEPT ![t] = top.reason]
      BY <1>3 DEF CallbackStep
    <3> QED
      BY <1>1, <3>1 DEF TypeOK
  <2>2. arb_waiting' \in [Arbiters -> Seq(Threads)]
    <3>1. arb_waiting' = IF callback \in Arbiters
                         THEN [arb_waiting EXCEPT ![callback] = Erase(@, t)]
                         ELSE arb_waiting
      BY <1>3 DEF CallbackStep
    <3>2. callback \in Arbiters => Erase(arb_waiting[callback], t) \in Seq(Threads)
      BY EraseType DEF TypeOK
    <3> HIDE DEF callback
    <3> QED
      BY <3>1, <3>2 DEF TypeOK
  <2>3. /\ work' = Tail(work)
        /\ UNCHANGED <<status, mutex_priority, prioVars, ownVars, waitVars, countVars,
                       timeVars, runVars, cpuVars, lifeVars, wait_address, setupVars,
                       wakeup_callback, acquired, fault>>
    BY <1>3 DEF CallbackStep, Return
  <2> QED
    BY <1>1, <2>1, <2>2, <2>3 DEF TypeOK
<1> QED
  BY <1>2, <1>3

LEMMA ResumeStepType ==
    ASSUME TypeOK, ResumeStep
    PROVE  TypeOK'
<1> DEFINE t == top.thread
           asleep == /\ wait_objects[t] = <<>>
                     /\ ~ (status[t] = "Ready" /\ wakeup_callback[t] # "none")
<1>1. /\ work \in Seq(Frames) /\ work # <<>>
      /\ Tail(work) \in Seq(Frames)
      /\ t \in Threads
  BY WorkTop, FrameFields DEF TypeOK, ResumeStep, Runs, top
<1>2. CASE ~asleep
  <2>1. /\ fault' \in {"Thread is waking up while waiting for objects",
                       "wakeup_callback == nullptr"}
        /\ UNCHANGED systemVars
    BY <1>2 DEF ResumeStep, Fail
  <2>2. fault' \in Faults
    BY <2>1 DEF Faults
  <2> QED
    BY <2>1, <2>2, FailType
<1>3. CASE asleep
  <2>1. /\ IF status[t] \in {"Ready", "Running", "Dead", "Free"}
           THEN UNCHANGED <<status, wakeup_callback, ready_queue, halted>>
           ELSE /\ wakeup_callback' = [wakeup_callback EXCEPT ![t] = "none"]
                /\ ready_queue' = [ready_queue EXCEPT
                      ![CoreOf[t]] = push_back(@, current_priority[t], t)]
                /\ status' = [status EXCEPT ![t] = "Ready"]
                /\ PrepareReschedule(cpu)
        /\ work' = Tail(work)
        /\ UNCHANGED <<mutex_priority, current_priority, ownVars, waitVars, countVars,
                       timeVars, runVars, cpu, lifeVars, arbVars, setupVars, outcome,
                       acquired, fault>>
    BY <1>3 DEF ResumeStep, Return
  <2> HIDE DEF asleep
  <2>2. CASE status[t] \in {"Ready", "Running", "Dead", "Free"}
    BY <1>1, <2>1, <2>2 DEF TypeOK
  <2>3. CASE status[t] \notin {"Ready", "Running", "Dead", "Free"}
    <3> HIDE DEF t
    <3>1. CoreOf[t] \in Cores /\ current_priority[t] \in Priorities
      BY <1>1, CoreAssumption DEF TypeOK
    <3>2. push_back(ready_queue[CoreOf[t]], current_priority[t], t)
             \in Lists(Priorities, Threads)
      BY <1>1, <3>1, ListOperationsType DEF TypeOK
    <3>3. ready_queue' \in [Cores -> Lists(Priorities, Threads)]
      BY <2>1, <2>3, <3>2 DEF TypeOK
    <3>4. status' \in [Threads -> Status]
      BY <2>1, <2>3 DEF TypeOK, Status
    <3>5. wakeup_callback' \in [Threads -> {"none", "sync"} \cup Arbiters]
      BY <2>1, <2>3 DEF TypeOK
    <3>6. halted' \subseteq Cores
      BY <2>1, <2>3 DEF TypeOK, PrepareReschedule
    <3> QED
      BY <1>1, <2>1, <3>3, <3>4, <3>5, <3>6 DEF TypeOK
  <2> QED
    BY <2>2, <2>3
<1> QED
  BY <1>2, <1>3

LEMMA StopStepType ==
    ASSUME TypeOK, StopStep
    PROVE  TypeOK'
<1> DEFINE t == top.thread
<1>1. /\ work \in Seq(Frames) /\ work # <<>>
      /\ Tail(work) \in Seq(Frames)
      /\ t \in Threads
  BY WorkTop, FrameFields DEF TypeOK, StopStep, Runs, top
<1>2. ready_queue' \in [Cores -> Lists(Priorities, Threads)]
  <2>1. ready_queue' = [ready_queue EXCEPT ![CoreOf[t]] =
           IF status[t] = "Ready" THEN remove(@, current_priority[t], t) ELSE @]
    BY DEF StopStep
  <2> HIDE DEF t
  <2>2. CoreOf[t] \in Cores /\ current_priority[t] \in Priorities
    BY <1>1, CoreAssumption DEF TypeOK
  <2>3. remove(ready_queue[CoreOf[t]], current_priority[t], t) \in Lists(Priorities, Threads)
    BY <1>1, <2>2, ListOperationsType DEF TypeOK
  <2> QED
    BY <2>1, <2>2, <2>3 DEF TypeOK
<1>3. status' \in [Threads -> Status]
  BY DEF TypeOK, StopStep, Status
<1>4. wakeup_events' \subseteq Threads /\ thread_list' \subseteq Threads
  BY DEF TypeOK, StopStep, CancelWakeup
<1>5. work' \in Seq(Frames)
  <2>1. t \in Objects /\ held_mutexes[t] \in SUBSET Mutexes
    BY <1>1 DEF TypeOK, Objects
  <2>2. /\ WakeupAll(t) \in Frames
        /\ RemoveWaiting(t) \in Frames
        /\ ReleaseMutexes(t, held_mutexes[t]) \in Frames
    BY <1>1, <2>1, FrameType
  <2>3. work' = <<WakeupAll(t), RemoveWaiting(t), ReleaseMutexes(t, held_mutexes[t])>>
                \o Tail(work)
    BY DEF StopStep, StopCalls
  <2> QED
    BY <1>1, <2>2, <2>3, PushFrames
<1> QED
  BY <1>2, <1>3, <1>4, <1>5 DEF TypeOK, StopStep

LEMMA ReleaseMutexesStepType ==
    ASSUME TypeOK, ReleaseMutexesStep
    PROVE  TypeOK'
<1> DEFINE t == top.thread
<1>1. /\ work \in Seq(Frames) /\ work # <<>>
      /\ Tail(work) \in Seq(Frames)
      /\ t \in Threads /\ top.mutexes \in SUBSET Mutexes
  BY WorkTop, FrameFields DEF TypeOK, ReleaseMutexesStep, Runs, top
<1>2. CASE top.mutexes = {}
  <2>1. held_mutexes' \in [Threads -> SUBSET Mutexes]
    BY <1>2 DEF TypeOK, ReleaseMutexesStep
  <2> QED
    BY <1>1, <1>2, <2>1 DEF TypeOK, ReleaseMutexesStep, Return
<1>3. CASE top.mutexes # {}
  <2>1. PICK m \in top.mutexes :
           /\ lock_count' = [lock_count EXCEPT ![m] = 0]
           /\ holding_thread' = [holding_thread EXCEPT ![m] = NoThread]
           /\ work' = <<WakeupAll(m), ReleaseMutexes(t, top.mutexes \ {m})>> \o Tail(work)
           /\ UNCHANGED held_mutexes
    BY <1>3 DEF ReleaseMutexesStep
  <2>2. lock_count' \in [Mutexes -> Nat]
    BY <2>1 DEF TypeOK
  <2>3. holding_thread' \in [Mutexes -> Threads \cup {NoThread}]
    BY <2>1 DEF TypeOK
  <2>4. work' \in Seq(Frames)
    <3>1. m \in Objects /\ top.mutexes \ {m} \in SUBSET Mutexes
      BY <1>1 DEF Objects
    <3>2. WakeupAll(m) \in Frames /\ ReleaseMutexes(t, top.mutexes \ {m}) \in Frames
      BY <1>1, <3>1, FrameType
    <3> QED
      BY <1>1, <2>1, <3>2, PushFrames
  <2> QED
    BY <2>1, <2>2, <2>3, <2>4 DEF TypeOK, ReleaseMutexesStep
<1> QED
  BY <1>2, <1>3

LEMMA TerminateThreadsStepType ==
    ASSUME TypeOK, TerminateThreadsStep
    PROVE  TypeOK'
<1> DEFINE c == top.core
           p == top.process
           last == current_thread[c]
           others == {t \in thread_list : CoreOf[t] = c /\ OwnerOf[t] = p /\ t # last}
<1>1. /\ work \in Seq(Frames) /\ work # <<>>
      /\ Tail(work) \in Seq(Frames)
      /\ c \in Cores
  BY WorkTop, FrameFields DEF TypeOK, TerminateThreadsStep, Runs, top
<1>2. CASE (\E t \in others : work' = <<Stop(t)>> \o work) /\ UNCHANGED halted
  <2>1. PICK t \in others : work' = <<Stop(t)>> \o work
    BY <1>2
  <2>2. Stop(t) \in Frames
    BY FrameType DEF TypeOK
  <2>3. work' \in Seq(Frames)
    BY <1>1, <2>1, <2>2, PushFrames
  <2> QED
    BY <1>2, <2>3 DEF TypeOK, TerminateThreadsStep
<1>3. CASE /\ others = {}
           /\ IF last # NoThread /\ OwnerOf[last] = p
              THEN /\ work' = <<Stop(last)>> \o Tail(work)
                   /\ PrepareReschedule(cpu)
              ELSE /\ Return
                   /\ UNCHANGED halted
  <2>1. CASE last # NoThread /\ OwnerOf[last] = p
    <3>1. Stop(last) \in Frames
      BY <1>1, <2>1, FrameType DEF TypeOK
    <3>2. work' \in Seq(Frames)
      BY <1>1, <1>3, <2>1, <3>1, PushFrames
    <3>3. halted' \subseteq Cores
      BY <1>3, <2>1 DEF TypeOK, PrepareReschedule
    <3> QED
      BY <3>2, <3>3 DEF TypeOK, TerminateThreadsStep
  <2>2. CASE ~ (last # NoThread /\ OwnerOf[last] = p)
    <3>1. work' = Tail(work) /\ UNCHANGED halted
      BY <1>3, <2>2 DEF Return
    <3> QED
      BY <1>1, <3>1 DEF TypeOK, TerminateThreadsStep
  <2> QED
    BY <2>1, <2>2
<1> QED
  BY <1>2, <1>3 DEF TerminateThreadsStep

LEMMA ResumeArbitratedStepType ==
    ASSUME TypeOK, ResumeArbitratedStep
    PROVE  TypeOK'
<1> DEFINE a == top.arbiter
           ts == arb_waiting[a]
           there == {i \in 1..Len(ts) : wait_address[ts[i]] = top.address}
           levels == {current_priority[ts[i]] : i \in there}
           best == Min(levels)
           firsts == {i \in there : current_priority[ts[i]] = best}
           next == IF top.count = -1 THEN Min(there) ELSE Min(firsts)
           count == IF top.count = -1 THEN -1 ELSE top.count - 1
           corrupt == top.count # 0 /\ \E i \in 1..Len(ts) : status[ts[i]] # "WaitArb"
<1>1. /\ work \in Seq(Frames) /\ work # <<>>
      /\ Tail(work) \in Seq(Frames)
      /\ top \in Frames /\ top.op = "ResumeArbitrated"
      /\ a \in Arbiters /\ top.address \in Addresses /\ top.count \in Int
  BY WorkTop, FrameFields DEF TypeOK, ResumeArbitratedStep, Runs, top
<1>2. ts \in Seq(Threads)
  BY <1>1 DEF TypeOK
<1>3. CASE corrupt
  <2>1. fault' = "Inconsistent AddressArbiter state" /\ UNCHANGED systemVars
    BY <1>3 DEF ResumeArbitratedStep, Fail
  <2>2. fault' \in Faults
    BY <2>1 DEF Faults
  <2> QED
    BY <2>1, <2>2, FailType
<1>4. CASE ~corrupt /\ (top.count = 0 \/ there = {})
  <2>1. /\ work' = Tail(work)
        /\ UNCHANGED <<arb_waiting, status, mutex_priority, prioVars, ownVars, waitVars,
                       countVars, timeVars, runVars, cpuVars, lifeVars, wait_address,
                       setupVars, replyVars, fault>>
    BY <1>4 DEF ResumeArbitratedStep, Return
  <2> QED
    BY <1>1, <2>1 DEF TypeOK
<1>5. CASE ~corrupt /\ ~(top.count = 0 \/ there = {})
  <2>1. /\ arb_waiting' = [arb_waiting EXCEPT ![a] = RemoveAt(ts, next)]
        /\ work' = <<Resume(ts[next]), [top EXCEPT !.count = count]>> \o Tail(work)
        /\ UNCHANGED <<status, mutex_priority, prioVars, ownVars, waitVars,
                       countVars, timeVars, runVars, cpuVars, lifeVars, wait_address,
                       setupVars, replyVars, fault>>
    BY <1>5 DEF ResumeArbitratedStep
  <2>2. next \in 1..Len(ts)
    <3>1. there \subseteq 1..Len(ts) /\ there \subseteq Nat /\ there # {}
      BY <1>5
    <3>2. Min(there) \in 1..Len(ts)
      <4> HIDE DEF there
      <4> QED
        BY <3>1, MinNat
    <3>3. levels \subseteq Priorities /\ levels # {}
      <4>1. \A i \in there : ts[i] \in Threads
        BY <1>2
      <4>2. \A i \in there : current_priority[ts[i]] \in Priorities
        BY <4>1 DEF TypeOK
      <4> HIDE DEF ts, there
      <4> QED
        BY <3>1, <4>2
    <3>4. best \in levels
      <4> HIDE DEF levels
      <4> QED
        BY <3>3, MinPriority
    <3>5. firsts # {} /\ firsts \subseteq Nat /\ firsts \subseteq 1..Len(ts)
      <4> HIDE DEF best
      <4> QED
        BY <3>4
    <3>6. Min(firsts) \in 1..Len(ts)
      <4> HIDE DEF firsts
      <4> QED
        BY <3>5, MinNat
    <3> HIDE DEF firsts, there
    <3> QED
      BY <3>2, <3>6
  <2> HIDE DEF next, ts, a
  <2>3. ts[next] \in Threads /\ RemoveAt(ts, next) \in Seq(Threads)
    BY <1>2, <2>2, RemoveAtType
  <2>4. arb_waiting' \in [Arbiters -> Seq(Threads)]
    BY <2>1, <2>3 DEF TypeOK
  <2>5. [top EXCEPT !.count = count] \in Frames
    <3>1. count \in Int
      BY <1>1
    <3>2. top \in [op : {"ResumeArbitrated"}, arbiter : Arbiters, address : Addresses,
                   count : Int]
      BY <1>1 DEF Frames
    <3> HIDE DEF count
    <3>3. [top EXCEPT !.count = count] \in
              [op : {"ResumeArbitrated"}, arbiter : Arbiters, address : Addresses,
               count : Int]
      BY <3>1, <3>2
    <3> QED
      BY <3>3 DEF Frames
  <2>6. work' \in Seq(Frames)
    <3>1. Resume(ts[next]) \in Frames
      BY <2>3, FrameType
    <3> QED
      BY <1>1, <2>1, <2>5, <3>1, PushFrames
  <2> QED
    BY <2>1, <2>4, <2>6 DEF TypeOK
<1> QED
  BY <1>3, <1>4, <1>5

(* The first thread of a core's queue, if any, is a thread.                *)
LEMMA FirstType ==
    ASSUME TypeOK, NEW c \in Cores
    PROVE  get_first(ready_queue[c]) \in Threads \cup {NoThread}
<1>1. Priorities \subseteq Nat
  BY CoreAssumption DEF Priorities
<1>2. ready_queue[c] \in Lists(Priorities, Threads)
  BY DEF TypeOK
<1> QED
  BY <1>1, <1>2, PopType DEF get_first

LEMMA BoostStarvedStepType ==
    ASSUME TypeOK, BoostStarvedStep
    PROVE  TypeOK'
<1> DEFINE c == top.core
           first == get_first(ready_queue[c])
<1>1. /\ work \in Seq(Frames) /\ work # <<>>
      /\ Tail(work) \in Seq(Frames)
      /\ c \in Cores /\ top.threads \in SUBSET Threads
  BY WorkTop, FrameFields DEF TypeOK, BoostStarvedStep, Runs, top
<1>2. CASE top.threads # {} /\ first = NoThread
  <2>1. fault' = "null thread" /\ UNCHANGED systemVars
    BY <1>2 DEF BoostStarvedStep, Fail
  <2>2. fault' \in Faults
    BY <2>1 DEF Faults
  <2> QED
    BY <2>1, <2>2, FailType
<1>3. CASE top.threads = {}
  <2>1. /\ work' = Tail(work)
        /\ UNCHANGED <<prioVars, status, mutex_priority, ownVars, waitVars, countVars,
                       timeVars, runVars, cpuVars, lifeVars, arbVars, setupVars, replyVars,
                       fault>>
    BY <1>3 DEF BoostStarvedStep, Return
  <2> QED
    BY <1>1, <2>1 DEF TypeOK
<1>4. CASE top.threads # {} /\ first # NoThread
  <2> DEFINE p == Max({current_priority[first], BoostFloor})
  <2>1. PICK t \in top.threads :
           /\ BoostPriority(t, p)
           /\ work' = <<BoostStarved(c, top.threads \ {t})>> \o Tail(work)
           /\ UNCHANGED <<status, mutex_priority, ownVars, waitVars, countVars, timeVars,
                          runVars, cpuVars, lifeVars, arbVars, setupVars, replyVars, fault>>
    BY <1>4 DEF BoostStarvedStep
  <2>2. p \in Priorities
    <3>1. first \in Threads
      BY <1>1, <1>4, FirstType
    <3>2. current_priority[first] \in Priorities /\ BoostFloor \in Priorities
      BY <3>1, CoreAssumption DEF TypeOK
    <3> HIDE DEF first
    <3> QED
      BY <3>2, MaxPair, CoreAssumption DEF Priorities
  <2> HIDE DEF p
  <2>3. /\ current_priority' \in [Threads -> Priorities]
        /\ ready_queue' \in [Cores -> Lists(Priorities, Threads)]
    BY <1>1, <2>1, <2>2, BoostPriorityType
  <2>4. work' \in Seq(Frames)
    <3>1. BoostStarved(c, top.threads \ {t}) \in Frames
      BY <1>1, FrameType
    <3> QED
      BY <1>1, <2>1, <3>1, PushFrames
  <2> QED
    BY <2>1, <2>3, <2>4 DEF TypeOK
<1> QED
  BY <1>2, <1>3, <1>4

LEMMA PopNextStepType ==
    ASSUME TypeOK, PopNextStep
    PROVE  TypeOK'
<1> DEFINE c == top.core
           old == current_thread[c]
           levels == IF IsRunning(old)
                     THEN OccupiedBelow(ready_queue[c], current_priority[old])
                     ELSE Occupied(ready_queue[c])
           next == front(ready_queue[c], levels)
           offChain == /\ IsRunning(old)
                       /\ levels = {}
                       /\ \A p \in ready_queue[c].linked : p < current_priority[old]
<1>1. /\ work \in Seq(Frames) /\ work # <<>>
      /\ Tail(work) \in Seq(Frames)
      /\ c \in Cores
  BY WorkTop, FrameFields DEF TypeOK, PopNextStep, Runs, top
<1>2. CASE offChain
  <2>1. fault' = "null level" /\ UNCHANGED systemVars
    BY <1>2 DEF PopNextStep, Fail
  <2>2. fault' \in Faults
    BY <2>1 DEF Faults
  <2> QED
    BY <2>1, <2>2, FailType
<1>3. CASE ~offChain
  <2>1. /\ ready_queue' = [ready_queue EXCEPT ![c] = pop(@, levels)]
        /\ IF next # NoThread /\ ~can_schedule[next]
           THEN /\ unscheduled_ready_queue' = Append(unscheduled_ready_queue, next)
                /\ UNCHANGED work
           ELSE /\ work' = <<Requeue(c, IF next = NoThread /\ IsRunning(old)
                                        THEN old ELSE next)>> \o Tail(work)
                /\ UNCHANGED unscheduled_ready_queue
        /\ UNCHANGED <<status, mutex_priority, current_priority, ownVars, waitVars,
                       countVars, timeVars, current_thread, cpuVars, lifeVars, arbVars,
                       setupVars, replyVars, fault>>
    BY <1>3 DEF PopNextStep
  <2>2. levels \subseteq Occupied(ready_queue[c])
    BY DEF OccupiedBelow
  <2> HIDE DEF levels, offChain
  <2>3. /\ next \in Threads \cup {NoThread}
        /\ pop(ready_queue[c], levels) \in Lists(Priorities, Threads)
    <3>1. Priorities \subseteq Nat
      BY CoreAssumption DEF Priorities
    <3>2. ready_queue[c] \in Lists(Priorities, Threads)
      BY <1>1 DEF TypeOK
    <3> QED
      BY <2>2, <3>1, <3>2, PopType
  <2>4. ready_queue' \in [Cores -> Lists(Priorities, Threads)]
    BY <2>1, <2>3 DEF TypeOK
  <2> HIDE DEF next
  <2>5. CASE next # NoThread /\ ~can_schedule[next]
    <3>1. /\ unscheduled_ready_queue' = Append(unscheduled_ready_queue, next)
          /\ work' = work
      BY <2>1, <2>5
    <3>2. next \in Threads
      BY <2>3, <2>5
    <3>3. unscheduled_ready_queue' \in Seq(Threads)
      BY <3>1, <3>2, AppendProperties DEF TypeOK
    <3> QED
      BY <1>1, <2>1, <2>4, <3>1, <3>3 DEF TypeOK
  <2>6. CASE ~ (next # NoThread /\ ~can_schedule[next])
    <3> DEFINE chosen == IF next = NoThread /\ IsRunning(old) THEN old ELSE next
    <3>1. chosen \in Threads \cup {NoThread}
      BY <1>1, <2>3 DEF TypeOK
    <3>2. /\ work' = <<Requeue(c, chosen)>> \o Tail(work)
          /\ UNCHANGED unscheduled_ready_queue
      BY <2>1, <2>6
    <3> HIDE DEF chosen
    <3>3. Requeue(c, chosen) \in Frames
      BY <1>1, <3>1, FrameType
    <3>4. work' \in Seq(Frames)
      BY <1>1, <3>2, <3>3, PushFrames
    <3> QED
      BY <2>1, <2>4, <3>2, <3>4 DEF TypeOK
  <2> QED
    BY <2>5, <2>6
<1> QED
  BY <1>2, <1>3

LEMMA RequeueStepType ==
    ASSUME TypeOK, RequeueStep
    PROVE  TypeOK'
<1> DEFINE c == top.core
           t == Last(unscheduled_ready_queue)
<1>1. /\ work \in Seq(Frames) /\ work # <<>>
      /\ Tail(work) \in Seq(Frames)
      /\ c \in Cores /\ top.next \in Threads \cup {NoThread}
  BY WorkTop, FrameFields DEF TypeOK, RequeueStep, Runs, top
<1>2. CASE unscheduled_ready_queue = <<>>
  <2>1. SwitchContext(c, top.next) \in Frames
    BY <1>1, FrameType
  <2>2. /\ work' = <<SwitchContext(c, top.next)>> \o Tail(work)
        /\ UNCHANGED <<ready_queue, unscheduled_ready_queue>>
    BY <1>2 DEF RequeueStep
  <2>3. work' \in Seq(Frames)
    BY <1>1, <2>1, <2>2, PushFrames
  <2> QED
    BY <2>2, <2>3 DEF TypeOK, RequeueStep
<1>3. CASE unscheduled_ready_queue # <<>>
  <2>1. t \in Threads /\ Front(unscheduled_ready_queue) \in Seq(Threads)
    <3>1. /\ unscheduled_ready_queue \in Seq(Threads)
          /\ Len(unscheduled_ready_queue) \in Nat \ {0}
      BY <1>3, EmptySeq, LenProperties DEF TypeOK
    <3>2. t \in Threads
      BY <3>1 DEF Last
    <3>3. \A i \in 1..(Len(unscheduled_ready_queue) - 1) :
             unscheduled_ready_queue[i] \in Threads
      BY <3>1
    <3>4. Front(unscheduled_ready_queue) \in Seq(Threads)
      BY <3>1, <3>3, SubSeqProperties DEF Front
    <3> QED
      BY <3>2, <3>4
  <2>2. /\ ready_queue' = [ready_queue EXCEPT ![c] = push_back(@, current_priority[t], t)]
        /\ unscheduled_ready_queue' = Front(unscheduled_ready_queue)
        /\ UNCHANGED work
    BY <1>3 DEF RequeueStep
  <2> HIDE DEF t
  <2>3. push_back(ready_queue[c], current_priority[t], t) \in Lists(Priorities, Threads)
    BY <1>1, <2>1, ListOperationsType DEF TypeOK
  <2>4. ready_queue' \in [Cores -> Lists(Priorities, Threads)]
    BY <2>2, <2>3 DEF TypeOK
  <2> QED
    BY <2>1, <2>2, <2>4 DEF TypeOK, RequeueStep
<1> QED
  BY <1>2, <1>3

LEMMA SwitchContextStepType ==
    ASSUME TypeOK, SwitchContextStep
    PROVE  TypeOK'
<1> DEFINE c == top.core
           old == current_thread[c]
           new == top.next
           queue == IF IsRunning(old)
                    THEN push_front(ready_queue[c], current_priority[old], old)
                    ELSE ready_queue[c]
           saved == IF IsRunning(old) THEN [status EXCEPT ![old] = "Ready"] ELSE status
<1>1. /\ work \in Seq(Frames) /\ work # <<>>
      /\ Tail(work) \in Seq(Frames)
      /\ c \in Cores /\ new \in Threads \cup {NoThread}
  BY WorkTop, FrameFields DEF TypeOK, SwitchContextStep, Runs, top
<1>2. queue \in Lists(Priorities, Threads)
  <2>1. ready_queue[c] \in Lists(Priorities, Threads)
    BY <1>1 DEF TypeOK
  <2>2. CASE IsRunning(old)
    <3>1. old \in Threads /\ current_priority[old] \in Priorities
      BY <1>1, <2>2 DEF TypeOK, IsRunning
    <3> HIDE DEF old
    <3> QED
      BY <2>1, <2>2, <3>1, ListOperationsType
  <2> QED
    BY <2>1, <2>2
<1>3. saved \in [Threads -> Status]
  BY DEF TypeOK, Status
<1>4. UNCHANGED <<mutex_priority, ownVars, waitVars, countVars, timer_events, periodic,
                  unscheduled_ready_queue, cpuVars, lifeVars, arbVars, setupVars,
                  wakeup_callback>>
  BY DEF SwitchContextStep
<1>5. CASE new = NoThread
  <2>1. /\ current_thread' = [current_thread EXCEPT ![c] = NoThread]
        /\ status' = saved
        /\ ready_queue' = [ready_queue EXCEPT ![c] = queue]
        /\ work' = Tail(work)
        /\ UNCHANGED <<current_priority, wakeup_events, outcome, acquired, fault>>
    BY <1>5 DEF SwitchContextStep, Return
  <2> HIDE DEF saved, queue
  <2>2. /\ current_thread' \in [Cores -> Threads \cup {NoThread}]
        /\ ready_queue' \in [Cores -> Lists(Priorities, Threads)]
    BY <1>2, <2>1 DEF TypeOK
  <2> QED
    BY <1>1, <1>3, <1>4, <2>1, <2>2 DEF TypeOK
<1>6. CASE new # NoThread /\ saved[new] # "Ready"
  <2>1. /\ fault' = "Thread must be ready to become running."
        /\ UNCHANGED <<current_thread, status, ready_queue, current_priority, wakeup_events,
                       outcome, acquired, work>>
    BY <1>6 DEF SwitchContextStep
  <2>2. fault' \in Faults
    BY <2>1 DEF Faults
  <2>3. UNCHANGED systemVars
    BY <1>4, <2>1 DEF systemVars
  <2> QED
    BY <2>2, <2>3, FailType
<1>7. CASE new # NoThread /\ saved[new] = "Ready"
  <2>1. /\ current_thread' = [current_thread EXCEPT ![c] = new]
        /\ status' = [saved EXCEPT ![new] = "Running"]
        /\ ready_queue' = [ready_queue EXCEPT ![c] = remove(queue, current_priority[new], new)]
        /\ current_priority' = [current_priority EXCEPT ![new] = nominal_priority[new]]
        /\ CancelWakeup(new)
        /\ outcome' = [outcome EXCEPT ![new] = "none"]
        /\ acquired' = [acquired EXCEPT ![new] = {}]
        /\ work' = Tail(work)
        /\ UNCHANGED fault
    BY <1>7 DEF SwitchContextStep, Return
  <2> HIDE DEF saved, queue
  <2>2. new \in Threads /\ current_priority[new] \in Priorities
    BY <1>1, <1>7 DEF TypeOK
  <2>3. remove(queue, current_priority[new], new) \in Lists(Priorities, Threads)
    BY <1>2, <2>2, ListOperationsType
  <2> HIDE DEF new
  <2>4. ready_queue' \in [Cores -> Lists(Priorities, Threads)]
    BY <2>1, <2>3 DEF TypeOK
  <2>5. current_thread' \in [Cores -> Threads \cup {NoThread}]
    BY <2>1, <2>2 DEF TypeOK
  <2>6. status' \in [Threads -> Status]
    BY <1>3, <2>1 DEF Status
  <2>7. current_priority' \in [Threads -> Priorities]
    BY <2>1, <2>2 DEF TypeOK
  <2>8. wakeup_events' \subseteq Threads
    BY <2>1 DEF TypeOK, CancelWakeup
  <2>9. outcome' \in [Threads -> {"none"} \cup Reasons]
    BY <2>1 DEF TypeOK
  <2>10. acquired' \in [Threads -> SUBSET Objects]
    BY <2>1 DEF TypeOK
  <2> QED
    BY <1>1, <1>4, <2>1, <2>4, <2>5, <2>6, <2>7, <2>8, <2>9, <2>10 DEF TypeOK
<1> QED
  BY <1>5, <1>6, <1>7

LEMMA KernelStepType ==
    ASSUME TypeOK, KernelStep
    PROVE  TypeOK'
BY UpdateMutexesStepType, AcquireStepType, AddWaitingStepType, RemoveWaitingStepType,
   WakeupAllStepType, CallbackStepType, ResumeStepType, StopStepType,
   ReleaseMutexesStepType, TerminateThreadsStepType, ResumeArbitratedStepType,
   BoostStarvedStepType, PopNextStepType, RequeueStepType, SwitchContextStepType
   DEF KernelStep

(***************************************************************************)
(* Each SVC and each event keeps the types.                                *)
(***************************************************************************)
LEMMA InitType ==
    ASSUME Init
    PROVE  TypeOK
<1>1. 0 \in Cores /\ 0 \in Priorities
  BY CoreAssumption DEF Cores, Priorities
<1>2. ready_queue \in [Cores -> Lists(Priorities, Threads)]
  BY DEF Init, EmptyList, Lists
<1>3. status \in [Threads -> Status]
  BY DEF Init, Status
<1>4. fault \in Faults
  BY DEF Init, Faults
<1>5. /\ nominal_priority \in [Threads -> Priorities]
      /\ current_priority \in [Threads -> Priorities]
      /\ available_count \in [Semaphores -> Int]
  BY SyncAssumption DEF Init
<1>6. /\ wait_objects \in [Threads -> Seq(Objects)]
      /\ waiting_threads \in [Objects -> Seq(Threads)]
      /\ arb_waiting \in [Arbiters -> Seq(Threads)]
      /\ unscheduled_ready_queue \in Seq(Threads)
      /\ work \in Seq(Frames)
  BY DEF Init
<1>7. /\ can_schedule \in [Threads -> BOOLEAN]
      /\ held_mutexes \in [Threads -> SUBSET Mutexes]
      /\ pending_mutexes \in [Threads -> SUBSET Mutexes]
      /\ wakeup_callback \in [Threads -> {"none", "sync"} \cup Arbiters]
      /\ wait_address \in [Threads -> Addresses \cup {0}]
      /\ lock_count \in [Mutexes -> Nat]
      /\ holding_thread \in [Mutexes -> Threads \cup {NoThread}]
      /\ mutex_priority \in [Mutexes -> Priorities]
      /\ signaled \in [Signals -> BOOLEAN]
      /\ periodic \in [Timers -> BOOLEAN]
      /\ current_thread \in [Cores -> Threads \cup {NoThread}]
      /\ outcome \in [Threads -> {"none"} \cup Reasons]
      /\ acquired \in [Threads -> SUBSET Objects]
  BY <1>1 DEF Init
<1>8. /\ thread_list \subseteq Threads
      /\ wakeup_events \subseteq Threads
      /\ timer_events \subseteq Timers
      /\ cpu \in Cores
      /\ halted \subseteq Cores
      /\ exited \subseteq Processes
  BY <1>1 DEF Init
<1> QED
  BY <1>2, <1>3, <1>4, <1>5, <1>6, <1>7, <1>8 DEF TypeOK

(* A wait that is granted.                                                 *)
LEMMA GrantsType ==
    ASSUME TypeOK, NEW t \in Threads, NEW os \in Seq(Objects), Grants(t, os)
    PROVE  /\ status' = status
           /\ wait_objects' = wait_objects
           /\ wakeup_callback' = wakeup_callback
           /\ outcome' = outcome
           /\ wakeup_events' = wakeup_events
           /\ halted' = halted
           /\ work' \in Seq(Frames)
BY AcquireCallsType DEF Grants

(* A wait that puts the thread to sleep.                                   *)
LEMMA SleepsType ==
    ASSUME TypeOK, NEW c \in Cores, NEW t \in Threads, NEW os \in Seq(Objects),
           NEW s \in WaitingOnObjects, NEW timeout, Sleeps(c, t, os, s, timeout)
    PROVE  /\ status' \in [Threads -> Status]
           /\ wait_objects' \in [Threads -> Seq(Objects)]
           /\ wakeup_callback' \in [Threads -> {"none", "sync"} \cup Arbiters]
           /\ outcome' \in [Threads -> {"none"} \cup Reasons]
           /\ wakeup_events' \subseteq Threads
           /\ halted' \subseteq Cores
           /\ work' \in Seq(Frames)
<1>1. status' \in [Threads -> Status]
  BY DEF TypeOK, Sleeps, Status, WaitingStatus
<1>2. wait_objects' \in [Threads -> Seq(Objects)]
  BY DEF TypeOK, Sleeps
<1>3. wakeup_callback' \in [Threads -> {"none", "sync"} \cup Arbiters]
  BY DEF TypeOK, Sleeps
<1>4. outcome' \in [Threads -> {"none"} \cup Reasons]
  BY DEF TypeOK, Sleeps, Reasons
<1>5. wakeup_events' \subseteq Threads /\ halted' \subseteq Cores
  BY DEF TypeOK, Sleeps, WakeAfterDelay, PrepareReschedule
<1>6. work' \in Seq(Frames)
  <2>1. AddWaiting(t, os) \in Frames
    BY FrameType
  <2> QED
    BY <2>1 DEF Sleeps
<1> QED
  BY <1>1, <1>2, <1>3, <1>4, <1>5, <1>6

LEMMA WaitSynchronizationAnyType ==
    ASSUME TypeOK, NEW c \in Cores, NEW t \in Threads, NEW os \in WaitLists, NEW timeout,
           WaitSynchronizationAny(c, t, os, timeout)
    PROVE  TypeOK'
<1> DEFINE available == {i \in 1..Len(os) : ~ShouldWait(os[i], t)}
<1>1. os \in Seq(Objects)
  BY SyncAssumption
<1>2. /\ cpu' = c
      /\ IF available # {}
         THEN Grants(t, <<os[Min(available)]>>)
         ELSE Sleeps(c, t, os, "WaitSynchAny", timeout)
      /\ UNCHANGED <<mutex_priority, prioVars, ownVars, waiting_threads, pending_mutexes,
                     countVars, timer_events, periodic, runVars, lifeVars, arbVars,
                     setupVars, acquired, fault>>
  BY DEF WaitSynchronizationAny, Svc
<1>3. /\ status' \in [Threads -> Status]
      /\ wait_objects' \in [Threads -> Seq(Objects)]
      /\ wakeup_callback' \in [Threads -> {"none", "sync"} \cup Arbiters]
      /\ outcome' \in [Threads -> {"none"} \cup Reasons]
      /\ wakeup_events' \subseteq Threads
      /\ halted' \subseteq Cores
      /\ work' \in Seq(Frames)
  <2>1. CASE available # {}
    <3>1. Min(available) \in 1..Len(os)
      <4>1. available \subseteq 1..Len(os) /\ available \subseteq Nat
        OBVIOUS
      <4> HIDE DEF available
      <4> QED
        BY <2>1, <4>1, MinNat
    <3> HIDE DEF available
    <3>2. <<os[Min(available)]>> \in Seq(Objects)
      BY <1>1, <3>1
    <3> QED
      BY <1>2, <2>1, <3>2, GrantsType DEF TypeOK
  <2>2. CASE available = {}
    <3>1. "WaitSynchAny" \in WaitingOnObjects
      BY DEF WaitingOnObjects
    <3> QED
      BY <1>1, <1>2, <2>2, <3>1, SleepsType
  <2> QED
    BY <2>1, <2>2
<1> QED
  BY <1>2, <1>3 DEF TypeOK

LEMMA WaitSynchronizationAllType ==
    ASSUME TypeOK, NEW c \in Cores, NEW t \in Threads, NEW os \in WaitLists, NEW timeout,
           WaitSynchronizationAll(c, t, os, timeout)
    PROVE  TypeOK'
<1>1. os \in Seq(Objects)
  BY SyncAssumption
<1>2. /\ cpu' = c
      /\ Grants(t, os) \/ Sleeps(c, t, os, "WaitSynchAll", timeout)
      /\ UNCHANGED <<mutex_priority, prioVars, ownVars, waiting_threads, pending_mutexes,
                     countVars, timer_events, periodic, runVars, lifeVars, arbVars,
                     setupVars, acquired, fault>>
  BY DEF WaitSynchronizationAll, Svc
<1>3. /\ status' \in [Threads -> Status]
      /\ wait_objects' \in [Threads -> Seq(Objects)]
      /\ wakeup_callback' \in [Threads -> {"none", "sync"} \cup Arbiters]
      /\ outcome' \in [Threads -> {"none"} \cup Reasons]
      /\ wakeup_events' \subseteq Threads
      /\ halted' \subseteq Cores
      /\ work' \in Seq(Frames)
  <2>1. CASE Grants(t, os)
    BY <1>1, <2>1, GrantsType DEF TypeOK
  <2>2. CASE Sleeps(c, t, os, "WaitSynchAll", timeout)
    <3>1. "WaitSynchAll" \in WaitingOnObjects
      BY DEF WaitingOnObjects
    <3> QED
      BY <1>1, <2>2, <3>1, SleepsType
  <2> QED
    BY <1>2, <2>1, <2>2
<1> QED
  BY <1>2, <1>3 DEF TypeOK

LEMMA SleepThreadType ==
    ASSUME TypeOK, NEW c \in Cores, NEW t \in Threads, NEW timeout, SleepThread(c, t, timeout)
    PROVE  TypeOK'
<1>1. status' \in [Threads -> Status]
  BY DEF TypeOK, SleepThread, Status, WaitingStatus
<1>2. wakeup_events' \subseteq Threads /\ halted' \subseteq Cores
  BY DEF TypeOK, SleepThread, WakeAfterDelay, PrepareReschedule
<1> QED
  BY <1>1, <1>2 DEF TypeOK, SleepThread, Svc

LEMMA ArbitrateWaitType ==
    ASSUME TypeOK, NEW c \in Cores, NEW t \in Threads, NEW a \in Arbiters,
           NEW addr \in Addresses, NEW timeout, ArbitrateWait(c, t, a, addr, timeout)
    PROVE  TypeOK'
<1>1. status' \in [Threads -> Status]
  BY DEF TypeOK, ArbitrateWait, Status, WaitingStatus
<1>2. wakeup_events' \subseteq Threads /\ halted' \subseteq Cores
  BY DEF TypeOK, ArbitrateWait, WakeAfterDelay, PrepareReschedule
<1>3. wakeup_callback' \in [Threads -> {"none", "sync"} \cup Arbiters]
  BY DEF TypeOK, ArbitrateWait
<1>4. wait_address' \in [Threads -> Addresses \cup {0}]
  BY DEF TypeOK, ArbitrateWait
<1>5. arb_waiting' \in [Arbiters -> Seq(Threads)]
  <2>1. Append(arb_waiting[a], t) \in Seq(Threads)
    BY AppendProperties DEF TypeOK
  <2> QED
    BY <2>1 DEF TypeOK, ArbitrateWait
<1> QED
  BY <1>1, <1>2, <1>3, <1>4, <1>5 DEF TypeOK, ArbitrateWait, Svc

LEMMA WaitSvcType ==
    ASSUME TypeOK, NEW c \in Cores, NEW t \in Threads, WaitSvc(c, t)
    PROVE  TypeOK'
BY WaitSynchronizationAnyType, WaitSynchronizationAllType, SleepThreadType,
   ArbitrateWaitType DEF WaitSvc

(* Starting the wakeup loop of an object.                                  *)
LEMMA WakeupAllType ==
    ASSUME NEW o \in Objects
    PROVE  <<WakeupAll(o)>> \in Seq(Frames)
<1>1. WakeupAll(o) \in Frames
  BY FrameType
<1> QED
  BY <1>1

LEMMA ReleaseMutexType ==
    ASSUME TypeOK, NEW c \in Cores, NEW t \in Threads, NEW m \in Mutexes, ReleaseMutex(c, t, m)
    PROVE  TypeOK'
<1>1. lock_count' \in [Mutexes -> Nat]
  <2>1. lock_count[m] - 1 \in Nat
    BY DEF TypeOK, ReleaseMutex
  <2> QED
    BY <2>1 DEF TypeOK, ReleaseMutex
<1>2. CASE lock_count[m] = 1
  <2> DEFINE hm == [held_mutexes EXCEPT ![t] = @ \ {m}]
  <2>1. /\ held_mutexes' = hm
        /\ BoostPriority(t, BestPriority(t, hm[t], mutex_priority))
    BY <1>2 DEF ReleaseMutex
  <2>2. held_mutexes' \in [Threads -> SUBSET Mutexes]
    BY <2>1 DEF TypeOK
  <2>3. BestPriority(t, hm[t], mutex_priority) \in Priorities
    <3>1. hm[t] \in SUBSET Mutexes
      BY <2>1, <2>2
    <3> HIDE DEF hm
    <3> QED
      BY <3>1, BestPriorityType DEF TypeOK
  <2> HIDE DEF hm
  <2>4. /\ current_priority' \in [Threads -> Priorities]
        /\ ready_queue' \in [Cores -> Lists(Priorities, Threads)]
    BY <2>1, <2>3, BoostPriorityType
  <2>5. holding_thread' \in [Mutexes -> Threads \cup {NoThread}]
    <3>1. holding_thread' = [holding_thread EXCEPT ![m] = NoThread]
      BY <1>2 DEF ReleaseMutex
    <3> QED
      BY <3>1 DEF TypeOK
  <2>6. work' \in Seq(Frames)
    BY <1>2, WakeupAllType DEF ReleaseMutex, Objects
  <2>7. halted' \subseteq Cores
    BY <1>2 DEF TypeOK, ReleaseMutex, PrepareReschedule
  <2> QED
    BY <1>1, <2>2, <2>4, <2>5, <2>6, <2>7 DEF TypeOK, ReleaseMutex, Svc
<1>3. CASE lock_count[m] # 1
  BY <1>1, <1>3 DEF TypeOK, ReleaseMutex, Svc
<1> QED
  BY <1>2, <1>3

LEMMA ReleaseSemaphoreType ==
    ASSUME TypeOK, NEW c \in Cores, NEW t \in Threads, NEW s \in Semaphores,
           NEW count \in ReleaseCounts, ReleaseSemaphore(c, t, s, count)
    PROVE  TypeOK'
<1>1. available_count' \in [Semaphores -> Int]
  <2>1. available_count[s] + count \in Int
    BY SyncAssumption DEF TypeOK
  <2> QED
    BY <2>1 DEF TypeOK, ReleaseSemaphore
<1>2. work' \in Seq(Frames)
  BY WakeupAllType DEF ReleaseSemaphore, Objects
<1> QED
  BY <1>1, <1>2 DEF TypeOK, ReleaseSemaphore, Svc

LEMMA SignalEventType ==
    ASSUME TypeOK, NEW c \in Cores, NEW t \in Threads, NEW e \in Events, SignalEvent(c, t, e)
    PROVE  TypeOK'
<1>1. signaled' \in [Signals -> BOOLEAN]
  BY DEF TypeOK, SignalEvent
<1>2. work' \in Seq(Frames)
  BY WakeupAllType DEF SignalEvent, Objects, Signals
<1> QED
  BY <1>1, <1>2 DEF TypeOK, SignalEvent, Svc

LEMMA ClearSignalType ==
    ASSUME TypeOK, NEW c \in Cores, NEW t \in Threads, NEW e \in Signals, ClearSignal(c, t, e)
    PROVE  TypeOK'
<1>1. signaled' \in [Signals -> BOOLEAN]
  BY DEF TypeOK, ClearSignal
<1> QED
  BY <1>1 DEF TypeOK, ClearSignal, Svc

LEMMA SetTimerType ==
    ASSUME TypeOK, NEW c \in Cores, NEW t \in Threads, NEW e \in Timers,
           NEW delayed \in BOOLEAN, NEW interval \in BOOLEAN,
           SetTimer(c, t, e, delayed, interval)
    PROVE  TypeOK'
<1>1. signaled' \in [Signals -> BOOLEAN]
  BY DEF TypeOK, SetTimer
<1>2. periodic' \in [Timers -> BOOLEAN] /\ timer_events' \subseteq Timers
  BY DEF TypeOK, SetTimer
<1>3. work' \in Seq(Frames)
  <2>1. <<WakeupAll(e)>> \in Seq(Frames)
    BY WakeupAllType DEF Objects, Signals
  <2> QED
    BY <2>1 DEF SetTimer
<1> QED
  BY <1>1, <1>2, <1>3 DEF TypeOK, SetTimer, Svc

LEMMA CancelTimerType ==
    ASSUME TypeOK, NEW c \in Cores, NEW t \in Threads, NEW e \in Timers, CancelTimer(c, t, e)
    PROVE  TypeOK'
<1>1. timer_events' \subseteq Timers
  BY DEF TypeOK, CancelTimer
<1> QED
  BY <1>1 DEF TypeOK, CancelTimer, Svc

LEMMA ArbitrateSignalType ==
    ASSUME TypeOK, NEW c \in Cores, NEW t \in Threads, NEW a \in Arbiters,
           NEW addr \in Addresses, NEW count \in ArbitrateCounts,
           ArbitrateSignal(c, t, a, addr, count)
    PROVE  TypeOK'
<1>1. work' \in Seq(Frames)
  <2>1. count \in Int
    BY SyncAssumption
  <2>2. ResumeArbitrated(a, addr, count) \in Frames
    BY <2>1, FrameType
  <2> QED
    BY <2>2 DEF ArbitrateSignal
<1>2. halted' \subseteq Cores
  BY DEF TypeOK, ArbitrateSignal, PrepareReschedule
<1> QED
  BY <1>1, <1>2 DEF TypeOK, ArbitrateSignal, Svc

LEMMA SignalSvcType ==
    ASSUME TypeOK, NEW c \in Cores, NEW t \in Threads, SignalSvc(c, t)
    PROVE  TypeOK'
BY ReleaseMutexType, ReleaseSemaphoreType, SignalEventType, ClearSignalType, SetTimerType,
   CancelTimerType, ArbitrateSignalType DEF SignalSvc

LEMMA MakeThreadType ==
    ASSUME TypeOK, NEW t \in Threads, MakeThread(t), cpu' \in Cores, halted' \subseteq Cores,
           UNCHANGED <<nominal_priority, can_schedule>>
    PROVE  TypeOK'
<1>1. status' \in [Threads -> Status]
  BY DEF TypeOK, MakeThread, Status
<1>2. ready_queue' \in [Cores -> Lists(Priorities, Threads)]
  <2>1. CoreOf[t] \in Cores /\ InitialPriority[t] \in Priorities
    BY CoreAssumption, SyncAssumption
  <2>2. prepare(ready_queue[CoreOf[t]], InitialPriority[t]) \in Lists(Priorities, Threads)
    BY <2>1, ListOperationsType DEF TypeOK
  <2>3. push_back(prepare(ready_queue[CoreOf[t]], InitialPriority[t]), InitialPriority[t], t)
           \in Lists(Priorities, Threads)
    BY <2>1, <2>2, ListOperationsType
  <2> QED
    BY <2>3 DEF TypeOK, MakeThread
<1> QED
  BY <1>1, <1>2 DEF TypeOK, MakeThread

LEMMA MakeSleeperType ==
    ASSUME TypeOK, NEW t \in Threads, MakeSleeper(t), cpu' \in Cores, halted' \subseteq Cores,
           UNCHANGED <<nominal_priority, can_schedule>>
    PROVE  TypeOK'
<1>1. status' \in [Threads -> Status]
  BY DEF TypeOK, MakeSleeper, Status, WaitingStatus
<1>2. ready_queue' \in [Cores -> Lists(Priorities, Threads)]
  <2>1. CoreOf[t] \in Cores /\ InitialPriority[t] \in Priorities
    BY CoreAssumption, SyncAssumption
  <2>2. prepare(ready_queue[CoreOf[t]], InitialPriority[t]) \in Lists(Priorities, Threads)
    BY <2>1, ListOperationsType DEF TypeOK
  <2> QED
    BY <2>2 DEF TypeOK, MakeSleeper
<1> QED
  BY <1>1, <1>2 DEF TypeOK, MakeSleeper

LEMMA CreateThreadType ==
    ASSUME TypeOK, NEW c \in Cores, NEW t \in Threads, NEW new \in Threads,
           CreateThread(c, t, new)
    PROVE  TypeOK'
<1>1. /\ MakeThread(new)
      /\ cpu' \in Cores
      /\ UNCHANGED <<nominal_priority, can_schedule>>
  BY DEF CreateThread, Svc, MakeThread
<1>2. halted' \subseteq Cores
  BY DEF TypeOK, CreateThread, PrepareReschedule
<1> QED
  BY <1>1, <1>2, MakeThreadType

LEMMA SetupMainThreadType ==
    ASSUME TypeOK, NEW p \in Processes, SetupMainThread(p)
    PROVE  TypeOK'
<1>1. MainThread[p] \in Threads
  BY SyncAssumption
<1>2. /\ MakeThread(MainThread[p]) \/ MakeSleeper(MainThread[p])
      /\ cpu' \in Cores /\ halted' \subseteq Cores
      /\ UNCHANGED <<nominal_priority, can_schedule>>
  BY DEF TypeOK, SetupMainThread, MakeThread, MakeSleeper
<1> QED
  BY <1>1, <1>2, MakeThreadType, MakeSleeperType

LEMMA ExitThreadType ==
    ASSUME TypeOK, NEW c \in Cores, NEW t \in Threads, ExitThread(c, t)
    PROVE  TypeOK'
<1>1. work' \in Seq(Frames)
  <2>1. Stop(t) \in Frames
    BY FrameType
  <2> QED
    BY <2>1 DEF ExitThread
<1>2. halted' \subseteq Cores
  BY DEF TypeOK, ExitThread, PrepareReschedule
<1> QED
  BY <1>1, <1>2 DEF TypeOK, ExitThread, Svc

LEMMA SetThreadPriorityType ==
    ASSUME TypeOK, NEW c \in Cores, NEW t \in Threads, NEW x \in Threads,
           NEW p \in SetPriorities, SetThreadPriority(c, t, x, p)
    PROVE  TypeOK'
<1> DEFINE q == CoreOf[x]
           S == {p} \cup {mutex_priority[m] : m \in held_mutexes[x]}
           best == Min(S)
<1>1. p \in Priorities /\ q \in Cores /\ current_priority[x] \in Priorities
  BY CoreAssumption, SyncAssumption DEF TypeOK
<1>2. best \in Priorities
  <2>1. S \subseteq Priorities /\ S # {}
    BY <1>1 DEF TypeOK
  <2> HIDE DEF S
  <2> QED
    BY <2>1, MinPriority
<1>3. /\ nominal_priority' = [nominal_priority EXCEPT ![x] = p]
      /\ current_priority' = [current_priority EXCEPT ![x] = best]
      /\ ready_queue' = [ready_queue EXCEPT ![q] =
            IF status[x] = "Ready"
            THEN move(move(@, x, current_priority[x], p), x, p, best)
            ELSE prepare(prepare(@, p), best)]
  BY DEF SetThreadPriority
<1> HIDE DEF best
<1>4. nominal_priority' \in [Threads -> Priorities]
  BY <1>1, <1>3 DEF TypeOK
<1>5. current_priority' \in [Threads -> Priorities]
  BY <1>2, <1>3 DEF TypeOK
<1>6. ready_queue' \in [Cores -> Lists(Priorities, Threads)]
  <2> HIDE DEF q
  <2>1. ready_queue[q] \in Lists(Priorities, Threads)
    BY <1>1 DEF TypeOK
  <2>2. /\ move(ready_queue[q], x, current_priority[x], p) \in Lists(Priorities, Threads)
        /\ prepare(ready_queue[q], p) \in Lists(Priorities, Threads)
    BY <1>1, <2>1, ListOperationsType
  <2>3. /\ move(move(ready_queue[q], x, current_priority[x], p), x, p, best)
              \in Lists(Priorities, Threads)
        /\ prepare(prepare(ready_queue[q], p), best) \in Lists(Priorities, Threads)
    BY <1>1, <1>2, <2>2, ListOperationsType
  <2> QED
    BY <1>3, <2>3 DEF TypeOK
<1>7. work' \in Seq(Frames)
  <2>1. UpdateMutexes(pending_mutexes[x]) \in Frames
    BY FrameType DEF TypeOK
  <2> QED
    BY <2>1 DEF SetThreadPriority
<1>8. halted' \subseteq Cores
  BY DEF TypeOK, SetThreadPriority, PrepareReschedule
<1> QED
  BY <1>4, <1>5, <1>6, <1>7, <1>8 DEF TypeOK, SetThreadPriority, Svc

LEMMA TerminateProcessType ==
    ASSUME TypeOK, NEW c \in Cores, NEW t \in Threads, NEW p \in Terminable,
           TerminateProcess(c, t, p)
    PROVE  TypeOK'
<1>1. p \in Processes
  BY SyncAssumption
<1>2. CASE p \in exited
  <2>1. fault' \in Faults
    BY <1>2 DEF TerminateProcess, Faults
  <2> QED
    BY <1>2, <2>1 DEF TypeOK, TerminateProcess, Svc
<1>3. CASE p \notin exited
  <2> DEFINE calls == [i \in 1..NumCores |-> TerminateThreads(i - 1, p)]
  <2>1. NumCores \in Nat /\ \A i \in 1..NumCores : i - 1 \in Cores
    BY CoreAssumption DEF Cores
  <2>2. \A i \in 1..NumCores : TerminateThreads(i - 1, p) \in Frames
    BY <1>1, <2>1, FrameType
  <2>3. calls \in [1..NumCores -> Frames]
    BY <2>2
  <2>4. calls \in Seq(Frames)
    BY <2>1, <2>3, IsASeq
  <2>5. work' \in Seq(Frames)
    BY <1>3, <2>4 DEF TerminateProcess
  <2>6. exited' \subseteq Processes
    BY <1>1, <1>3 DEF TypeOK, TerminateProcess
  <2> QED
    BY <1>3, <2>5, <2>6 DEF TypeOK, TerminateProcess, Svc
<1> QED
  BY <1>2, <1>3

LEMMA ScheduleThreadsType ==
    ASSUME TypeOK, NEW c \in Cores, NEW t \in Threads, NEW p \in Processes,
           NEW may \in BOOLEAN, ScheduleThreads(c, t, p, may)
    PROVE  TypeOK'
<1>1. can_schedule' \in [Threads -> BOOLEAN]
  BY DEF TypeOK, ScheduleThreads
<1> QED
  BY <1>1 DEF TypeOK, ScheduleThreads, Svc

LEMMA ThreadSvcType ==
    ASSUME TypeOK, NEW c \in Cores, NEW t \in Threads, ThreadSvc(c, t)
    PROVE  TypeOK'
BY CreateThreadType, ExitThreadType, SetThreadPriorityType, TerminateProcessType,
   ScheduleThreadsType DEF ThreadSvc

LEMMA RescheduleType ==
    ASSUME TypeOK, NEW c \in Cores, Reschedule(c)
    PROVE  TypeOK'
<1> DEFINE ready == {t \in thread_list : CoreOf[t] = c /\ status[t] = "Ready"}
<1>1. PICK starved \in SUBSET ready : work' = <<BoostStarved(c, starved), PopNext(c)>>
  BY DEF Reschedule
<1>2. starved \in SUBSET Threads
  BY DEF TypeOK
<1>3. BoostStarved(c, starved) \in Frames /\ PopNext(c) \in Frames
  BY <1>2, FrameType
<1>4. work' \in Seq(Frames)
  BY <1>1, <1>3
<1>5. halted' \subseteq Cores
  BY DEF TypeOK, Reschedule
<1> QED
  BY <1>4, <1>5 DEF TypeOK, Reschedule

LEMMA TimerCallbackType ==
    ASSUME TypeOK, NEW c \in Cores, NEW e \in Timers, TimerCallback(c, e)
    PROVE  TypeOK'
<1>1. signaled' \in [Signals -> BOOLEAN]
  BY DEF TypeOK, TimerCallback
<1>2. timer_events' \subseteq Timers
  BY DEF TypeOK, TimerCallback
<1>3. work' \in Seq(Frames)
  BY WakeupAllType DEF TimerCallback, Objects, Signals
<1> QED
  BY <1>1, <1>2, <1>3 DEF TypeOK, TimerCallback

LEMMA ThreadWakeupCallbackType ==
    ASSUME TypeOK, NEW t \in Threads, ThreadWakeupCallback(t)
    PROVE  TypeOK'
<1>1. cpu' \in Cores
  BY CoreAssumption DEF ThreadWakeupCallback
<1>2. wakeup_events' \subseteq Threads
  BY DEF TypeOK, ThreadWakeupCallback
<1>3. fault' \in Faults
  BY DEF TypeOK, ThreadWakeupCallback, Faults
<1>4. work' \in Seq(Frames)
  <2>1. "Timeout" \in Reasons
    BY DEF Reasons
  <2>2. /\ Callback(t, "Timeout") \in Frames
        /\ RemoveWaiting(t) \in Frames
        /\ Resume(t) \in Frames
    BY <2>1, FrameType
  <2>3. WakeupCalls(t) \in Seq(Frames)
    BY <2>2 DEF WakeupCalls
  <2> QED
    BY <2>3 DEF TypeOK, ThreadWakeupCallback
<1> QED
  BY <1>1, <1>2, <1>3, <1>4 DEF TypeOK, ThreadWakeupCallback

LEMMA NextType ==
    ASSUME TypeOK, [Next]_vars
    PROVE  TypeOK'
<1>1. CASE Next
  BY <1>1, KernelStepType, SetupMainThreadType, WaitSvcType, SignalSvcType, ThreadSvcType,
     RescheduleType, TimerCallbackType, ThreadWakeupCallbackType
     DEF Next
<1>2. CASE UNCHANGED vars
  BY <1>2 DEF TypeOK, vars, systemVars
<1> QED
  BY <1>1, <1>2

(* The types of the state are kept: in particular the kernel never puts a  *)
(* null or foreign thread on a list or a ready queue, no lock count goes   *)
(* below zero and no priority leaves its range.                            *)
THEOREM TypeCorrect == Spec => []TypeOK
<1>1. Init => TypeOK
  BY InitType
<1>2. TypeOK /\ [Next]_vars => TypeOK'
  BY NextType
<1> QED
  BY <1>1, <1>2, PTL DEF Spec

(***************************************************************************)
(* A mutex has a holder exactly while it is locked.                        *)
(***************************************************************************)
(* Only an acquisition, a release and the end of a thread touch the        *)
(* ownership of a mutex.                                                   *)
LEMMA KernelStepOwners ==
    ASSUME KernelStep, ~AcquireStep, ~ReleaseMutexesStep
    PROVE  UNCHANGED <<lock_count, holding_thread>>
<1>1. CASE UpdateMutexesStep
  BY <1>1 DEF UpdateMutexesStep
<1>2. CASE AddWaitingStep
  BY <1>2 DEF AddWaitingStep
<1>3. CASE RemoveWaitingStep
  BY <1>3 DEF RemoveWaitingStep
<1>4. CASE WakeupAllStep
  BY <1>4 DEF WakeupAllStep, Fail, systemVars
<1>5. CASE CallbackStep
  BY <1>5 DEF CallbackStep, Fail, systemVars
<1>6. CASE ResumeStep
  BY <1>6 DEF ResumeStep, Fail, systemVars
<1>7. CASE StopStep
  BY <1>7 DEF StopStep
<1>8. CASE TerminateThreadsStep
  BY <1>8 DEF TerminateThreadsStep
<1>9. CASE ResumeArbitratedStep
  BY <1>9 DEF ResumeArbitratedStep, Fail, systemVars
<1>10. CASE BoostStarvedStep
  BY <1>10 DEF BoostStarvedStep, Fail, systemVars
<1>11. CASE PopNextStep
  BY <1>11 DEF PopNextStep, Fail, systemVars
<1>12. CASE RequeueStep
  BY <1>12 DEF RequeueStep
<1>13. CASE SwitchContextStep
  BY <1>13 DEF SwitchContextStep
<1> QED
  BY <1>1, <1>2, <1>3, <1>4, <1>5, <1>6, <1>7, <1>8, <1>9, <1>10, <1>11, <1>12, <1>13
     DEF KernelStep

LEMMA SvcOwners ==
    ASSUME NEW c \in Cores, NEW t \in Threads,
           \/ WaitSvc(c, t)
           \/ SignalSvc(c, t) /\ ~ \E m \in Mutexes : ReleaseMutex(c, t, m)
           \/ ThreadSvc(c, t)
    PROVE  UNCHANGED <<lock_count, holding_thread>>
<1>1. CASE WaitSvc(c, t)
  BY <1>1 DEF WaitSvc, WaitSynchronizationAny, WaitSynchronizationAll, SleepThread,
              ArbitrateWait
<1>2. CASE SignalSvc(c, t) /\ ~ \E m \in Mutexes : ReleaseMutex(c, t, m)
  BY <1>2 DEF SignalSvc, ReleaseSemaphore, SignalEvent, ClearSignal, SetTimer, CancelTimer,
              ArbitrateSignal
<1>3. CASE ThreadSvc(c, t)
  BY <1>3 DEF ThreadSvc, CreateThread, MakeThread, ExitThread, SetThreadPriority,
              TerminateProcess, ScheduleThreads
<1> QED
  BY <1>1, <1>2, <1>3

LEMMA HolderIffLockedNext ==
    ASSUME TypeOK, HolderIffLocked, [Next]_vars
    PROVE  HolderIffLocked'
<1>1. CASE AcquireStep
  <2> DEFINE o == top.object
             t == top.thread
  <2>1. t \in Threads
    BY <1>1, WorkTop, FrameFields DEF TypeOK, AcquireStep, Runs, top
  <2>2. CASE UNCHANGED <<lock_count, holding_thread>>
    BY <2>2 DEF HolderIffLocked
  <2>3. CASE o \in Mutexes /\ AcquireMutex(o, t)
    <3> HIDE DEF o, t
    <3>1. lock_count' = [lock_count EXCEPT ![o] = @ + 1]
      BY <2>3 DEF AcquireMutex
    <3>2. holding_thread' = IF lock_count[o] = 0
                            THEN [holding_thread EXCEPT ![o] = t]
                            ELSE holding_thread
      BY <2>3 DEF AcquireMutex
    <3> QED
      BY <2>1, <2>3, <3>1, <3>2, CoreAssumption DEF TypeOK, HolderIffLocked
  <2> QED
    BY <1>1, <2>2, <2>3 DEF AcquireStep, Fail, systemVars
<1>2. CASE ReleaseMutexesStep
  <2>1. CASE UNCHANGED <<lock_count, holding_thread>>
    BY <2>1 DEF HolderIffLocked
  <2>2. CASE \E m \in top.mutexes :
                /\ lock_count' = [lock_count EXCEPT ![m] = 0]
                /\ holding_thread' = [holding_thread EXCEPT ![m] = NoThread]
    BY <2>2 DEF TypeOK, HolderIffLocked
  <2> QED
    BY <1>2, <2>1, <2>2 DEF ReleaseMutexesStep
<1>3. ASSUME NEW c \in Cores, NEW t \in Threads, NEW m \in Mutexes, ReleaseMutex(c, t, m)
      PROVE  HolderIffLocked'
  <2>1. lock_count' = [lock_count EXCEPT ![m] = @ - 1] /\ lock_count[m] > 0
    BY <1>3 DEF ReleaseMutex
  <2>2. holding_thread' = IF lock_count[m] = 1
                          THEN [holding_thread EXCEPT ![m] = NoThread]
                          ELSE holding_thread
    BY <1>3 DEF ReleaseMutex
  <2> QED
    BY <2>1, <2>2 DEF TypeOK, HolderIffLocked
<1>4. CASE UNCHANGED <<lock_count, holding_thread>>
  BY <1>4 DEF HolderIffLocked
<1>5. CASE KernelStep
  BY <1>1, <1>2, <1>4, <1>5, KernelStepOwners
<1>6. ASSUME NEW c \in Cores, NEW t \in Threads,
             WaitSvc(c, t) \/ SignalSvc(c, t) \/ ThreadSvc(c, t)
      PROVE  HolderIffLocked'
  BY <1>3, <1>4, <1>6, SvcOwners
<1>7. CASE \/ \E p \in Processes : SetupMainThread(p)
           \/ \E c \in Cores : \/ Reschedule(c)
                               \/ \E e \in Timers : TimerCallback(c, e)
           \/ \E t \in Threads : ThreadWakeupCallback(t)
           \/ UNCHANGED vars
  <2>1. UNCHANGED <<lock_count, holding_thread>>
    BY <1>7 DEF SetupMainThread, MakeThread, MakeSleeper, Reschedule,
                TimerCallback, ThreadWakeupCallback, vars, systemVars
  <2> QED
    BY <1>4, <2>1
<1> QED
  BY <1>5, <1>6, <1>7 DEF Next

(* Between any two steps of the kernel code a mutex has a holder exactly   *)
(* while its lock count is positive, so that ShouldWait, Release and       *)
(* UpdatePriority, which test one or the other, agree.                     *)
THEOREM HoldersCorrect == Spec => []HolderIffLocked
<1>1. Init => HolderIffLocked
  BY DEF Init, HolderIffLocked
<1>2. TypeOK /\ HolderIffLocked /\ [Next]_vars => HolderIffLocked'
  BY HolderIffLockedNext
<1> QED
  BY <1>1, <1>2, TypeCorrect, PTL DEF Spec

HIDE DEF prioVars, ownVars, waitVars, countVars, timeVars, runVars, cpuVars, lifeVars,
         arbVars, setupVars, replyVars

(***************************************************************************)
(* SECOND PART: what each step of KernelSync does to the stack of kernel    *)
(* code, which frames it leaves, and that they stay nested as              *)
(* KernelInvariant says.                                                   *)
(***************************************************************************)

(***************************************************************************)
(* Stacks as sets of frames.                                               *)
(***************************************************************************)
(* The frames on a stack are the innermost one and those under it, which   *)
(* are all of kinds it may have under it.                                  *)
LEMMA StackParts ==
    ASSUME NEW w \in Seq(Frames), w # <<>>
    PROVE  /\ Tail(w) \in Seq(Frames)
           /\ Head(w) \in Frames
           /\ Range(w) = {Head(w)} \cup Range(Tail(w))
           /\ Range(w) \subseteq Frames
           /\ Range(Tail(w)) \subseteq Frames
           /\ Nested(w) => /\ Nested(Tail(w))
                           /\ \A f \in Range(Tail(w)) : f.op \in Beneath(Head(w).op)
<1>1. /\ Tail(w) \in Seq(Frames) /\ Head(w) \in Frames /\ Head(w) = w[1]
      /\ Len(w) \in Nat \ {0} /\ Len(Tail(w)) = Len(w) - 1
      /\ \A i \in 1..Len(Tail(w)) : Tail(w)[i] = w[i + 1]
  BY HeadTailProperties, EmptySeq
<1>2. /\ Range(w) = {w[i] : i \in 1..Len(w)}
      /\ Range(Tail(w)) = {Tail(w)[i] : i \in 1..Len(Tail(w))}
  BY <1>1, RangeEquality
<1>3. Range(w) = {Head(w)} \cup Range(Tail(w))
  <2>1. \A i \in 1..Len(w) : i = 1 \/ (i - 1 \in 1..Len(Tail(w)) /\ w[i] = Tail(w)[i - 1])
    BY <1>1
  <2>2. \A i \in 1..Len(Tail(w)) : i + 1 \in 1..Len(w)
    BY <1>1
  <2>3. 1 \in 1..Len(w)
    BY <1>1
  <2>4. Range(w) \subseteq {Head(w)} \cup Range(Tail(w))
    BY <1>1, <1>2, <2>1
  <2>5. {Head(w)} \cup Range(Tail(w)) \subseteq Range(w)
    BY <1>1, <1>2, <2>2, <2>3
  <2> QED
    BY <2>4, <2>5
<1>4. Range(w) \subseteq Frames /\ Range(Tail(w)) \subseteq Frames
  BY <1>1, RangeOfSeq
<1>5. ASSUME Nested(w)
      PROVE  /\ Nested(Tail(w))
             /\ \A f \in Range(Tail(w)) : f.op \in Beneath(Head(w).op)
  <2>1. \A i \in 1..Len(Tail(w)) : i + 1 \in 1..Len(w) /\ 1 < i + 1
    BY <1>1
  <2>2. 1 \in 1..Len(w)
    BY <1>1
  <2>3. Nested(Tail(w))
    <3> SUFFICES ASSUME NEW i \in 1..Len(Tail(w)), NEW j \in 1..Len(Tail(w)), i < j
                 PROVE  Tail(w)[j].op \in Beneath(Tail(w)[i].op)
      BY DEF Nested
    <3>1. i + 1 < j + 1
      BY <1>1
    <3> QED
      BY <1>1, <1>5, <2>1, <3>1 DEF Nested
  <2>4. \A i \in 1..Len(Tail(w)) : Tail(w)[i].op \in Beneath(Head(w).op)
    BY <1>1, <1>5, <2>1, <2>2 DEF Nested
  <2> QED
    BY <1>2, <2>3, <2>4
<1> QED
  BY <1>1, <1>3, <1>4, <1>5

(* Frames put on a stack stay nested when the stack is of kinds each of    *)
(* them may have under it.                                                 *)
LEMMA StackPush ==
    ASSUME NEW p \in Seq(Frames), NEW w \in Seq(Frames)
    PROVE  /\ p \o w \in Seq(Frames)
           /\ Range(p \o w) = Range(p) \cup Range(w)
           /\ /\ Nested(p)
              /\ Nested(w)
              /\ \A f \in Range(p), g \in Range(w) : g.op \in Beneath(f.op)
              => Nested(p \o w)
<1>1. /\ p \o w \in Seq(Frames) /\ Len(p \o w) = Len(p) + Len(w)
      /\ \A i \in 1..(Len(p) + Len(w)) :
            (p \o w)[i] = IF i <= Len(p) THEN p[i] ELSE w[i - Len(p)]
      /\ Len(p) \in Nat /\ Len(w) \in Nat
  BY ConcatProperties
<1>2. Range(p \o w) = Range(p) \cup Range(w)
  BY RangeConcatenation
<1>3. /\ \A i \in 1..Len(p) : p[i] \in Range(p)
      /\ \A i \in 1..Len(w) : w[i] \in Range(w)
  BY RangeEquality
<1>4. ASSUME Nested(p), Nested(w),
             \A f \in Range(p), g \in Range(w) : g.op \in Beneath(f.op)
      PROVE  Nested(p \o w)
  <2> SUFFICES ASSUME NEW i \in 1..Len(p \o w), NEW j \in 1..Len(p \o w), i < j
               PROVE  (p \o w)[j].op \in Beneath((p \o w)[i].op)
    BY DEF Nested
  <2>1. CASE j <= Len(p)
    BY <1>1, <1>4, <2>1 DEF Nested
  <2>2. CASE i > Len(p)
    <3>1. i - Len(p) \in 1..Len(w) /\ j - Len(p) \in 1..Len(w) /\ i - Len(p) < j - Len(p)
      BY <1>1, <2>2
    <3> QED
      BY <1>1, <1>4, <2>2, <3>1 DEF Nested
  <2>3. CASE i <= Len(p) /\ j > Len(p)
    <3>1. i \in 1..Len(p) /\ j - Len(p) \in 1..Len(w)
      BY <1>1, <2>3
    <3> QED
      BY <1>1, <1>3, <1>4, <2>3, <3>1
  <2> QED
    BY <1>1, <2>1, <2>2, <2>3
<1> QED
  BY <1>1, <1>2, <1>4

(* Short stacks.                                                           *)
LEMMA ShortStacks ==
    ASSUME NEW f \in Frames
    PROVE  /\ <<>> \in Seq(Frames) /\ Range(<<>>) = {} /\ Nested(<<>>)
           /\ <<f>> \in Seq(Frames) /\ Range(<<f>>) = {f} /\ Nested(<<f>>)
<1>1. <<>> \in Seq(Frames) /\ <<f>> \in Seq(Frames)
  OBVIOUS
<1>2. Range(<<>>) = {} /\ Range(<<f>>) = {f}
  BY DEF Range
<1>3. Nested(<<>>) /\ Nested(<<f>>)
  BY DEF Nested
<1> QED
  BY <1>1, <1>2, <1>3

LEMMA StackOfTwo ==
    ASSUME NEW f \in Frames, NEW g \in Frames, g.op \in Beneath(f.op)
    PROVE  /\ <<f, g>> \in Seq(Frames)
           /\ Range(<<f, g>>) = {f, g}
           /\ Nested(<<f, g>>)
<1>1. <<f, g>> \in Seq(Frames)
  OBVIOUS
<1>2. Range(<<f, g>>) = {f, g}
  BY DEF Range
<1>3. Nested(<<f, g>>)
  BY DEF Nested
<1> QED
  BY <1>1, <1>2, <1>3

LEMMA StackOfThree ==
    ASSUME NEW f \in Frames, NEW g \in Frames, NEW h \in Frames,
           g.op \in Beneath(f.op), h.op \in Beneath(f.op), h.op \in Beneath(g.op)
    PROVE  /\ <<f, g, h>> \in Seq(Frames)
           /\ Range(<<f, g, h>>) = {f, g, h}
           /\ Nested(<<f, g, h>>)
<1>1. <<f, g, h>> \in Seq(Frames)
  OBVIOUS
<1>2. Range(<<f, g, h>>) = {f, g, h}
  BY DEF Range
<1>3. Nested(<<f, g, h>>)
  BY DEF Nested
<1> QED
  BY <1>1, <1>2, <1>3

(* What may be under what, kind by kind.                                   *)
LEMMA BeneathEach ==
    /\ \A op \in {"TerminateThreads", "Stop", "ReleaseMutexes"} :
          Beneath(op) = {"TerminateThreads"}
    /\ Beneath("WakeupAll") = Ending
    /\ Beneath("Resume") = {"WakeupAll", "ResumeArbitrated"} \cup Ending
    /\ Beneath("RemoveWaiting") = {"Resume", "WakeupAll"} \cup Ending
    /\ Beneath("Callback") = {"RemoveWaiting", "Resume", "WakeupAll"} \cup Ending
    /\ Beneath("Acquire") = {"Acquire", "Callback", "RemoveWaiting", "Resume", "WakeupAll"} \cup Ending
    /\ Beneath("BoostStarved") = {"PopNext"}
    /\ \A op \in {"AddWaiting", "UpdateMutexes", "ResumeArbitrated", "PopNext", "Requeue",
                  "SwitchContext"} : Beneath(op) = {}
BY DEF Beneath, Ending

(***************************************************************************)
(* The moves of the stack.                                                 *)
(***************************************************************************)
LEMMA Innermost ==
    ASSUME TypeOK, Nested(work), work # <<>>
    PROVE  /\ top \in Frames
           /\ Stacked = {top} \cup Under
           /\ Stacked \subseteq Frames
           /\ Under \subseteq Frames
           /\ \A f \in Under : f.op \in Beneath(top.op)
           /\ Beneath(top.op) = {} => Under = {}
<1>1. work \in Seq(Frames)
  BY DEF TypeOK
<1> QED
  BY <1>1, StackParts DEF Stacked, Under, top

(* The innermost code ends.                                                *)
LEMMA ReturnStack ==
    ASSUME TypeOK, Nested(work), work # <<>>, Return
    PROVE  Nested(work') /\ Stacked' = Under
<1>1. work \in Seq(Frames) /\ work' = Tail(work)
  BY DEF TypeOK, Return
<1> QED
  BY <1>1, StackParts DEF Stacked, Under

(* It moves on, or ends with a call of something of its own kind.          *)
LEMMA MoveOnStack ==
    ASSUME TypeOK, Nested(work), work # <<>>,
           NEW f \in Frames, Beneath(top.op) \subseteq Beneath(f.op),
           work' = <<f>> \o Tail(work)
    PROVE  Nested(work') /\ Stacked' = {f} \cup Under
<1>1. /\ work \in Seq(Frames) /\ Tail(work) \in Seq(Frames)
      /\ Nested(Tail(work))
      /\ \A g \in Under : g.op \in Beneath(f.op)
  BY StackParts DEF TypeOK, Under, top
<1>2. <<f>> \in Seq(Frames) /\ Range(<<f>>) = {f} /\ Nested(<<f>>)
  BY ShortStacks
<1>3. Nested(<<f>> \o Tail(work)) /\ Range(<<f>> \o Tail(work)) = {f} \cup Range(Tail(work))
  BY <1>1, <1>2, StackPush DEF Under
<1> QED
  BY <1>3 DEF Stacked, Under

(* It moves on with a call of another piece.                               *)
LEMMA MoveOnCallStack ==
    ASSUME TypeOK, Nested(work), work # <<>>,
           NEW f \in Frames, NEW g \in Frames,
           Beneath(top.op) \subseteq Beneath(f.op), Beneath(top.op) \subseteq Beneath(g.op),
           g.op \in Beneath(f.op),
           work' = <<f, g>> \o Tail(work)
    PROVE  Nested(work') /\ Stacked' = {f, g} \cup Under
<1>1. /\ work \in Seq(Frames) /\ Tail(work) \in Seq(Frames)
      /\ Nested(Tail(work))
      /\ \A h \in Under : h.op \in Beneath(f.op) /\ h.op \in Beneath(g.op)
  BY StackParts DEF TypeOK, Under, top
<1>2. <<f, g>> \in Seq(Frames) /\ Range(<<f, g>>) = {f, g} /\ Nested(<<f, g>>)
  BY StackOfTwo
<1>3. /\ Nested(<<f, g>> \o Tail(work))
      /\ Range(<<f, g>> \o Tail(work)) = {f, g} \cup Range(Tail(work))
  BY <1>1, <1>2, StackPush DEF Under
<1> QED
  BY <1>3 DEF Stacked, Under

(***************************************************************************)
(* Each step of the kernel code.                                           *)
(***************************************************************************)
LEMMA UpdateMutexesStack ==
    ASSUME TypeOK, Nested(work), UpdateMutexesStep
    PROVE  /\ Nested(work')
           /\ Under = {}
           /\ Stacked' \subseteq {UpdateMutexes(ms) : ms \in SUBSET Mutexes}
<1>1. work # <<>> /\ top.op = "UpdateMutexes"
  BY DEF UpdateMutexesStep, Runs, top
<1>2. Under = {} /\ top \in Frames /\ Beneath(top.op) = {}
  BY <1>1, Innermost, BeneathEach
<1>3. top.mutexes \in SUBSET Mutexes
  BY <1>1, <1>2, FrameFields
<1>4. CASE Return
  BY <1>1, <1>2, <1>4, ReturnStack
<1>5. ASSUME NEW m \in top.mutexes, work' = <<UpdateMutexes(top.mutexes \ {m})>> \o Tail(work)
      PROVE  Nested(work') /\ Stacked' \subseteq {UpdateMutexes(ms) : ms \in SUBSET Mutexes}
  <2>1. top.mutexes \ {m} \in SUBSET Mutexes
    BY <1>3
  <2>2. UpdateMutexes(top.mutexes \ {m}) \in Frames
    BY <2>1, FrameType
  <2>3. Nested(work') /\ Stacked' = {UpdateMutexes(top.mutexes \ {m})} \cup Under
    BY <1>1, <1>2, <1>5, <2>2, MoveOnStack
  <2> QED
    BY <1>2, <2>1, <2>3
<1> QED
  BY <1>2, <1>4, <1>5 DEF UpdateMutexesStep

LEMMA AcquireStack ==
    ASSUME TypeOK, Nested(work), AcquireStep, fault' = NoFault
    PROVE  Nested(work') /\ Stacked' = Under
<1>1. work # <<>> /\ Return
  BY DEF AcquireStep, Runs, Fail, NoFault
<1> QED
  BY <1>1, ReturnStack

LEMMA AddWaitingStack ==
    ASSUME TypeOK, Nested(work), AddWaitingStep
    PROVE  /\ Nested(work')
           /\ Under = {}
           /\ top.objects = <<>> => Stacked' = {} /\ work' = <<>>
           /\ top.objects # <<>> =>
                 /\ Stacked' = {AddWaiting(top.thread, Tail(top.objects))}
                 /\ work' = <<AddWaiting(top.thread, Tail(top.objects))>>
<1>1. work # <<>> /\ top.op = "AddWaiting" /\ work \in Seq(Frames)
  BY DEF AddWaitingStep, Runs, top, TypeOK
<1>2. Under = {} /\ top \in Frames /\ Beneath(top.op) = {}
  BY <1>1, Innermost, BeneathEach
<1>3. top.thread \in Threads /\ top.objects \in Seq(Objects)
  BY <1>1, <1>2, FrameFields
<1>4. Tail(work) = <<>>
  <2>1. Tail(work) \in Seq(Frames)
    BY <1>1, HeadTailProperties
  <2> QED
    BY <1>2, <2>1, StackParts DEF Under
<1>5. CASE top.objects = <<>>
  <2>1. Return
    BY <1>5 DEF AddWaitingStep
  <2> QED
    BY <1>1, <1>2, <1>4, <1>5, <2>1, ReturnStack DEF Return
<1>6. CASE top.objects # <<>>
  <2> DEFINE f == AddWaiting(top.thread, Tail(top.objects))
  <2>1. work' = <<f>> \o Tail(work)
    BY <1>6 DEF AddWaitingStep
  <2>2. f \in Frames
    BY <1>3, <1>6, HeadTailProperties, FrameType
  <2>3. f.op = "AddWaiting"
    BY DEF AddWaiting
  <2> HIDE DEF f
  <2>4. Nested(work') /\ Stacked' = {f} \cup Under
    BY <1>1, <1>2, <2>1, <2>2, <2>3, MoveOnStack
  <2>5. work' = <<f>>
    BY <1>4, <2>1, <2>2, ConcatEmptySeq, ShortStacks
  <2> QED
    BY <1>2, <1>6, <2>4, <2>5 DEF f
<1> QED
  BY <1>2, <1>5, <1>6

LEMMA RemoveWaitingStack ==
    ASSUME TypeOK, Nested(work), RemoveWaitingStep
    PROVE  /\ Nested(work')
           /\ wait_objects[top.thread] = <<>> => work' = Tail(work) /\ Stacked' = Under
           /\ wait_objects[top.thread] # <<>> => work' = work /\ Stacked' = Stacked
<1>1. work # <<>>
  BY DEF RemoveWaitingStep, Runs
<1>2. CASE wait_objects[top.thread] = <<>>
  <2>1. Return
    BY <1>2 DEF RemoveWaitingStep
  <2> QED
    BY <1>1, <1>2, <2>1, ReturnStack DEF Return
<1>3. CASE wait_objects[top.thread] # <<>>
  <2>1. work' = work
    BY <1>3 DEF RemoveWaitingStep
  <2> QED
    BY <1>3, <2>1 DEF Stacked
<1> QED
  BY <1>2, <1>3

(* The calls that wake t for o.                                            *)
LEMMA WakeupAllStack ==
    ASSUME TypeOK, Nested(work), WakeupAllStep, fault' = NoFault
    PROVE  LET o == top.object
               t == HighestPriorityReady(o)
           IN  /\ Nested(work')
               /\ t = NoThread => Stacked' = Under
               /\ t # NoThread =>
                     /\ t \in Threads
                     /\ Taken(o, t) \in Seq(Objects)
                     /\ Stacked' = {Acquire(x, t) : x \in Range(Taken(o, t))}
                                   \cup {Callback(t, "Signal"), RemoveWaiting(t), Resume(t)}
                                   \cup Stacked
<1> DEFINE o == top.object
           t == HighestPriorityReady(o)
           taken == Taken(o, t)
           calls == [i \in 1..Len(taken) |-> Acquire(taken[i], t)]
           tail == <<Callback(t, "Signal"), RemoveWaiting(t), Resume(t)>>
<1>1. /\ work # <<>> /\ top.op = "WakeupAll" /\ work \in Seq(Frames)
  BY DEF WakeupAllStep, Runs, top, TypeOK
<1>2. /\ top \in Frames /\ Stacked = {top} \cup Under
      /\ \A f \in Under : f.op \in Beneath(top.op)
  BY <1>1, Innermost
<1>3. o \in Objects
  BY <1>1, <1>2, FrameFields
<1>4. ~ \E x \in Range(waiting_threads[o]) : status[x] \notin WaitingOnObjects
  BY DEF WakeupAllStep, Fail, NoFault
<1>5. CASE t = NoThread
  <2>1. Return
    BY <1>4, <1>5 DEF WakeupAllStep
  <2> QED
    BY <1>1, <1>5, <2>1, ReturnStack
<1>6. CASE t # NoThread
  <2>1. t \in Threads
    BY <1>3, <1>6, HighestPriorityReadyType
  <2>2. work' = calls \o tail \o work
    BY <1>4, <1>6 DEF WakeupAllStep
  <2>3. taken \in Seq(Objects)
    <3> HIDE DEF t, o
    <3>1. <<o>> \in Seq(Objects) /\ wait_objects[t] \in Seq(Objects)
      BY <1>3, <2>1 DEF TypeOK
    <3> QED
      BY <3>1 DEF Taken
  <2> HIDE DEF t, o, taken
  <2>4. calls \in Seq(Frames)
    BY <2>1, <2>3, AcquireCallsType
  <2>5. Range(calls) = {Acquire(x, t) : x \in Range(taken)}
    <3>1. Len(taken) \in Nat /\ DOMAIN calls = 1..Len(taken) /\ DOMAIN taken = 1..Len(taken)
      BY <2>3, LenProperties
    <3>2. \A i \in 1..Len(taken) : calls[i] = Acquire(taken[i], t)
      OBVIOUS
    <3> HIDE DEF calls
    <3> QED
      BY <3>1, <3>2 DEF Range
  <2>6. Nested(calls)
    <3>1. \A i \in 1..Len(calls) : calls[i].op = "Acquire"
      <4>1. Len(calls) = Len(taken)
        BY <2>3, LenProperties
      <4> QED
        BY <4>1 DEF Acquire
    <3>2. "Acquire" \in Beneath("Acquire")
      BY BeneathEach
    <3> HIDE DEF calls
    <3> QED
      BY <3>1, <3>2 DEF Nested
  <2>7. /\ Callback(t, "Signal") \in Frames
        /\ RemoveWaiting(t) \in Frames
        /\ Resume(t) \in Frames
    BY <2>1, FrameType DEF Reasons
  <2>8. /\ Callback(t, "Signal").op = "Callback"
        /\ RemoveWaiting(t).op = "RemoveWaiting"
        /\ Resume(t).op = "Resume"
    BY DEF Callback, RemoveWaiting, Resume
  <2>9. /\ tail \in Seq(Frames)
        /\ Range(tail) = {Callback(t, "Signal"), RemoveWaiting(t), Resume(t)}
        /\ Nested(tail)
    <3> DEFINE f == Callback(t, "Signal")
               g == RemoveWaiting(t)
               h == Resume(t)
    <3>1. g.op \in Beneath(f.op) /\ h.op \in Beneath(f.op) /\ h.op \in Beneath(g.op)
      BY <2>8, BeneathEach DEF Ending
    <3>2. f \in Frames /\ g \in Frames /\ h \in Frames
      BY <2>7
    <3> HIDE DEF f, g, h
    <3>3. <<f, g, h>> \in Seq(Frames) /\ Range(<<f, g, h>>) = {f, g, h} /\ Nested(<<f, g, h>>)
      BY <3>1, <3>2, StackOfThree
    <3> QED
      BY <3>3 DEF f, g, h
  <2> HIDE DEF tail
  <2>10. /\ tail \o work \in Seq(Frames)
         /\ Range(tail \o work) = Range(tail) \cup Stacked
         /\ Nested(tail \o work)
    <3>1. \A f \in Range(tail), g \in Stacked : g.op \in Beneath(f.op)
      BY <1>1, <1>2, <2>8, <2>9, BeneathEach DEF Ending
    <3> QED
      BY <1>1, <2>9, <3>1, StackPush DEF Stacked
  <2>11. /\ calls \o (tail \o work) \in Seq(Frames)
         /\ Range(calls \o (tail \o work)) = Range(calls) \cup Range(tail \o work)
         /\ Nested(calls \o (tail \o work))
    <3>1. \A f \in Range(calls) : f.op = "Acquire"
      BY <2>5 DEF Acquire
    <3>2. \A f \in Range(calls), g \in Range(tail \o work) : g.op \in Beneath(f.op)
      BY <1>1, <1>2, <2>8, <2>9, <2>10, <3>1, BeneathEach DEF Ending
    <3> HIDE DEF calls
    <3> QED
      BY <2>4, <2>6, <2>10, <3>2, StackPush
  <2>12. calls \o tail \o work = calls \o (tail \o work)
    <3> HIDE DEF calls
    <3> QED
      BY <1>1, <2>4, <2>9, ConcatAssociative
  <2>13. Nested(work') /\ Stacked' = Range(calls) \cup (Range(tail) \cup Stacked)
    <3> HIDE DEF calls
    <3> QED
      BY <2>2, <2>10, <2>11, <2>12 DEF Stacked
  <2> QED
    BY <1>6, <2>1, <2>3, <2>5, <2>9, <2>13 DEF t, o, taken
<1> QED
  BY <1>5, <1>6

LEMMA CallbackStack ==
    ASSUME TypeOK, Nested(work), CallbackStep, fault' = NoFault
    PROVE  Nested(work') /\ Stacked' = Under
<1>1. work # <<>> /\ Return
  BY DEF CallbackStep, Runs, Fail, NoFault
<1> QED
  BY <1>1, ReturnStack

LEMMA ResumeStack ==
    ASSUME TypeOK, Nested(work), ResumeStep, fault' = NoFault
    PROVE  Nested(work') /\ Stacked' = Under
<1>1. work # <<>> /\ Return
  BY DEF ResumeStep, Runs, Fail, NoFault
<1> QED
  BY <1>1, ReturnStack

LEMMA StopStack ==
    ASSUME TypeOK, Nested(work), StopStep
    PROVE  LET t == top.thread
           IN  /\ Nested(work')
               /\ Stacked' = {WakeupAll(t), RemoveWaiting(t), ReleaseMutexes(t, held_mutexes[t])}
                             \cup Under
               /\ \A f \in Under : f.op = "TerminateThreads"
<1> DEFINE t == top.thread
           calls == StopCalls(t)
<1>1. /\ work # <<>> /\ top.op = "Stop" /\ work \in Seq(Frames)
      /\ work' = calls \o Tail(work)
  BY DEF StopStep, Runs, top, TypeOK
<1>2. /\ top \in Frames
      /\ \A f \in Under : f.op = "TerminateThreads"
  BY <1>1, Innermost, BeneathEach
<1>3. t \in Threads /\ t \in Objects /\ held_mutexes[t] \in SUBSET Mutexes
  BY <1>1, <1>2, FrameFields DEF Objects, TypeOK
<1> HIDE DEF t
<1>4. /\ WakeupAll(t) \in Frames /\ RemoveWaiting(t) \in Frames
      /\ ReleaseMutexes(t, held_mutexes[t]) \in Frames
  BY <1>3, FrameType
<1>5. /\ WakeupAll(t).op = "WakeupAll" /\ RemoveWaiting(t).op = "RemoveWaiting"
      /\ ReleaseMutexes(t, held_mutexes[t]).op = "ReleaseMutexes"
  BY DEF WakeupAll, RemoveWaiting, ReleaseMutexes
<1>6. /\ calls \in Seq(Frames)
      /\ Range(calls) = {WakeupAll(t), RemoveWaiting(t), ReleaseMutexes(t, held_mutexes[t])}
      /\ Nested(calls)
  <2> DEFINE f == WakeupAll(t)
             g == RemoveWaiting(t)
             h == ReleaseMutexes(t, held_mutexes[t])
  <2>1. g.op \in Beneath(f.op) /\ h.op \in Beneath(f.op) /\ h.op \in Beneath(g.op)
    BY <1>5, BeneathEach DEF Ending
  <2>2. f \in Frames /\ g \in Frames /\ h \in Frames /\ calls = <<f, g, h>>
    BY <1>4 DEF StopCalls
  <2> HIDE DEF f, g, h, calls
  <2>3. <<f, g, h>> \in Seq(Frames) /\ Range(<<f, g, h>>) = {f, g, h} /\ Nested(<<f, g, h>>)
    BY <2>1, <2>2, StackOfThree
  <2> QED
    BY <2>2, <2>3 DEF f, g, h
<1> HIDE DEF calls
<1>7. Tail(work) \in Seq(Frames) /\ Nested(Tail(work))
  BY <1>1, StackParts
<1>8. \A f \in Range(calls), g \in Under : g.op \in Beneath(f.op)
  BY <1>2, <1>5, <1>6, BeneathEach DEF Ending
<1>9. Nested(calls \o Tail(work)) /\ Range(calls \o Tail(work)) = Range(calls) \cup Under
  BY <1>6, <1>7, <1>8, StackPush DEF Under
<1> QED
  BY <1>1, <1>2, <1>6, <1>9 DEF Stacked, t

LEMMA ReleaseMutexesStack ==
    ASSUME TypeOK, Nested(work), ReleaseMutexesStep
    PROVE  /\ Nested(work')
           /\ \A f \in Under : f.op = "TerminateThreads"
           /\ top.mutexes = {} => Stacked' = Under
           /\ top.mutexes # {} => \E m \in top.mutexes :
                 /\ lock_count' = [lock_count EXCEPT ![m] = 0]
                 /\ holding_thread' = [holding_thread EXCEPT ![m] = NoThread]
                 /\ Stacked' = {WakeupAll(m), ReleaseMutexes(top.thread, top.mutexes \ {m})}
                               \cup Under
<1>1. /\ work # <<>> /\ top.op = "ReleaseMutexes"
  BY DEF ReleaseMutexesStep, Runs, top
<1>2. /\ top \in Frames
      /\ \A f \in Under : f.op = "TerminateThreads"
  BY <1>1, Innermost, BeneathEach
<1>3. top.thread \in Threads /\ top.mutexes \in SUBSET Mutexes
  BY <1>1, <1>2, FrameFields
<1>4. CASE top.mutexes = {}
  <2>1. Return
    BY <1>4 DEF ReleaseMutexesStep
  <2> QED
    BY <1>1, <1>2, <1>4, <2>1, ReturnStack
<1>5. CASE top.mutexes # {}
  <2>1. PICK m \in top.mutexes :
           /\ lock_count' = [lock_count EXCEPT ![m] = 0]
           /\ holding_thread' = [holding_thread EXCEPT ![m] = NoThread]
           /\ work' = <<WakeupAll(m), ReleaseMutexes(top.thread, top.mutexes \ {m})>>
                      \o Tail(work)
    BY <1>5 DEF ReleaseMutexesStep
  <2> DEFINE f == WakeupAll(m)
             g == ReleaseMutexes(top.thread, top.mutexes \ {m})
  <2>2. f \in Frames /\ g \in Frames
    BY <1>3, FrameType DEF Objects
  <2>3. f.op = "WakeupAll" /\ g.op = "ReleaseMutexes"
    BY DEF WakeupAll, ReleaseMutexes
  <2> HIDE DEF f, g
  <2>4. /\ Beneath(top.op) \subseteq Beneath(f.op) /\ Beneath(top.op) \subseteq Beneath(g.op)
        /\ g.op \in Beneath(f.op)
    BY <1>1, <2>3, BeneathEach DEF Ending
  <2>5. work' = <<f, g>> \o Tail(work)
    BY <2>1 DEF f, g
  <2>6. Nested(work') /\ Stacked' = {f, g} \cup Under
    BY <1>1, <2>2, <2>4, <2>5, MoveOnCallStack
  <2> QED
    BY <1>2, <1>5, <2>1, <2>6 DEF f, g
<1> QED
  BY <1>4, <1>5

LEMMA TerminateThreadsStack ==
    ASSUME TypeOK, Nested(work), TerminateThreadsStep
    PROVE  LET c == top.core
               p == top.process
               last == current_thread[c]
           IN  /\ Nested(work')
               /\ \A f \in Under : f.op = "TerminateThreads"
               /\ \/ /\ \E t \in thread_list : /\ CoreOf[t] = c /\ OwnerOf[t] = p /\ t # last
                                               /\ Stacked' = {Stop(t)} \cup Stacked
                     /\ UNCHANGED halted
                  \/ /\ last # NoThread /\ OwnerOf[last] = p
                     /\ Stacked' = {Stop(last)} \cup Under
                     /\ PrepareReschedule(cpu)
                  \/ /\ Stacked' = Under
                     /\ UNCHANGED halted
<1> DEFINE c == top.core
           p == top.process
           last == current_thread[c]
           others == {t \in thread_list : CoreOf[t] = c /\ OwnerOf[t] = p /\ t # last}
<1>1. /\ work # <<>> /\ top.op = "TerminateThreads" /\ work \in Seq(Frames)
  BY DEF TerminateThreadsStep, Runs, top, TypeOK
<1>2. /\ top \in Frames /\ Stacked = {top} \cup Under
      /\ \A f \in Under : f.op = "TerminateThreads"
  BY <1>1, Innermost, BeneathEach
<1>3. c \in Cores /\ thread_list \subseteq Threads
  BY <1>1, <1>2, FrameFields DEF TypeOK
<1>4. \A t \in Threads : Stop(t) \in Frames /\ Stop(t).op = "Stop"
  BY FrameType DEF Stop
<1>5. Beneath("Stop") = Beneath("TerminateThreads") /\ Beneath("Stop") = {"TerminateThreads"}
  BY BeneathEach
<1>6. ASSUME NEW t \in others, work' = <<Stop(t)>> \o work, UNCHANGED halted
      PROVE  /\ Nested(work')
             /\ \E x \in thread_list : /\ CoreOf[x] = c /\ OwnerOf[x] = p /\ x # last
                                       /\ Stacked' = {Stop(x)} \cup Stacked
  <2>1. t \in Threads /\ t \in thread_list /\ CoreOf[t] = c /\ OwnerOf[t] = p /\ t # last
    BY <1>3
  <2> DEFINE f == Stop(t)
  <2>2. f \in Frames /\ f.op = "Stop"
    BY <1>4, <2>1
  <2> HIDE DEF f
  <2>3. <<f>> \in Seq(Frames) /\ Range(<<f>>) = {f} /\ Nested(<<f>>)
    BY <2>2, ShortStacks
  <2>4. \A g \in Stacked : g.op \in Beneath(f.op)
    BY <1>1, <1>2, <1>5, <2>2
  <2>5. Nested(<<f>> \o work) /\ Range(<<f>> \o work) = {f} \cup Stacked
    BY <1>1, <2>3, <2>4, StackPush DEF Stacked
  <2> QED
    BY <1>6, <2>1, <2>5 DEF Stacked, f
<1>7. ASSUME last # NoThread, work' = <<Stop(last)>> \o Tail(work)
      PROVE  Nested(work') /\ Stacked' = {Stop(last)} \cup Under
  <2>1. last \in Threads
    BY <1>3, <1>7 DEF TypeOK
  <2> DEFINE f == Stop(last)
  <2>2. f \in Frames /\ f.op = "Stop"
    BY <1>4, <2>1
  <2> HIDE DEF f
  <2> QED
    BY <1>1, <1>5, <1>7, <2>2, MoveOnStack DEF f
<1>8. ASSUME Return
      PROVE  Nested(work') /\ Stacked' = Under
  BY <1>1, <1>8, ReturnStack
<1>9. \/ (\E t \in others : work' = <<Stop(t)>> \o work) /\ UNCHANGED halted
      \/ /\ last # NoThread /\ OwnerOf[last] = p /\ PrepareReschedule(cpu)
         /\ work' = <<Stop(last)>> \o Tail(work)
      \/ Return /\ UNCHANGED halted
  BY DEF TerminateThreadsStep
<1> QED
  BY <1>2, <1>6, <1>7, <1>8, <1>9

(* The loop over the threads of a process on a core is over when none is   *)
(* left but the one that the core runs; that one is stopped last.          *)
LEMMA TerminateThreadsDone ==
    ASSUME TypeOK, Nested(work), TerminateThreadsStep, top \notin Stacked'
    PROVE  LET last == current_thread[top.core]
           IN  /\ \A t \in thread_list :
                     CoreOf[t] = top.core /\ OwnerOf[t] = top.process => t = last
               /\ last # NoThread /\ OwnerOf[last] = top.process =>
                     Stop(last) \in Stacked' /\ PrepareReschedule(cpu)
<1> DEFINE last == current_thread[top.core]
           others == {t \in thread_list : CoreOf[t] = top.core /\ OwnerOf[t] = top.process
                                          /\ t # last}
<1>1. top \in Frames /\ top \in Stacked /\ work # <<>> /\ top.op = "TerminateThreads"
  BY Innermost DEF TerminateThreadsStep, Runs, top
<1>2. thread_list \subseteq Threads /\ top.core \in Cores /\ work \in Seq(Frames)
  BY <1>1, FrameFields DEF TypeOK
<1>3. ASSUME NEW t \in others
      PROVE  work' # <<Stop(t)>> \o work
  <2> DEFINE f == Stop(t)
  <2>1. f \in Frames
    BY <1>2, FrameType
  <2> HIDE DEF f
  <2>2. <<f>> \in Seq(Frames) /\ Range(<<f>>) = {f}
    BY <2>1, ShortStacks
  <2>3. Range(<<f>> \o work) = {f} \cup Stacked
    BY <1>2, <2>2, StackPush DEF Stacked
  <2>4. work' = <<f>> \o work => top \in Stacked'
    BY <1>1, <2>3 DEF Stacked
  <2> QED
    BY <2>4 DEF f
<1>4. /\ others = {}
      /\ last # NoThread /\ OwnerOf[last] = top.process =>
            work' = <<Stop(last)>> \o Tail(work) /\ PrepareReschedule(cpu)
  BY <1>3 DEF TerminateThreadsStep
<1>5. ASSUME last # NoThread, OwnerOf[last] = top.process
      PROVE  Stop(last) \in Stacked'
  <2>1. last \in Threads
    BY <1>2, <1>5 DEF TypeOK
  <2> DEFINE f == Stop(last)
  <2>2. f \in Frames /\ Tail(work) \in Seq(Frames) /\ work' = <<f>> \o Tail(work)
    BY <1>1, <1>2, <1>4, <1>5, <2>1, FrameType, WorkTop
  <2> HIDE DEF f
  <2>3. <<f>> \in Seq(Frames) /\ Range(<<f>>) = {f}
    BY <2>2, ShortStacks
  <2>4. Range(<<f>> \o Tail(work)) = {f} \cup Range(Tail(work))
    BY <2>2, <2>3, StackPush
  <2> QED
    BY <2>2, <2>4 DEF Stacked, f
<1> QED
  BY <1>4, <1>5


LEMMA ResumeArbitratedStack ==
    ASSUME TypeOK, Nested(work), ResumeArbitratedStep, fault' = NoFault
    PROVE  /\ Nested(work')
           /\ Under = {}
           /\ \/ Stacked' = {} /\ UNCHANGED arb_waiting
              \/ LET a == top.arbiter
                     ts == arb_waiting[a]
                 IN  \E i \in 1..Len(ts), h \in Frames :
                        /\ status[ts[i]] = "WaitArb"
                        /\ arb_waiting' = [arb_waiting EXCEPT ![a] = RemoveAt(ts, i)]
                        /\ h.op = "ResumeArbitrated"
                        /\ Stacked' = {Resume(ts[i]), h}
<1> DEFINE a == top.arbiter
           ts == arb_waiting[a]
           there == {i \in 1..Len(ts) : wait_address[ts[i]] = top.address}
           levels == {current_priority[ts[i]] : i \in there}
           best == Min(levels)
           firsts == {i \in there : current_priority[ts[i]] = best}
           next == IF top.count = -1 THEN Min(there) ELSE Min(firsts)
           count == IF top.count = -1 THEN -1 ELSE top.count - 1
<1>1. /\ work # <<>> /\ top.op = "ResumeArbitrated" /\ work \in Seq(Frames)
  BY DEF ResumeArbitratedStep, Runs, top, TypeOK
<1>2. Under = {} /\ top \in Frames /\ Beneath(top.op) = {}
  BY <1>1, Innermost, BeneathEach
<1>3. a \in Arbiters /\ top.address \in Addresses /\ top.count \in Int
  BY <1>1, <1>2, FrameFields
<1>4. ~ (top.count # 0 /\ \E i \in 1..Len(ts) : status[ts[i]] # "WaitArb")
  BY DEF ResumeArbitratedStep, Fail, NoFault
<1>5. CASE top.count = 0 \/ there = {}
  <2>1. Return /\ UNCHANGED arb_waiting
    BY <1>4, <1>5 DEF ResumeArbitratedStep
  <2> QED
    BY <1>1, <1>2, <2>1, ReturnStack
<1>6. CASE ~ (top.count = 0 \/ there = {})
  <2>1. ts \in Seq(Threads) /\ current_priority \in [Threads -> Priorities]
    BY <1>3 DEF TypeOK
  <2>2. next \in 1..Len(ts)
    <3>1. there \subseteq 1..Len(ts) /\ there \subseteq Nat /\ there # {}
      BY <1>6
    <3>2. Min(there) \in 1..Len(ts)
      <4> HIDE DEF there
      <4> QED
        BY <3>1, MinNat
    <3>3. levels \subseteq Priorities /\ levels # {}
      <4>1. \A i \in there : ts[i] \in Threads
        BY <2>1
      <4>2. \A i \in there : current_priority[ts[i]] \in Priorities
        BY <2>1, <4>1
      <4> HIDE DEF ts, there
      <4> QED
        BY <3>1, <4>2
    <3>4. best \in levels
      <4> HIDE DEF levels
      <4> QED
        BY <3>3, MinPriority
    <3>5. firsts # {} /\ firsts \subseteq Nat /\ firsts \subseteq 1..Len(ts)
      <4> HIDE DEF best
      <4> QED
        BY <3>4
    <3>6. Min(firsts) \in 1..Len(ts)
      <4> HIDE DEF firsts
      <4> QED
        BY <3>5, MinNat
    <3> HIDE DEF firsts, there
    <3> QED
      BY <3>2, <3>6
  <2> DEFINE f == Resume(ts[next])
             g == [top EXCEPT !.count = count]
  <2>3. /\ work' = <<f, g>> \o Tail(work)
        /\ arb_waiting' = [arb_waiting EXCEPT ![a] = RemoveAt(ts, next)]
    BY <1>4, <1>6 DEF ResumeArbitratedStep
  <2> HIDE DEF next
  <2>4. ts[next] \in Threads /\ status[ts[next]] = "WaitArb"
    BY <1>4, <1>6, <2>1, <2>2
  <2>5. f \in Frames /\ f.op = "Resume"
    BY <2>4, FrameType DEF Resume
  <2>6. g \in Frames /\ g.op = "ResumeArbitrated"
    <3>1. count \in Int
      BY <1>3
    <3>2. top \in [op : {"ResumeArbitrated"}, arbiter : Arbiters, address : Addresses,
                   count : Int]
      BY <1>1, <1>2 DEF Frames
    <3> HIDE DEF count
    <3>3. g \in [op : {"ResumeArbitrated"}, arbiter : Arbiters, address : Addresses,
                 count : Int]
      BY <3>1, <3>2
    <3> QED
      BY <3>3 DEF Frames
  <2> HIDE DEF f, g
  <2>8. /\ Beneath(top.op) \subseteq Beneath(f.op) /\ Beneath(top.op) \subseteq Beneath(g.op)
        /\ g.op \in Beneath(f.op)
    BY <1>2, <2>5, <2>6, BeneathEach
  <2>9. Nested(work') /\ Stacked' = {f, g} \cup Under
    BY <1>1, <2>3, <2>5, <2>6, <2>8, MoveOnCallStack
  <2>10. \E i \in 1..Len(ts), h \in Frames :
            /\ status[ts[i]] = "WaitArb"
            /\ arb_waiting' = [arb_waiting EXCEPT ![a] = RemoveAt(ts, i)]
            /\ h.op = "ResumeArbitrated"
            /\ Stacked' = {Resume(ts[i]), h}
    BY <1>2, <2>2, <2>3, <2>4, <2>6, <2>9 DEF f
  <2> QED
    BY <1>2, <2>9, <2>10
<1> QED
  BY <1>5, <1>6

LEMMA BoostStarvedStack ==
    ASSUME TypeOK, Nested(work), BoostStarvedStep, fault' = NoFault
    PROVE  LET first == get_first(ready_queue[top.core])
           IN  /\ Nested(work')
               /\ \A f \in Under : f.op = "PopNext"
               /\ top.threads = {} => Stacked' = Under /\ UNCHANGED prioVars
               /\ top.threads # {} =>
                     /\ first # NoThread
                     /\ \E t \in top.threads :
                           /\ BoostPriority(t, Max({current_priority[first], BoostFloor}))
                           /\ Stacked' = {BoostStarved(top.core, top.threads \ {t})} \cup Under
<1>1. /\ work # <<>> /\ top.op = "BoostStarved"
  BY DEF BoostStarvedStep, Runs, top
<1>2. /\ top \in Frames
      /\ \A f \in Under : f.op = "PopNext"
  BY <1>1, Innermost, BeneathEach
<1>3. top.core \in Cores /\ top.threads \in SUBSET Threads
  BY <1>1, <1>2, FrameFields
<1> DEFINE first == get_first(ready_queue[top.core])
<1>4. ~ (top.threads # {} /\ first = NoThread)
  BY DEF BoostStarvedStep, Fail, NoFault
<1>5. CASE top.threads = {}
  <2>1. Return /\ UNCHANGED prioVars
    BY <1>4, <1>5 DEF BoostStarvedStep
  <2> QED
    BY <1>1, <1>2, <1>5, <2>1, ReturnStack
<1>6. CASE top.threads # {}
  <2>1. PICK t \in top.threads :
           /\ BoostPriority(t, Max({current_priority[first], BoostFloor}))
           /\ work' = <<BoostStarved(top.core, top.threads \ {t})>> \o Tail(work)
    BY <1>4, <1>6 DEF BoostStarvedStep
  <2> DEFINE f == BoostStarved(top.core, top.threads \ {t})
  <2>2. f \in Frames /\ f.op = "BoostStarved"
    BY <1>3, FrameType DEF BoostStarved
  <2>3. work' = <<f>> \o Tail(work)
    BY <2>1
  <2> HIDE DEF f
  <2>4. Nested(work') /\ Stacked' = {f} \cup Under
    BY <1>1, <2>2, <2>3, MoveOnStack
  <2> QED
    BY <1>2, <1>4, <1>6, <2>1, <2>4 DEF f
<1> QED
  BY <1>5, <1>6

(* Nothing is under the frame, or the frame is all there is.               *)
LEMMA UnderNothing ==
    ASSUME TypeOK, work # <<>>, Under = {}
    PROVE  Tail(work) = <<>> /\ \A f \in Frames : <<f>> \o Tail(work) = <<f>>
<1>1. Tail(work) \in Seq(Frames)
  BY WorkTop DEF TypeOK
<1>2. Tail(work) = <<>>
  <2> DEFINE s == Tail(work)
  <2>1. ASSUME s # <<>>
        PROVE  FALSE
    <3>1. s[1] \in Range(s)
      BY <1>1, <2>1 DEF Range
    <3> QED
      BY <3>1 DEF Under
  <2> QED
    BY <2>1
<1>3. \A f \in Frames : <<f>> \o <<>> = <<f>>
  OBVIOUS
<1> QED
  BY <1>2, <1>3

LEMMA PopNextStack ==
    ASSUME TypeOK, Nested(work), PopNextStep, fault' = NoFault
    PROVE  LET c == top.core
               old == current_thread[c]
               levels == IF IsRunning(old)
                         THEN OccupiedBelow(ready_queue[c], current_priority[old])
                         ELSE Occupied(ready_queue[c])
               next == front(ready_queue[c], levels)
               n == IF next = NoThread /\ IsRunning(old) THEN old ELSE next
           IN  /\ Nested(work')
               /\ Under = {}
               /\ ready_queue' = [ready_queue EXCEPT ![c] = pop(@, levels)]
               /\ levels \subseteq Occupied(ready_queue[c])
               /\ n \in Threads \cup {NoThread}
               /\ IF next # NoThread /\ ~can_schedule[next]
                  THEN /\ unscheduled_ready_queue' = Append(unscheduled_ready_queue, next)
                       /\ work' = work /\ Stacked' = Stacked
                  ELSE /\ work' = <<Requeue(c, n)>> /\ Stacked' = {Requeue(c, n)}
                       /\ UNCHANGED unscheduled_ready_queue
<1> DEFINE c == top.core
           old == current_thread[c]
           levels == IF IsRunning(old)
                     THEN OccupiedBelow(ready_queue[c], current_priority[old])
                     ELSE Occupied(ready_queue[c])
           next == front(ready_queue[c], levels)
           n == IF next = NoThread /\ IsRunning(old) THEN old ELSE next
<1>1. /\ work # <<>> /\ top.op = "PopNext"
  BY DEF PopNextStep, Runs, top
<1>2. Under = {} /\ top \in Frames
  BY <1>1, Innermost, BeneathEach
<1>3. c \in Cores
  BY <1>1, <1>2, FrameFields
<1>4. /\ ready_queue' = [ready_queue EXCEPT ![c] = pop(@, levels)]
      /\ IF next # NoThread /\ ~can_schedule[next]
         THEN /\ unscheduled_ready_queue' = Append(unscheduled_ready_queue, next)
              /\ UNCHANGED work
         ELSE /\ work' = <<Requeue(c, n)>> \o Tail(work)
              /\ UNCHANGED unscheduled_ready_queue
  BY DEF PopNextStep, Fail, NoFault
<1>5. levels \subseteq Occupied(ready_queue[c])
  BY DEF OccupiedBelow
<1>6. next \in Threads \cup {NoThread} /\ old \in Threads \cup {NoThread}
  <2>1. Priorities \subseteq Nat
    BY CoreAssumption DEF Priorities
  <2>2. ready_queue[c] \in Lists(Priorities, Threads) /\ old \in Threads \cup {NoThread}
    BY <1>3 DEF TypeOK
  <2> HIDE DEF levels, c
  <2> QED
    BY <1>5, <2>1, <2>2, PopType
<1> HIDE DEF next, old, c, levels
<1>7. n \in Threads \cup {NoThread}
  BY <1>6
<1> HIDE DEF n
<1>8. CASE next # NoThread /\ ~can_schedule[next]
  <2>1. work' = work
    BY <1>4, <1>8
  <2>2. Stacked' = Stacked /\ Nested(work')
    BY <2>1 DEF Stacked
  <2> QED
    BY <1>2, <1>4, <1>5, <1>7, <1>8, <2>1, <2>2 DEF c, old, next, levels, n
<1>9. CASE ~ (next # NoThread /\ ~can_schedule[next])
  <2> DEFINE f == Requeue(c, n)
  <2>1. f \in Frames /\ f.op = "Requeue"
    BY <1>3, <1>7, FrameType DEF Requeue
  <2>2. work' = <<f>> \o Tail(work) /\ UNCHANGED unscheduled_ready_queue
    BY <1>4, <1>9
  <2> HIDE DEF f
  <2>3. Beneath(top.op) \subseteq Beneath(f.op)
    BY <1>1, <2>1, BeneathEach
  <2>4. Nested(work') /\ Stacked' = {f}
    BY <1>1, <1>2, <2>1, <2>2, <2>3, MoveOnStack
  <2>5. work' = <<f>>
    BY <1>1, <1>2, <2>1, <2>2, UnderNothing
  <2> QED
    BY <1>2, <1>4, <1>5, <1>7, <1>9, <2>2, <2>4, <2>5 DEF f, c, old, next, levels, n
<1> QED
  BY <1>8, <1>9

LEMMA RequeueStack ==
    ASSUME TypeOK, Nested(work), RequeueStep
    PROVE  /\ Nested(work')
           /\ Under = {}
           /\ unscheduled_ready_queue = <<>> =>
                 /\ work' = <<SwitchContext(top.core, top.next)>>
                 /\ Stacked' = {SwitchContext(top.core, top.next)}
           /\ unscheduled_ready_queue # <<>> => work' = work /\ Stacked' = Stacked
<1>1. /\ work # <<>> /\ top.op = "Requeue"
  BY DEF RequeueStep, Runs, top
<1>2. Under = {} /\ top \in Frames
  BY <1>1, Innermost, BeneathEach
<1>3. top.core \in Cores /\ top.next \in Threads \cup {NoThread}
  BY <1>1, <1>2, FrameFields
<1>4. CASE unscheduled_ready_queue = <<>>
  <2> DEFINE f == SwitchContext(top.core, top.next)
  <2>1. work' = <<f>> \o Tail(work)
    BY <1>4 DEF RequeueStep
  <2>2. f \in Frames /\ f.op = "SwitchContext"
    BY <1>3, FrameType DEF SwitchContext
  <2> HIDE DEF f
  <2>3. Beneath(top.op) \subseteq Beneath(f.op)
    BY <1>1, <2>2, BeneathEach
  <2>4. Nested(work') /\ Stacked' = {f} \cup Under
    BY <1>1, <2>1, <2>2, <2>3, MoveOnStack
  <2>5. work' = <<f>>
    BY <1>1, <1>2, <2>1, <2>2, UnderNothing
  <2> QED
    BY <1>2, <1>4, <2>4, <2>5 DEF f
<1>5. CASE unscheduled_ready_queue # <<>>
  <2>1. work' = work
    BY <1>5 DEF RequeueStep
  <2> QED
    BY <1>2, <1>5, <2>1 DEF Stacked
<1> QED
  BY <1>4, <1>5

LEMMA SwitchContextStack ==
    ASSUME TypeOK, Nested(work), SwitchContextStep, fault' = NoFault
    PROVE  Nested(work') /\ Under = {} /\ Stacked' = {} /\ work' = <<>>
<1>1. work # <<>> /\ top.op = "SwitchContext" /\ Return
  BY DEF SwitchContextStep, Runs, top, NoFault
<1>2. Nested(work') /\ Under = {} /\ Stacked' = {}
  BY <1>1, Innermost, BeneathEach, ReturnStack
<1> QED
  BY <1>1, <1>2, UnderNothing DEF Return

(***************************************************************************)
(* The entry points start from an empty stack.                             *)
(***************************************************************************)
LEMMA QuietStack ==
    ASSUME work = <<>>
    PROVE  Stacked = {} /\ Nested(work)
BY DEF Stacked, Range, Nested

LEMMA NoCallStack ==
    ASSUME work = <<>>, UNCHANGED work
    PROVE  Stacked' = {} /\ Nested(work')
BY DEF Stacked, Range, Nested

LEMMA OneCallStack ==
    ASSUME NEW f \in Frames, work' = <<f>>
    PROVE  Stacked' = {f} /\ Nested(work')
BY ShortStacks DEF Stacked

LEMMA GrantsStack ==
    ASSUME NEW t \in Threads, NEW os \in Seq(Objects), Grants(t, os)
    PROVE  Nested(work') /\ Stacked' = {Acquire(o, t) : o \in Range(os)}
<1> DEFINE calls == [i \in 1..Len(os) |-> Acquire(os[i], t)]
<1>1. work' = calls
  BY DEF Grants
<1>2. Len(os) \in Nat /\ DOMAIN os = 1..Len(os) /\ DOMAIN calls = 1..Len(os) /\ Len(calls) = Len(os)
  BY LenProperties
<1>3. \A i \in 1..Len(os) : calls[i] = Acquire(os[i], t) /\ calls[i].op = "Acquire"
  BY DEF Acquire
<1> HIDE DEF calls
<1>4. Range(calls) = {Acquire(o, t) : o \in Range(os)}
  BY <1>2, <1>3 DEF Range
<1>5. Nested(calls)
  BY <1>2, <1>3, BeneathEach DEF Nested
<1> QED
  BY <1>1, <1>4, <1>5 DEF Stacked

LEMMA SleepsStack ==
    ASSUME NEW c, NEW t \in Threads, NEW os \in Seq(Objects), NEW s, NEW timeout,
           Sleeps(c, t, os, s, timeout)
    PROVE  /\ Nested(work') /\ Stacked' = {AddWaiting(t, os)}
           /\ work' = <<AddWaiting(t, os)>>
<1>1. AddWaiting(t, os) \in Frames /\ work' = <<AddWaiting(t, os)>>
  BY FrameType DEF Sleeps
<1> QED
  BY <1>1, OneCallStack

(* Which of the two a wait does, and of which objects.                     *)
LEMMA WaitCases ==
    ASSUME NEW c \in Cores, NEW t \in Threads, NEW os \in WaitLists, NEW timeout,
           \/ WaitSynchronizationAny(c, t, os, timeout)
           \/ WaitSynchronizationAll(c, t, os, timeout)
    PROVE  /\ os \in Seq(Objects)
           /\ \/ \E ps \in Seq(Objects) : Grants(t, ps) /\ Range(ps) \subseteq Range(os)
              \/ \E s \in WaitingOnObjects : Sleeps(c, t, os, s, timeout)
<1> DEFINE available == {i \in 1..Len(os) : ~ShouldWait(os[i], t)}
<1>1. os \in Seq(Objects)
  BY SyncAssumption
<1>2. CASE WaitSynchronizationAny(c, t, os, timeout)
  <2>1. CASE available # {}
    <3>1. Grants(t, <<os[Min(available)]>>)
      BY <1>2, <2>1 DEF WaitSynchronizationAny
    <3>2. available \subseteq 1..Len(os) /\ available \subseteq Nat
      OBVIOUS
    <3> HIDE DEF available
    <3>3. Min(available) \in 1..Len(os)
      BY <2>1, <3>2, MinNat
    <3> DEFINE o == os[Min(available)]
    <3>4. o \in Objects /\ o \in Range(os)
      BY <1>1, <3>3, RangeEquality
    <3> HIDE DEF o
    <3>5. <<o>> \in Seq(Objects) /\ Range(<<o>>) \subseteq Range(os)
      BY <3>4 DEF Range
    <3> QED
      BY <1>1, <3>1, <3>5 DEF o
  <2>2. CASE available = {}
    <3>1. Sleeps(c, t, os, "WaitSynchAny", timeout)
      BY <1>2, <2>2 DEF WaitSynchronizationAny
    <3> QED
      BY <1>1, <3>1 DEF WaitingOnObjects
  <2> QED
    BY <2>1, <2>2
<1>3. CASE WaitSynchronizationAll(c, t, os, timeout)
  <2>1. Grants(t, os) \/ Sleeps(c, t, os, "WaitSynchAll", timeout)
    BY <1>3 DEF WaitSynchronizationAll
  <2> QED
    BY <1>1, <2>1 DEF WaitingOnObjects
<1> QED
  BY <1>2, <1>3

LEMMA WaitSvcStack ==
    ASSUME NEW c \in Cores, NEW t \in Threads, WaitSvc(c, t)
    PROVE  Nested(work')
<1>1. CASE \E os \in WaitLists, timeout \in Timeouts :
              \/ WaitSynchronizationAny(c, t, os, timeout)
              \/ WaitSynchronizationAll(c, t, os, timeout)
  BY <1>1, WaitCases, GrantsStack, SleepsStack
<1>2. CASE \/ \E timeout \in Timeouts : SleepThread(c, t, timeout)
           \/ \E a \in Arbiters, addr \in Addresses, timeout \in Timeouts :
                 ArbitrateWait(c, t, a, addr, timeout)
  <2>1. work = <<>> /\ UNCHANGED work
    BY <1>2 DEF SleepThread, ArbitrateWait, Svc, Quiet
  <2> QED
    BY <2>1, NoCallStack
<1> QED
  BY <1>1, <1>2 DEF WaitSvc

LEMMA SignalSvcStack ==
    ASSUME NEW c \in Cores, NEW t \in Threads, SignalSvc(c, t)
    PROVE  /\ Nested(work')
           /\ \A f \in Stacked' : f.op \in {"WakeupAll", "ResumeArbitrated"}
<1>1. work = <<>>
  BY DEF SignalSvc, ReleaseMutex, ReleaseSemaphore, SignalEvent, ClearSignal, SetTimer,
         CancelTimer, ArbitrateSignal, Svc, Quiet
<1>2. \/ work' = <<>>
      \/ \E o \in Objects : work' = <<WakeupAll(o)>>
      \/ \E a \in Arbiters, addr \in Addresses, n \in Int : work' = <<ResumeArbitrated(a, addr, n)>>
  <2>1. ASSUME NEW m \in Mutexes, ReleaseMutex(c, t, m)
        PROVE  work' = <<>> \/ \E o \in Objects : work' = <<WakeupAll(o)>>
    BY <1>1, <2>1 DEF ReleaseMutex, Objects
  <2>2. ASSUME NEW s \in Semaphores, NEW n, ReleaseSemaphore(c, t, s, n)
        PROVE  work' = <<>> \/ \E o \in Objects : work' = <<WakeupAll(o)>>
    BY <1>1, <2>2 DEF ReleaseSemaphore, Objects
  <2>3. ASSUME NEW e \in Events, SignalEvent(c, t, e)
        PROVE  work' = <<>> \/ \E o \in Objects : work' = <<WakeupAll(o)>>
    BY <1>1, <2>3 DEF SignalEvent, Objects, Signals
  <2>4. ASSUME NEW e, ClearSignal(c, t, e) \/ CancelTimer(c, t, e)
        PROVE  work' = <<>>
    BY <1>1, <2>4 DEF ClearSignal, CancelTimer
  <2>5. ASSUME NEW e \in Timers, NEW delayed, NEW interval, SetTimer(c, t, e, delayed, interval)
        PROVE  work' = <<>> \/ \E o \in Objects : work' = <<WakeupAll(o)>>
    BY <1>1, <2>5 DEF SetTimer, Objects, Signals
  <2>6. ASSUME NEW a \in Arbiters, NEW addr \in Addresses, NEW n \in ArbitrateCounts,
               ArbitrateSignal(c, t, a, addr, n)
        PROVE  n \in Int /\ work' = <<ResumeArbitrated(a, addr, n)>>
    BY <2>6, SyncAssumption DEF ArbitrateSignal
  <2> QED
    BY <2>1, <2>2, <2>3, <2>4, <2>5, <2>6 DEF SignalSvc
<1>3. \A o \in Objects : WakeupAll(o) \in Frames /\ WakeupAll(o).op = "WakeupAll"
  BY FrameType DEF WakeupAll
<1>4. \A a \in Arbiters, addr \in Addresses, n \in Int :
         /\ ResumeArbitrated(a, addr, n) \in Frames
         /\ ResumeArbitrated(a, addr, n).op = "ResumeArbitrated"
  BY FrameType DEF ResumeArbitrated
<1>5. CASE work' = <<>>
  BY <1>1, <1>5, NoCallStack
<1>6. ASSUME NEW f \in Frames, f.op \in {"WakeupAll", "ResumeArbitrated"}, work' = <<f>>
      PROVE  Nested(work') /\ \A g \in Stacked' : g.op \in {"WakeupAll", "ResumeArbitrated"}
  BY <1>6, OneCallStack
<1> QED
  BY <1>2, <1>3, <1>4, <1>5, <1>6

LEMMA TerminateProcessStack ==
    ASSUME NEW c \in Cores, NEW t \in Threads, NEW p \in Terminable, TerminateProcess(c, t, p)
    PROVE  /\ Nested(work')
           /\ \/ Stacked' = {} /\ UNCHANGED exited
              \/ /\ Stacked' = {TerminateThreads(d, p) : d \in Cores}
                 /\ exited' = exited \cup {p}
<1> DEFINE calls == [i \in 1..NumCores |-> TerminateThreads(i - 1, p)]
<1>1. work = <<>>
  BY DEF TerminateProcess, Svc, Quiet
<1>2. CASE p \in exited
  <2>1. UNCHANGED <<work, exited>>
    BY <1>2 DEF TerminateProcess
  <2> QED
    BY <1>1, <2>1, NoCallStack
<1>3. CASE p \notin exited
  <2>1. work' = calls /\ exited' = exited \cup {p}
    BY <1>3 DEF TerminateProcess
  <2>2. NumCores \in Nat
    BY CoreAssumption
  <2>3. DOMAIN calls = 1..NumCores /\ Len(calls) = NumCores
    BY <2>2
  <2>4. \A i \in 1..NumCores :
           calls[i] = TerminateThreads(i - 1, p) /\ calls[i].op = "TerminateThreads"
    BY DEF TerminateThreads
  <2>5. \A i \in 1..NumCores : i - 1 \in Cores
    BY <2>2 DEF Cores
  <2>6. \A d \in Cores : d + 1 \in 1..NumCores /\ (d + 1) - 1 = d
    BY <2>2 DEF Cores
  <2> HIDE DEF calls
  <2>7. Range(calls) = {TerminateThreads(d, p) : d \in Cores}
    <3>1. Range(calls) \subseteq {TerminateThreads(d, p) : d \in Cores}
      BY <2>3, <2>4, <2>5 DEF Range
    <3>2. ASSUME NEW d \in Cores
          PROVE  TerminateThreads(d, p) \in Range(calls)
      BY <2>3, <2>4, <2>6 DEF Range
    <3> QED
      BY <3>1, <3>2
  <2>8. Nested(calls)
    BY <2>3, <2>4, BeneathEach DEF Nested
  <2> QED
    BY <2>1, <2>7, <2>8 DEF Stacked
<1> QED
  BY <1>2, <1>3

LEMMA ThreadSvcStack ==
    ASSUME TypeOK, NEW c \in Cores, NEW t \in Threads, ThreadSvc(c, t)
    PROVE  Nested(work')
<1>1. ASSUME NEW new, CreateThread(c, t, new)
      PROVE  Nested(work')
  BY <1>1, NoCallStack DEF CreateThread, MakeThread, Svc, Quiet
<1>2. CASE ExitThread(c, t)
  BY <1>2, FrameType, OneCallStack DEF ExitThread
<1>3. ASSUME NEW x \in Threads, NEW p, SetThreadPriority(c, t, x, p)
      PROVE  Nested(work')
  <2>1. work' = <<UpdateMutexes(pending_mutexes[x])>> /\ pending_mutexes[x] \in SUBSET Mutexes
    BY <1>3 DEF SetThreadPriority, TypeOK
  <2> QED
    BY <2>1, FrameType, OneCallStack
<1>4. ASSUME NEW p, NEW may, ScheduleThreads(c, t, p, may)
      PROVE  Nested(work')
  BY <1>4, NoCallStack DEF ScheduleThreads, Svc, Quiet
<1> QED
  BY <1>1, <1>2, <1>3, <1>4, TerminateProcessStack DEF ThreadSvc

LEMMA ThreadWakeupCallbackStack ==
    ASSUME NEW t \in Threads, ThreadWakeupCallback(t)
    PROVE  /\ Nested(work')
           /\ \/ Stacked' = {}
              \/ Stacked' = {Resume(t)}
              \/ /\ Stacked' = {Callback(t, "Timeout"), RemoveWaiting(t), Resume(t)}
                 /\ status[t] \in WaitingOnObjects \cup {"WaitArb"}
<1>1. work = <<>>
  BY DEF ThreadWakeupCallback, Quiet
<1>2. \/ UNCHANGED work
      \/ work' = <<Resume(t)>>
      \/ /\ work' = <<Callback(t, "Timeout"), RemoveWaiting(t), Resume(t)>>
         /\ status[t] \in WaitingOnObjects \cup {"WaitArb"}
  BY DEF ThreadWakeupCallback, WakeupCalls
<1> DEFINE f == Callback(t, "Timeout")
           g == RemoveWaiting(t)
           h == Resume(t)
<1>3. f \in Frames /\ g \in Frames /\ h \in Frames
  BY FrameType DEF Reasons
<1>4. f.op = "Callback" /\ g.op = "RemoveWaiting" /\ h.op = "Resume"
  BY DEF Callback, RemoveWaiting, Resume
<1> HIDE DEF f, g, h
<1>5. g.op \in Beneath(f.op) /\ h.op \in Beneath(f.op) /\ h.op \in Beneath(g.op)
  BY <1>4, BeneathEach DEF Ending
<1>6. Range(<<f, g, h>>) = {f, g, h} /\ Nested(<<f, g, h>>)
  BY <1>3, <1>5, StackOfThree
<1>7. CASE UNCHANGED work
  BY <1>1, <1>7, NoCallStack
<1>8. CASE work' = <<h>>
  BY <1>3, <1>8, OneCallStack DEF h
<1>9. CASE work' = <<f, g, h>> /\ status[t] \in WaitingOnObjects \cup {"WaitArb"}
  BY <1>6, <1>9 DEF Stacked, f, g, h
<1> QED
  BY <1>2, <1>7, <1>8, <1>9 DEF f, g, h

LEMMA RescheduleStack ==
    ASSUME TypeOK, NEW c \in Cores, Reschedule(c)
    PROVE  /\ Nested(work')
           /\ \E starved \in SUBSET {t \in thread_list : CoreOf[t] = c /\ status[t] = "Ready"} :
                 Stacked' = {BoostStarved(c, starved), PopNext(c)}
<1>1. PICK starved \in SUBSET {t \in thread_list : CoreOf[t] = c /\ status[t] = "Ready"} :
         work' = <<BoostStarved(c, starved), PopNext(c)>>
  BY DEF Reschedule
<1> DEFINE f == BoostStarved(c, starved)
           g == PopNext(c)
<1>2. f \in Frames /\ g \in Frames
  BY FrameType DEF TypeOK
<1>3. f.op = "BoostStarved" /\ g.op = "PopNext"
  BY DEF BoostStarved, PopNext
<1>4. work' = <<f, g>>
  BY <1>1
<1> HIDE DEF f, g
<1>5. Range(<<f, g>>) = {f, g} /\ Nested(<<f, g>>)
  BY <1>2, <1>3, StackOfTwo, BeneathEach
<1> QED
  BY <1>4, <1>5 DEF Stacked, f, g

LEMMA TimerCallbackStack ==
    ASSUME NEW c, NEW e \in Timers, TimerCallback(c, e)
    PROVE  Nested(work') /\ Stacked' = {WakeupAll(e)}
<1>1. WakeupAll(e) \in Frames /\ work' = <<WakeupAll(e)>>
  BY FrameType DEF TimerCallback, Objects, Signals
<1> QED
  BY <1>1, OneCallStack

(***************************************************************************)
(* Every step.                                                             *)
(***************************************************************************)
(* A step of the kernel code whose assertion fails changes nothing else.   *)
LEMMA FailedStep ==
    ASSUME KernelStep, fault' # NoFault
    PROVE  UNCHANGED systemVars
<1>1. fault = NoFault
  BY DEF KernelStep, UpdateMutexesStep, AcquireStep, AddWaitingStep, RemoveWaitingStep,
         WakeupAllStep, CallbackStep, ResumeStep, StopStep, ReleaseMutexesStep,
         TerminateThreadsStep, ResumeArbitratedStep, BoostStarvedStep, PopNextStep,
         RequeueStep, SwitchContextStep, Runs
<1>2. ~ UNCHANGED fault
  BY <1>1
<1>3. CASE AcquireStep
  BY <1>2, <1>3 DEF AcquireStep, Fail
<1>4. CASE WakeupAllStep
  BY <1>2, <1>4 DEF WakeupAllStep, Fail
<1>5. CASE CallbackStep
  BY <1>2, <1>5 DEF CallbackStep, Fail
<1>6. CASE ResumeStep
  BY <1>2, <1>6 DEF ResumeStep, Fail
<1>7. CASE ResumeArbitratedStep
  BY <1>2, <1>7 DEF ResumeArbitratedStep, Fail
<1>8. CASE BoostStarvedStep
  BY <1>2, <1>8 DEF BoostStarvedStep, Fail
<1>9. CASE PopNextStep
  BY <1>2, <1>9 DEF PopNextStep, Fail
<1>10. CASE SwitchContextStep
  <2>1. /\ UNCHANGED <<current_thread, status, ready_queue, current_priority,
                       wakeup_events, outcome, acquired, work>>
        /\ UNCHANGED <<mutex_priority, ownVars, waitVars, countVars, timer_events, periodic,
                       unscheduled_ready_queue, cpuVars, lifeVars, arbVars, setupVars,
                       wakeup_callback>>
    BY <1>2, <1>10 DEF SwitchContextStep
  <2> QED
    BY <2>1 DEF systemVars, prioVars, ownVars, waitVars, countVars, timeVars, runVars,
                cpuVars, lifeVars, arbVars, setupVars, replyVars
<1>11. ~ (UpdateMutexesStep \/ AddWaitingStep \/ RemoveWaitingStep \/ StopStep
          \/ ReleaseMutexesStep \/ TerminateThreadsStep \/ RequeueStep)
  BY <1>2 DEF UpdateMutexesStep, AddWaitingStep, RemoveWaitingStep, StopStep,
              ReleaseMutexesStep, TerminateThreadsStep, RequeueStep
<1> QED
  BY <1>3, <1>4, <1>5, <1>6, <1>7, <1>8, <1>9, <1>10, <1>11 DEF KernelStep

LEMMA NestedNext ==
    ASSUME TypeOK, Nested(work), [Next]_vars
    PROVE  Nested(work')
<1>1. CASE KernelStep
  <2>1. CASE fault' = NoFault
    BY <1>1, <2>1, UpdateMutexesStack, AcquireStack, AddWaitingStack, RemoveWaitingStack,
       WakeupAllStack, CallbackStack, ResumeStack, StopStack, ReleaseMutexesStack,
       TerminateThreadsStack, ResumeArbitratedStack, BoostStarvedStack, PopNextStack,
       RequeueStack, SwitchContextStack DEF KernelStep
  <2>2. CASE fault' # NoFault
    BY <1>1, <2>2, FailedStep DEF systemVars
  <2> QED
    BY <2>1, <2>2
<1>2. ASSUME NEW p \in Processes, SetupMainThread(p)
      PROVE  Nested(work')
  BY <1>2, NoCallStack DEF SetupMainThread, MakeThread, MakeSleeper, Quiet
<1>3. CASE UNCHANGED vars
  BY <1>3 DEF vars, systemVars
<1> QED
  BY <1>1, <1>2, <1>3, WaitSvcStack, SignalSvcStack, ThreadSvcStack, RescheduleStack,
     TimerCallbackStack, ThreadWakeupCallbackStack DEF Next

(***************************************************************************)
(* THIRD PART: cores and the threads they run.                             *)
(***************************************************************************)

USE DEF prioVars, ownVars, waitVars, countVars, timeVars, runVars, cpuVars, lifeVars, arbVars,
        setupVars, replyVars

(***************************************************************************)
(* Steps that do not schedule.                                             *)
(***************************************************************************)
(* The four loops of Reschedule are on the stack only while one of them    *)
(* runs.                                                                   *)
SchedulingOps == {"BoostStarved", "PopNext", "Requeue", "SwitchContext"}

LEMMA SchedulingInnermost ==
    ASSUME TypeOK, Nested(work), NEW f \in Stacked, f.op \in SchedulingOps
    PROVE  /\ work # <<>>
           /\ top.op \in SchedulingOps
           /\ f.op \in {"BoostStarved", "Requeue", "SwitchContext"} => f = top
           /\ f.op \in {"Requeue", "SwitchContext"} => Under = {}
<1>1. work # <<>>
  BY QuietStack
<1>2. /\ top \in Frames
      /\ f = top \/ (f \in Under /\ f.op \in Beneath(top.op))
      /\ Beneath(top.op) = {} => Under = {}
  BY <1>1, Innermost
<1>3. f # top => f.op = "PopNext" /\ top.op = "BoostStarved"
  BY <1>2, BeneathEach DEF Frames, Ending, SchedulingOps
<1> QED
  BY <1>1, <1>2, <1>3, BeneathEach DEF SchedulingOps

(* Code that is not part of Reschedule leaves none of it on the stack.     *)
LEMMA OtherKernelStack ==
    ASSUME TypeOK, Nested(work), KernelStep, fault' = NoFault, top.op \notin SchedulingOps
    PROVE  /\ work # <<>>
           /\ \A f \in Stacked : f.op \notin SchedulingOps
           /\ \A f \in Stacked' : f.op \notin SchedulingOps
           /\ ~ (BoostStarvedStep \/ PopNextStep \/ RequeueStep \/ SwitchContextStep)
<1>1. work # <<>>
  BY DEF KernelStep, UpdateMutexesStep, AcquireStep, AddWaitingStep, RemoveWaitingStep,
         WakeupAllStep, CallbackStep, ResumeStep, StopStep, ReleaseMutexesStep,
         TerminateThreadsStep, ResumeArbitratedStep, BoostStarvedStep, PopNextStep,
         RequeueStep, SwitchContextStep, Runs
<1>2. ~ (BoostStarvedStep \/ PopNextStep \/ RequeueStep \/ SwitchContextStep)
  BY DEF BoostStarvedStep, PopNextStep, RequeueStep, SwitchContextStep, Runs, top, SchedulingOps
<1>3. \A f \in Stacked : f.op \notin SchedulingOps
  BY SchedulingInnermost
<1>4. Stacked = {top} \cup Under
  BY <1>1, Innermost
<1> SUFFICES \A f \in Stacked' : f.op \notin SchedulingOps
  BY <1>1, <1>2, <1>3
<1>5. CASE UpdateMutexesStep
  BY <1>5, UpdateMutexesStack DEF UpdateMutexes, SchedulingOps
<1>6. CASE AcquireStep
  BY <1>3, <1>4, <1>6, AcquireStack
<1>7. CASE AddWaitingStep
  BY <1>7, AddWaitingStack DEF AddWaiting, SchedulingOps
<1>8. CASE RemoveWaitingStep
  BY <1>3, <1>4, <1>8, RemoveWaitingStack
<1>9. CASE WakeupAllStep
  BY <1>3, <1>4, <1>9, WakeupAllStack DEF Acquire, Callback, RemoveWaiting, Resume, SchedulingOps
<1>10. CASE CallbackStep
  BY <1>3, <1>4, <1>10, CallbackStack
<1>11. CASE ResumeStep
  BY <1>3, <1>4, <1>11, ResumeStack
<1>12. CASE StopStep
  BY <1>3, <1>4, <1>12, StopStack DEF WakeupAll, RemoveWaiting, ReleaseMutexes, SchedulingOps
<1>13. CASE ReleaseMutexesStep
  BY <1>3, <1>4, <1>13, ReleaseMutexesStack DEF WakeupAll, ReleaseMutexes, SchedulingOps
<1>14. CASE TerminateThreadsStep
  BY <1>3, <1>4, <1>14, TerminateThreadsStack DEF Stop, SchedulingOps
<1>15. CASE ResumeArbitratedStep
  BY <1>3, <1>4, <1>15, ResumeArbitratedStack DEF Resume, SchedulingOps
<1> QED
  BY <1>2, <1>5, <1>6, <1>7, <1>8, <1>9, <1>10, <1>11, <1>12, <1>13, <1>14, <1>15
     DEF KernelStep

(* Neither does an entry point other than Reschedule.                      *)
Entry ==
    \/ \E p \in Processes : SetupMainThread(p)
    \/ \E c \in Cores, t \in Threads : WaitSvc(c, t) \/ SignalSvc(c, t) \/ ThreadSvc(c, t)
    \/ \E c \in Cores, e \in Timers : TimerCallback(c, e)
    \/ \E t \in Threads : ThreadWakeupCallback(t)

(* Every step: code outside Reschedule, code of Reschedule, an entry       *)
(* point, or nothing but a failed assertion.                               *)
OtherStep == KernelStep /\ fault' = NoFault /\ top.op \notin SchedulingOps

LEMMA NextCases ==
    ASSUME [Next]_vars
    PROVE  \/ OtherStep
           \/ /\ BoostStarvedStep \/ PopNextStep \/ RequeueStep \/ SwitchContextStep
              /\ fault' = NoFault
           \/ Entry
           \/ \E c \in Cores : Reschedule(c)
           \/ UNCHANGED systemVars
<1>1. CASE KernelStep /\ fault' # NoFault
  BY <1>1, FailedStep
<1>2. CASE KernelStep /\ fault' = NoFault
  <2>1. CASE top.op \notin SchedulingOps
    BY <1>2, <2>1 DEF OtherStep
  <2>2. CASE top.op \in SchedulingOps
    BY <1>2, <2>2 DEF KernelStep, UpdateMutexesStep, AcquireStep, AddWaitingStep,
       RemoveWaitingStep, WakeupAllStep, CallbackStep, ResumeStep, StopStep,
       ReleaseMutexesStep, TerminateThreadsStep, ResumeArbitratedStep, Runs, top, SchedulingOps
  <2> QED
    BY <2>1, <2>2
<1>3. CASE UNCHANGED vars
  BY <1>3 DEF vars
<1> QED
  BY <1>1, <1>2, <1>3 DEF Next, Entry

(* Every SVC is called by the thread that the core runs.                   *)
LEMMA SvcCalled ==
    ASSUME NEW c, NEW t, WaitSvc(c, t) \/ SignalSvc(c, t) \/ ThreadSvc(c, t)
    PROVE  Svc(c, t)
<1>1. CASE WaitSvc(c, t)
  BY <1>1 DEF WaitSvc, WaitSynchronizationAny, WaitSynchronizationAll, SleepThread, ArbitrateWait
<1>2. CASE SignalSvc(c, t)
  BY <1>2 DEF SignalSvc, ReleaseMutex, ReleaseSemaphore, SignalEvent, ClearSignal, SetTimer,
              CancelTimer, ArbitrateSignal
<1>3. CASE ThreadSvc(c, t)
  BY <1>3 DEF ThreadSvc, CreateThread, ExitThread, SetThreadPriority, TerminateProcess,
              ScheduleThreads
<1> QED
  BY <1>1, <1>2, <1>3

LEMMA EntryStack ==
    ASSUME TypeOK, Entry
    PROVE  /\ Quiet
           /\ Stacked = {}
           /\ \A f \in Stacked' : f.op \notin SchedulingOps
<1>1. Quiet
  BY SvcCalled DEF Entry, SetupMainThread, TimerCallback, ThreadWakeupCallback, Svc
<1>2. Stacked = {} /\ work = <<>>
  BY <1>1, QuietStack DEF Quiet
<1>3. ASSUME NEW c \in Cores, NEW t \in Threads, WaitSvc(c, t)
      PROVE  \A f \in Stacked' : f.op \notin SchedulingOps
  <2>1. ASSUME NEW os \in WaitLists, NEW timeout \in Timeouts,
               \/ WaitSynchronizationAny(c, t, os, timeout)
               \/ WaitSynchronizationAll(c, t, os, timeout)
        PROVE  \A f \in Stacked' : f.op \notin SchedulingOps
    <3>1. CASE \E ps \in Seq(Objects) : Grants(t, ps) /\ Range(ps) \subseteq Range(os)
      BY <3>1, GrantsStack DEF Acquire, SchedulingOps
    <3>2. CASE \E s \in WaitingOnObjects : Sleeps(c, t, os, s, timeout)
      <4>1. os \in Seq(Objects)
        BY <2>1, WaitCases
      <4>2. Stacked' = {AddWaiting(t, os)}
        BY <3>2, <4>1, SleepsStack
      <4> QED
        BY <4>2 DEF AddWaiting, SchedulingOps
    <3> QED
      BY <2>1, <3>1, <3>2, WaitCases
  <2>2. CASE UNCHANGED work
    BY <1>2, <2>2, NoCallStack
  <2> QED
    BY <1>3, <2>1, <2>2 DEF WaitSvc, SleepThread, ArbitrateWait
<1>4. ASSUME NEW c \in Cores, NEW t \in Threads, SignalSvc(c, t)
      PROVE  \A f \in Stacked' : f.op \notin SchedulingOps
  BY <1>4, SignalSvcStack DEF SchedulingOps
<1>5. ASSUME NEW c \in Cores, NEW t \in Threads, ThreadSvc(c, t)
      PROVE  \A f \in Stacked' : f.op \notin SchedulingOps
  <2>1. CASE ExitThread(c, t)
    BY <2>1, FrameType, OneCallStack DEF ExitThread, Stop, SchedulingOps
  <2>2. ASSUME NEW x \in Threads, NEW p, SetThreadPriority(c, t, x, p)
        PROVE  \A f \in Stacked' : f.op \notin SchedulingOps
    <3>1. work' = <<UpdateMutexes(pending_mutexes[x])>> /\ pending_mutexes[x] \in SUBSET Mutexes
      BY <2>2 DEF SetThreadPriority, TypeOK
    <3> QED
      BY <3>1, FrameType, OneCallStack DEF UpdateMutexes, SchedulingOps
  <2>3. ASSUME NEW p \in Terminable, TerminateProcess(c, t, p)
        PROVE  \A f \in Stacked' : f.op \notin SchedulingOps
    BY <2>3, TerminateProcessStack DEF TerminateThreads, SchedulingOps
  <2>4. CASE UNCHANGED work
    BY <1>2, <2>4, NoCallStack
  <2> QED
    BY <1>5, <2>1, <2>2, <2>3, <2>4 DEF ThreadSvc, CreateThread, MakeThread, ScheduleThreads
<1>6. ASSUME NEW t \in Threads, ThreadWakeupCallback(t)
      PROVE  \A f \in Stacked' : f.op \notin SchedulingOps
  BY <1>6, ThreadWakeupCallbackStack DEF Callback, RemoveWaiting, Resume, SchedulingOps
<1>7. ASSUME NEW c, NEW e \in Timers, TimerCallback(c, e)
      PROVE  \A f \in Stacked' : f.op \notin SchedulingOps
  BY <1>7, TimerCallbackStack DEF WakeupAll, SchedulingOps
<1>8. ASSUME NEW p \in Processes, SetupMainThread(p)
      PROVE  \A f \in Stacked' : f.op \notin SchedulingOps
  BY <1>2, <1>8, NoCallStack DEF SetupMainThread, MakeThread, MakeSleeper
<1> QED
  BY <1>1, <1>2, <1>3, <1>4, <1>5, <1>6, <1>7, <1>8 DEF Entry

(***************************************************************************)
(* What becomes of the threads.                                            *)
(***************************************************************************)
(* A thread gets another priority: one that holds a mutex, or acquires one.*)
Boosts(t, p) ==
    /\ BoostPriority(t, p)
    /\ (\E m \in Mutexes : holding_thread[m] = t)
       \/ (\E f \in Stacked : f.op = "Acquire" /\ f.thread = t)
    /\ UNCHANGED <<status, nominal_priority>>

(* A sleeping thread becomes ready.                                        *)
Resumes(t) ==
    /\ Resume(t) \in Stacked
    /\ status[t] \in WaitingStatus \cup {"Dormant"}
    /\ status' = [status EXCEPT ![t] = "Ready"]
    /\ ready_queue' = [ready_queue EXCEPT ![CoreOf[t]] = push_back(@, current_priority[t], t)]
    /\ UNCHANGED <<nominal_priority, current_priority>>

(* A thread ends.                                                          *)
Stops(t) ==
    /\ Stop(t) \in Stacked
    /\ status' = [status EXCEPT ![t] = "Dead"]
    /\ ready_queue' = [ready_queue EXCEPT ![CoreOf[t]] =
          IF status[t] = "Ready" THEN remove(@, current_priority[t], t) ELSE @]
    /\ UNCHANGED <<nominal_priority, current_priority>>

(* The thread that calls an SVC goes to sleep.                             *)
FallsAsleep(c, t, s) ==
    /\ Svc(c, t)
    /\ PrepareReschedule(c)
    /\ status' = [status EXCEPT ![t] = s]
    /\ UNCHANGED <<nominal_priority, prioVars>>

(* The holder of the mutex is given another priority, or nothing happens.  *)
LEMMA UpdateMutexPriorityCases ==
    ASSUME TypeOK, NEW m \in Mutexes, NEW ws \in Seq(Threads), UpdateMutexPriority(m, ws)
    PROVE  \/ UNCHANGED <<mutex_priority, prioVars>>
           \/ \E p \in Priorities : /\ holding_thread[m] \in Threads
                                    /\ BoostPriority(holding_thread[m], p)
<1> DEFINE t == holding_thread[m]
<1>1. CASE UNCHANGED <<mutex_priority, prioVars>>
  BY <1>1
<1>2. CASE ~ UNCHANGED <<mutex_priority, prioVars>>
  <2>1. /\ t # NoThread
        /\ BoostPriority(t, BestPriority(t, held_mutexes[t], mutex_priority'))
    BY <1>2 DEF UpdateMutexPriority
  <2>2. t \in Threads /\ held_mutexes[t] \in SUBSET Mutexes
    BY <2>1 DEF TypeOK
  <2>3. mutex_priority' \in [Mutexes -> Priorities]
    BY UpdateMutexPriorityType
  <2>4. BestPriority(t, held_mutexes[t], mutex_priority') \in Priorities
    BY <2>2, <2>3, BestPriorityType DEF TypeOK
  <2> QED
    BY <2>1, <2>2, <2>4
<1> QED
  BY <1>1, <1>2

(* What code outside Reschedule does to statuses, priorities and queues.   *)
LEMMA OtherStepThreads ==
    ASSUME TypeOK, Nested(work), OtherStep
    PROVE  \/ UNCHANGED <<status, nominal_priority, prioVars>>
           \/ \E t \in Threads, p \in Priorities : Boosts(t, p)
           \/ \E t \in Threads : Resumes(t)
           \/ \E t \in Threads : Stops(t) /\ CancelWakeup(t)
<1> DEFINE Goal == \/ UNCHANGED <<status, nominal_priority, prioVars>>
                   \/ \E t \in Threads, p \in Priorities : Boosts(t, p)
                   \/ \E t \in Threads : Resumes(t)
                   \/ \E t \in Threads : Stops(t) /\ CancelWakeup(t)
<1> SUFFICES Goal
  OBVIOUS
<1>1. /\ work # <<>> /\ KernelStep /\ fault' = NoFault
      /\ ~ (BoostStarvedStep \/ PopNextStep \/ RequeueStep \/ SwitchContextStep)
  BY OtherKernelStack DEF OtherStep
<1>2. top \in Frames /\ top \in Stacked /\ \A o \in Objects : waiting_threads[o] \in Seq(Threads)
  BY <1>1, Innermost DEF TypeOK
<1>3. ASSUME NEW m \in Mutexes, NEW ws \in Seq(Threads), UpdateMutexPriority(m, ws),
             UNCHANGED <<status, nominal_priority>>
      PROVE  Goal
  BY <1>3, UpdateMutexPriorityCases DEF Boosts
<1>4. CASE UNCHANGED <<status, nominal_priority, prioVars>>
  BY <1>4
<1>5. CASE UpdateMutexesStep
  <2>1. top.mutexes \in SUBSET Mutexes
    BY <1>2, <1>5, FrameFields DEF UpdateMutexesStep, Runs, top
  <2>2. \A m \in Mutexes : waiting_threads[m] \in Seq(Threads)
    BY <1>2 DEF Objects
  <2> HIDE DEF Goal
  <2> QED
    BY <1>3, <1>4, <1>5, <2>1, <2>2 DEF UpdateMutexesStep
<1>6. CASE AcquireStep
  <2> DEFINE o == top.object
             t == top.thread
  <2>1. o \in Objects /\ t \in Threads /\ top.op = "Acquire"
    BY <1>2, <1>6, FrameFields DEF AcquireStep, Runs, top
  <2>2. /\ (o \in Mutexes /\ AcquireMutex(o, t)) \/ UNCHANGED prioVars
        /\ UNCHANGED <<status, nominal_priority>>
    BY <1>1, <1>6 DEF AcquireStep, Fail, NoFault
  <2>3. CASE o \in Mutexes /\ AcquireMutex(o, t) /\ ~ UNCHANGED prioVars
    <3>1. /\ BoostPriority(t, BestPriority(t, held_mutexes'[t], mutex_priority'))
          /\ mutex_priority' = [mutex_priority EXCEPT ![o] = current_priority[t]]
          /\ held_mutexes' = [held_mutexes EXCEPT ![t] = @ \cup {o}]
      BY <2>3 DEF AcquireMutex
    <3>2. mutex_priority' \in [Mutexes -> Priorities] /\ held_mutexes'[t] \in SUBSET Mutexes
      BY <2>1, <2>3, <3>1 DEF TypeOK
    <3>3. BestPriority(t, held_mutexes'[t], mutex_priority') \in Priorities
      BY <2>1, <3>2, BestPriorityType DEF TypeOK
    <3> QED
      BY <1>2, <2>1, <2>2, <3>1, <3>3 DEF Boosts
  <2> QED
    BY <1>4, <2>2, <2>3
<1>7. CASE AddWaitingStep
  <2> DEFINE os == top.objects
             o == Head(os)
             t == top.thread
             ws == IF t \in Range(waiting_threads[o])
                   THEN waiting_threads[o] ELSE Append(waiting_threads[o], t)
  <2>1. os \in Seq(Objects) /\ t \in Threads
    BY <1>2, <1>7, FrameFields DEF AddWaitingStep, Runs, top
  <2>2. /\ \/ UNCHANGED prioVars
           \/ os # <<>> /\ o \in Mutexes /\ UpdateMutexPriority(o, ws)
        /\ UNCHANGED <<status, nominal_priority>>
    BY <1>7 DEF AddWaitingStep
  <2>3. os # <<>> => ws \in Seq(Threads)
    BY <1>2, <2>1, HeadTailProperties, AppendProperties
  <2> HIDE DEF Goal, o, os, ws
  <2> QED
    BY <1>3, <1>4, <2>2, <2>3
<1>8. CASE RemoveWaitingStep
  <2> DEFINE t == top.thread
             o == Head(wait_objects[t])
             ws == Erase(waiting_threads[o], t)
  <2>1. t \in Threads
    BY <1>2, <1>8, FrameFields DEF RemoveWaitingStep, Runs, top
  <2>2. /\ \/ UNCHANGED prioVars
           \/ wait_objects[t] # <<>> /\ o \in Mutexes /\ UpdateMutexPriority(o, ws)
        /\ UNCHANGED <<status, nominal_priority>>
    BY <1>8 DEF RemoveWaitingStep
  <2>3. wait_objects[t] # <<>> => o \in Objects
    BY <2>1, HeadTailProperties DEF TypeOK
  <2>4. wait_objects[t] # <<>> => ws \in Seq(Threads)
    BY <1>2, <2>3, EraseType
  <2> HIDE DEF Goal, o, ws
  <2> QED
    BY <1>3, <1>4, <2>2, <2>4
<1>9. CASE ResumeStep
  <2>1. top.thread \in Threads /\ top = Resume(top.thread)
    BY <1>2, <1>9 DEF ResumeStep, Runs, top, Resume, Frames
  <2>2. CASE status[top.thread] \in {"Ready", "Running", "Dead", "Free"}
    <3>1. UNCHANGED <<status, nominal_priority, current_priority>>
      BY <1>1, <1>9, <2>2 DEF ResumeStep, Fail, NoFault, systemVars
    <3>2. UNCHANGED ready_queue
      BY <1>1, <1>9, <2>2 DEF ResumeStep, Fail, NoFault
    <3> QED
      BY <1>4, <3>1, <3>2
  <2>3. CASE status[top.thread] \notin {"Ready", "Running", "Dead", "Free"}
    <3> DEFINE t == top.thread
    <3>1. /\ status' = [status EXCEPT ![t] = "Ready"]
          /\ ready_queue' = [ready_queue EXCEPT ![CoreOf[t]] = push_back(@, current_priority[t], t)]
          /\ UNCHANGED <<nominal_priority, current_priority>>
      BY <1>1, <1>9, <2>3 DEF ResumeStep, Fail, NoFault
    <3>2. status[t] \in WaitingStatus \cup {"Dormant"}
      BY <2>1, <2>3 DEF TypeOK, Status
    <3> QED
      BY <1>2, <2>1, <3>1, <3>2 DEF Resumes
  <2> QED
    BY <2>2, <2>3
<1>10. CASE StopStep
  <2>1. top.thread \in Threads /\ top = Stop(top.thread)
    BY <1>2, <1>10 DEF StopStep, Runs, top, Stop, Frames
  <2>2. Stops(top.thread) /\ CancelWakeup(top.thread)
    BY <1>2, <1>10, <2>1 DEF StopStep, Stops
  <2> QED
    BY <2>1, <2>2
<1>11. CASE WakeupAllStep \/ CallbackStep \/ ReleaseMutexesStep \/ TerminateThreadsStep
            \/ ResumeArbitratedStep
  BY <1>4, <1>11 DEF WakeupAllStep, CallbackStep, ReleaseMutexesStep, TerminateThreadsStep,
                     ResumeArbitratedStep, Fail, systemVars
<1> QED
  BY <1>1, <1>5, <1>6, <1>7, <1>8, <1>9, <1>10, <1>11 DEF KernelStep

(* What the entry points other than Reschedule do to them.                 *)
LEMMA EntryThreads ==
    ASSUME TypeOK, Entry
    PROVE  \/ UNCHANGED <<status, nominal_priority, prioVars>>
           \/ \E t \in Threads, p \in Priorities : Boosts(t, p)
           \/ \E c \in Cores, t \in Threads, s \in WaitingStatus : FallsAsleep(c, t, s)
           \/ \E t \in Threads : MakeThread(t) \/ MakeSleeper(t)
           \/ \E c \in Cores, t \in Threads, x \in Threads, p \in SetPriorities :
                 SetThreadPriority(c, t, x, p)
<1>1. ASSUME NEW c \in Cores, NEW t \in Threads, WaitSvc(c, t)
      PROVE  \/ UNCHANGED <<status, nominal_priority, prioVars>>
             \/ \E s \in WaitingStatus : FallsAsleep(c, t, s)
  <2>1. Svc(c, t)
    BY <1>1, SvcCalled
  <2>2. ASSUME NEW os \in WaitLists, NEW timeout \in Timeouts,
               \/ WaitSynchronizationAny(c, t, os, timeout)
               \/ WaitSynchronizationAll(c, t, os, timeout)
        PROVE  \/ UNCHANGED <<status, nominal_priority, prioVars>>
               \/ \E s \in WaitingStatus : FallsAsleep(c, t, s)
    <3>1. UNCHANGED <<nominal_priority, prioVars>>
      BY <2>2 DEF WaitSynchronizationAny, WaitSynchronizationAll
    <3>2. CASE \E ps \in Seq(Objects) : Grants(t, ps)
      BY <3>1, <3>2 DEF Grants
    <3>3. ASSUME NEW s \in WaitingOnObjects, Sleeps(c, t, os, s, timeout)
          PROVE  FallsAsleep(c, t, s) /\ s \in WaitingStatus
      BY <2>1, <3>1, <3>3 DEF Sleeps, FallsAsleep, WaitingStatus
    <3> QED
      BY <2>2, <3>2, <3>3, WaitCases
  <2>3. CASE \E timeout \in Timeouts : SleepThread(c, t, timeout)
    BY <2>3, <2>1 DEF SleepThread, FallsAsleep, WaitingStatus
  <2>4. CASE \E a \in Arbiters, addr \in Addresses, timeout \in Timeouts :
                ArbitrateWait(c, t, a, addr, timeout)
    BY <2>4, <2>1 DEF ArbitrateWait, FallsAsleep, WaitingStatus
  <2> QED
    BY <1>1, <2>2, <2>3, <2>4 DEF WaitSvc
<1>2. ASSUME NEW c \in Cores, NEW t \in Threads, SignalSvc(c, t)
      PROVE  \/ UNCHANGED <<status, nominal_priority, prioVars>>
             \/ \E p \in Priorities : Boosts(t, p)
  <2>1. ASSUME NEW m \in Mutexes, ReleaseMutex(c, t, m), ~ UNCHANGED prioVars
        PROVE  \E p \in Priorities : Boosts(t, p)
    <3>1. /\ BoostPriority(t, BestPriority(t, held_mutexes'[t], mutex_priority))
          /\ held_mutexes' = [held_mutexes EXCEPT ![t] = @ \ {m}]
          /\ holding_thread[m] = t
          /\ UNCHANGED <<status, nominal_priority>>
      BY <2>1 DEF ReleaseMutex
    <3>2. held_mutexes'[t] \in SUBSET Mutexes
      BY <3>1 DEF TypeOK
    <3>3. BestPriority(t, held_mutexes'[t], mutex_priority) \in Priorities
      BY <3>2, BestPriorityType DEF TypeOK
    <3> QED
      BY <3>1, <3>3 DEF Boosts
  <2>2. UNCHANGED <<status, nominal_priority>>
    BY <1>2 DEF SignalSvc, ReleaseMutex, ReleaseSemaphore, SignalEvent, ClearSignal, SetTimer,
                CancelTimer, ArbitrateSignal
  <2>3. (\E m \in Mutexes : ReleaseMutex(c, t, m)) \/ UNCHANGED prioVars
    BY <1>2 DEF SignalSvc, ReleaseSemaphore, SignalEvent, ClearSignal, SetTimer, CancelTimer,
                ArbitrateSignal
  <2> QED
    BY <2>1, <2>2, <2>3
<1>3. ASSUME NEW c \in Cores, NEW t \in Threads, ThreadSvc(c, t)
      PROVE  \/ UNCHANGED <<status, nominal_priority, prioVars>>
             \/ \E new \in Threads : MakeThread(new)
             \/ \E x \in Threads, p \in SetPriorities : SetThreadPriority(c, t, x, p)
  BY <1>3 DEF ThreadSvc, CreateThread, ExitThread, TerminateProcess, ScheduleThreads
<1>4. ASSUME NEW p \in Processes, SetupMainThread(p)
      PROVE  \E t \in Threads : MakeThread(t) \/ MakeSleeper(t)
  BY <1>4, SyncAssumption DEF SetupMainThread
<1>5. CASE (\E c \in Cores, e \in Timers : TimerCallback(c, e))
           \/ (\E t \in Threads : ThreadWakeupCallback(t))
  BY <1>5 DEF TimerCallback, ThreadWakeupCallback
<1> QED
  BY <1>1, <1>2, <1>3, <1>4, <1>5 DEF Entry

(***************************************************************************)
(* Cores run, queue and pick only threads of their own.                    *)
(***************************************************************************)
LEMMA OwnOperations ==
    ASSUME NEW c, NEW list \in Lists(Priorities, Threads), Own(c, list),
           NEW p \in Priorities, NEW q \in Priorities, NEW t \in Threads
    PROVE  /\ Own(c, prepare(list, p))
           /\ Own(c, remove(list, p, t))
           /\ CoreOf[t] = c => /\ Own(c, push_back(list, p, t))
                               /\ Own(c, push_front(list, p, t))
                               /\ Own(c, move(list, t, p, q))
<1>1. Own(c, prepare(list, p))
  BY DEF Own, prepare
<1>2. Own(c, remove(list, p, t))
  BY RemoveContents DEF Own
<1>3. CoreOf[t] = c => Own(c, push_back(list, p, t))
  BY PushBackContents DEF Own
<1>4. CoreOf[t] = c => Own(c, push_front(list, p, t))
  BY PushFrontContents DEF Own
<1>5. CoreOf[t] = c => Own(c, move(list, t, p, q))
  BY MoveContents DEF Own
<1> QED
  BY <1>1, <1>2, <1>3, <1>4, <1>5

LEMMA OwnPop ==
    ASSUME NEW c, NEW list \in Lists(Priorities, Threads), Own(c, list),
           NEW levels, levels \subseteq Occupied(list)
    PROVE  /\ Own(c, pop(list, levels))
           /\ levels # {} => CoreOf[front(list, levels)] = c
<1>1. CASE levels = {}
  BY <1>1 DEF pop
<1>2. CASE levels # {}
  <2>1. Priorities \subseteq Nat
    BY CoreAssumption DEF Priorities
  <2> DEFINE p == Min(levels)
  <2>2. /\ p \in Priorities
        /\ front(list, levels) \in Range(list.level[p])
    BY <1>2, <2>1, PopContents
  <2>3. Range(pop(list, levels).level[p]) \subseteq Range(list.level[p])
    BY <1>2, <2>1, PopContents
  <2>4. \A r \in Priorities \ {p} : pop(list, levels).level[r] = list.level[r]
    BY <1>2, <2>2 DEF pop, Lists
  <2> HIDE DEF p
  <2> QED
    BY <2>2, <2>3, <2>4 DEF Own
<1> QED
  BY <1>1, <1>2

(* A step that changes one queue, keeping its threads of the core.         *)
LEMMA QueuesOwnChange ==
    ASSUME TypeOK, QueuesOwn, NEW c \in Cores, NEW list, Own(c, list),
           ready_queue' = [ready_queue EXCEPT ![c] = list]
    PROVE  QueuesOwn'
BY DEF TypeOK, QueuesOwn, Own

LEMMA QueuesOwnBoost ==
    ASSUME TypeOK, QueuesOwn, NEW t \in Threads, NEW p \in Priorities, BoostPriority(t, p)
    PROVE  QueuesOwn'
<1> DEFINE c == CoreOf[t]
           list == IF status[t] = "Ready" THEN move(ready_queue[c], t, current_priority[t], p)
                                          ELSE prepare(ready_queue[c], p)
<1>1. c \in Cores /\ current_priority[t] \in Priorities
      /\ ready_queue[c] \in Lists(Priorities, Threads)
  BY CoreAssumption DEF TypeOK
<1>2. Own(c, ready_queue[c])
  BY <1>1 DEF QueuesOwn
<1>3. Own(c, list)
  BY <1>1, <1>2, OwnOperations
<1>4. ready_queue' = [ready_queue EXCEPT ![c] = list]
  BY DEF BoostPriority, Requeued
<1> HIDE DEF c, list
<1> QED
  BY <1>1, <1>3, <1>4, QueuesOwnChange

LEMMA QueuesOwnOther ==
    ASSUME TypeOK, Nested(work), QueuesOwn, OtherStep \/ Entry
    PROVE  QueuesOwn'
<1>1. \A t \in Threads : /\ CoreOf[t] \in Cores /\ current_priority[t] \in Priorities
                         /\ ready_queue[CoreOf[t]] \in Lists(Priorities, Threads)
                         /\ Own(CoreOf[t], ready_queue[CoreOf[t]])
  BY CoreAssumption DEF TypeOK, QueuesOwn
<1>2. CASE UNCHANGED ready_queue
  BY <1>2 DEF QueuesOwn, Own
<1>3. ASSUME NEW t \in Threads, NEW p \in Priorities, Boosts(t, p)
      PROVE  QueuesOwn'
  BY <1>3, QueuesOwnBoost DEF Boosts
<1>4. ASSUME NEW t \in Threads, Resumes(t)
      PROVE  QueuesOwn'
  <2>1. Own(CoreOf[t], push_back(ready_queue[CoreOf[t]], current_priority[t], t))
    BY <1>1, OwnOperations
  <2>2. ready_queue' = [ready_queue EXCEPT
           ![CoreOf[t]] = push_back(ready_queue[CoreOf[t]], current_priority[t], t)]
    BY <1>4 DEF Resumes
  <2> QED
    BY <1>1, <2>1, <2>2, QueuesOwnChange
<1>5. ASSUME NEW t \in Threads, Stops(t)
      PROVE  QueuesOwn'
  <2> DEFINE list == IF status[t] = "Ready"
                     THEN remove(ready_queue[CoreOf[t]], current_priority[t], t)
                     ELSE ready_queue[CoreOf[t]]
  <2>1. Own(CoreOf[t], list)
    BY <1>1, OwnOperations
  <2>2. ready_queue' = [ready_queue EXCEPT ![CoreOf[t]] = list]
    BY <1>5 DEF Stops
  <2> HIDE DEF list
  <2> QED
    BY <1>1, <2>1, <2>2, QueuesOwnChange
<1>6. ASSUME NEW t \in Threads, MakeThread(t)
      PROVE  QueuesOwn'
  <2> DEFINE prepared == prepare(ready_queue[CoreOf[t]], InitialPriority[t])
             list == push_back(prepared, InitialPriority[t], t)
  <2>1. InitialPriority[t] \in Priorities
    BY SyncAssumption
  <2>2. prepared \in Lists(Priorities, Threads) /\ Own(CoreOf[t], prepared)
    BY <1>1, <2>1, OwnOperations, ListOperationsType
  <2>3. ready_queue' = [ready_queue EXCEPT ![CoreOf[t]] = list]
    BY <1>6 DEF MakeThread
  <2> HIDE DEF prepared
  <2>4. Own(CoreOf[t], list)
    BY <2>1, <2>2, OwnOperations
  <2> HIDE DEF list
  <2> QED
    BY <1>1, <2>3, <2>4, QueuesOwnChange
<1>7. ASSUME NEW c \in Cores, NEW t \in Threads, NEW x \in Threads, NEW p \in SetPriorities,
             SetThreadPriority(c, t, x, p)
      PROVE  QueuesOwn'
  <2> DEFINE q == CoreOf[x]
             best == Min({p} \cup {mutex_priority[m] : m \in held_mutexes[x]})
             once == move(ready_queue[q], x, current_priority[x], p)
             twice == move(once, x, p, best)
             prepared == prepare(ready_queue[q], p)
             list == IF status[x] = "Ready" THEN twice ELSE prepare(prepared, best)
  <2>1. p \in Priorities
    BY SyncAssumption
  <2>2. best \in Priorities
    <3> DEFINE S == {p} \cup {mutex_priority[m] : m \in held_mutexes[x]}
    <3>1. S \subseteq Priorities /\ S # {}
      BY <2>1 DEF TypeOK
    <3> HIDE DEF S
    <3> QED
      BY <3>1, MinPriority DEF S
  <2>3. ready_queue' = [ready_queue EXCEPT ![q] = list]
    BY <1>7 DEF SetThreadPriority
  <2> HIDE DEF best
  <2>4. /\ once \in Lists(Priorities, Threads) /\ Own(q, once)
        /\ prepared \in Lists(Priorities, Threads) /\ Own(q, prepared)
    BY <1>1, <2>1, OwnOperations, ListOperationsType
  <2> HIDE DEF once, prepared
  <2>5. Own(q, twice) /\ Own(q, prepare(prepared, best))
    BY <1>1, <2>1, <2>2, <2>4, OwnOperations
  <2>6. Own(q, list)
    BY <2>5
  <2> HIDE DEF list
  <2> QED
    BY <1>1, <2>3, <2>6, QueuesOwnChange
<1>8. ASSUME NEW c, NEW t, NEW s, FallsAsleep(c, t, s)
      PROVE  QueuesOwn'
  BY <1>2, <1>8 DEF FallsAsleep
<1>9. ASSUME NEW t \in Threads, MakeSleeper(t)
      PROVE  QueuesOwn'
  <2> DEFINE list == prepare(ready_queue[CoreOf[t]], InitialPriority[t])
  <2>1. InitialPriority[t] \in Priorities
    BY SyncAssumption
  <2>2. Own(CoreOf[t], list)
    BY <1>1, <2>1, OwnOperations
  <2>3. ready_queue' = [ready_queue EXCEPT ![CoreOf[t]] = list]
    BY <1>9 DEF MakeSleeper
  <2> HIDE DEF list
  <2> QED
    BY <1>1, <2>2, <2>3, QueuesOwnChange
<1> QED
  BY <1>2, <1>3, <1>4, <1>5, <1>6, <1>7, <1>8, <1>9, OtherStepThreads, EntryThreads

(* The four loops of Reschedule.                                           *)
LEMMA BoostStarvedOwn ==
    ASSUME TypeOK, Nested(work), CurrentOwn, QueuesOwn, PicksOwn, BoostStarvedStep,
           fault' = NoFault
    PROVE  CurrentOwn' /\ QueuesOwn' /\ PicksOwn'
<1>1. /\ work # <<>> /\ top.op = "BoostStarved"
      /\ UNCHANGED <<current_thread, unscheduled_ready_queue>>
  BY DEF BoostStarvedStep, Runs, top, Fail, systemVars
<1>2. top \in Frames /\ unscheduled_ready_queue = <<>>
  BY <1>1, Innermost DEF PicksOwn
<1>3. QueuesOwn'
  <2>1. CASE top.threads = {}
    BY <2>1, BoostStarvedStack DEF QueuesOwn, Own
  <2>2. CASE top.threads # {}
    <3>1. PICK t \in top.threads :
             /\ get_first(ready_queue[top.core]) # NoThread
             /\ BoostPriority(t, Max({current_priority[get_first(ready_queue[top.core])], BoostFloor}))
      BY <2>2, BoostStarvedStack
    <3> DEFINE first == get_first(ready_queue[top.core])
    <3>2. t \in Threads /\ top.core \in Cores
      BY <1>1, <1>2, FrameFields
    <3>3. first \in Threads
      BY <3>1, <3>2, FirstType DEF TypeOK
    <3>4. current_priority[first] \in Priorities
      BY <3>3 DEF TypeOK
    <3>5. Max({current_priority[first], BoostFloor}) \in Priorities
      BY <3>4, CoreAssumption, MaxPair DEF Priorities
    <3> QED
      BY <3>1, <3>2, <3>5, QueuesOwnBoost
  <2> QED
    BY <2>1, <2>2
<1>4. \A f \in Stacked' : f.op \in {"BoostStarved", "PopNext"}
  BY BoostStarvedStack DEF BoostStarved
<1>5. PicksOwn'
  <2>1. unscheduled_ready_queue' = <<>> /\ Range(<<>>) = {}
    BY <1>1, <1>2 DEF Range
  <2> QED
    BY <1>4, <2>1 DEF PicksOwn
<1> QED
  BY <1>1, <1>3, <1>5 DEF CurrentOwn

LEMMA PopNextOwn ==
    ASSUME TypeOK, Nested(work), CurrentOwn, QueuesOwn, PicksOwn, PopNextStep, fault' = NoFault
    PROVE  CurrentOwn' /\ QueuesOwn' /\ PicksOwn'
<1> DEFINE c == top.core
           old == current_thread[c]
           levels == IF IsRunning(old)
                     THEN OccupiedBelow(ready_queue[c], current_priority[old])
                     ELSE Occupied(ready_queue[c])
           next == front(ready_queue[c], levels)
           n == IF next = NoThread /\ IsRunning(old) THEN old ELSE next
<1>1. work # <<>> /\ top.op = "PopNext" /\ UNCHANGED current_thread
  BY DEF PopNextStep, Runs, top, Fail, systemVars
<1>2. top \in Frames /\ top \in Stacked /\ Stacked = {top}
  BY <1>1, Innermost, PopNextStack
<1>3. c \in Cores
  BY <1>1, <1>2, FrameFields
<1>4. /\ ready_queue[c] \in Lists(Priorities, Threads) /\ Own(c, ready_queue[c])
      /\ old \in Threads \cup {NoThread} /\ (old # NoThread => CoreOf[old] = c)
      /\ unscheduled_ready_queue \in Seq(Threads)
      /\ \A t \in Range(unscheduled_ready_queue) : CoreOf[t] = c
  BY <1>1, <1>2, <1>3 DEF TypeOK, QueuesOwn, CurrentOwn, PicksOwn
<1>5. /\ levels \subseteq Occupied(ready_queue[c])
      /\ ready_queue' = [ready_queue EXCEPT ![c] = pop(ready_queue[c], levels)]
      /\ n \in Threads \cup {NoThread}
      /\ \/ /\ next # NoThread
            /\ unscheduled_ready_queue' = Append(unscheduled_ready_queue, next)
            /\ work' = work /\ Stacked' = Stacked
         \/ /\ work' = <<Requeue(c, n)>> /\ Stacked' = {Requeue(c, n)}
            /\ UNCHANGED unscheduled_ready_queue
  BY PopNextStack
<1> HIDE DEF c, old, levels
<1>6. /\ Own(c, pop(ready_queue[c], levels))
      /\ levels = {} => next = NoThread
      /\ levels # {} => next \in Threads /\ CoreOf[next] = c
  <2>1. Priorities \subseteq Nat
    BY CoreAssumption DEF Priorities
  <2>2. /\ ready_queue[c] \in Lists(Priorities, Threads) /\ Own(c, ready_queue[c])
        /\ levels \subseteq Occupied(ready_queue[c])
    BY <1>4, <1>5
  <2>3. /\ Own(c, pop(ready_queue[c], levels))
        /\ levels # {} => CoreOf[next] = c
    BY <2>2, OwnPop
  <2>4. /\ levels # {} => next \in Threads
        /\ levels = {} => next = NoThread
    BY <2>1, <2>2, PopType
  <2> QED
    BY <2>3, <2>4
<1> HIDE DEF next
<1>7. QueuesOwn'
  BY <1>3, <1>5, <1>6, QueuesOwnChange
<1>8. PicksOwn'
  <2>1. CASE /\ next # NoThread
             /\ unscheduled_ready_queue' = Append(unscheduled_ready_queue, next)
             /\ work' = work /\ Stacked' = Stacked
    <3>1. next \in Threads /\ CoreOf[next] = c
      BY <1>6, <2>1
    <3>2. \A t \in Range(unscheduled_ready_queue') : CoreOf[t] = c
      BY <1>4, <2>1, <3>1, RangeAppend
    <3> QED
      BY <1>1, <1>2, <2>1, <3>2 DEF PicksOwn, c, top
  <2>2. CASE /\ work' = <<Requeue(c, n)>> /\ Stacked' = {Requeue(c, n)}
             /\ UNCHANGED unscheduled_ready_queue
    <3>1. n # NoThread => CoreOf[n] = c
      BY <1>4, <1>6
    <3>2. work' # <<>> /\ Head(work') = Requeue(c, n)
      BY <2>2
    <3> HIDE DEF n
    <3> QED
      BY <1>4, <2>2, <3>1, <3>2 DEF PicksOwn, Requeue, top
  <2> QED
    BY <1>5, <2>1, <2>2
<1> QED
  BY <1>1, <1>7, <1>8 DEF CurrentOwn

LEMMA RequeueOwn ==
    ASSUME TypeOK, Nested(work), CurrentOwn, QueuesOwn, PicksOwn, RequeueStep
    PROVE  CurrentOwn' /\ QueuesOwn' /\ PicksOwn'
<1> DEFINE c == top.core
           u == unscheduled_ready_queue
           t == Last(u)
<1>1. work # <<>> /\ top.op = "Requeue" /\ UNCHANGED current_thread
  BY DEF RequeueStep, Runs, top
<1>2. top \in Frames /\ top \in Stacked /\ Stacked = {top}
  BY <1>1, Innermost, RequeueStack
<1>3. /\ c \in Cores /\ ready_queue[c] \in Lists(Priorities, Threads)
      /\ Own(c, ready_queue[c]) /\ u \in Seq(Threads)
      /\ \A x \in Range(u) : CoreOf[x] = c
      /\ top.next # NoThread => CoreOf[top.next] = c
  BY <1>1, <1>2, FrameFields DEF TypeOK, QueuesOwn, PicksOwn
<1>4. CASE u = <<>>
  <2>1. /\ UNCHANGED <<ready_queue, unscheduled_ready_queue>>
        /\ Stacked' = {SwitchContext(c, top.next)}
    BY <1>4, RequeueStack DEF RequeueStep
  <2>2. QueuesOwn'
    BY <2>1 DEF QueuesOwn, Own
  <2>3. PicksOwn'
    BY <1>3, <1>4, <2>1 DEF PicksOwn, SwitchContext
  <2> QED
    BY <1>1, <2>2, <2>3 DEF CurrentOwn
<1>5. CASE u # <<>>
  <2>1. /\ ready_queue' = [ready_queue EXCEPT
              ![c] = push_back(ready_queue[c], current_priority[t], t)]
        /\ unscheduled_ready_queue' = Front(u)
        /\ work' = work /\ Stacked' = Stacked
    BY <1>5, RequeueStack DEF RequeueStep
  <2>2. t \in Threads /\ t \in Range(u)
        /\ Range(Front(u)) \subseteq Range(u)
    BY <1>3, <1>5 DEF Last, Front, Range
  <2>3. Own(c, push_back(ready_queue[c], current_priority[t], t))
    <3>1. current_priority[t] \in Priorities /\ CoreOf[t] = c
      BY <1>3, <2>2 DEF TypeOK
    <3> HIDE DEF t, u, c
    <3> QED
      BY <1>3, <2>2, <3>1, OwnOperations
  <2>4. QueuesOwn'
    <3> HIDE DEF t, u, c
    <3> QED
      BY <1>3, <2>1, <2>3, QueuesOwnChange
  <2>5. PicksOwn'
    BY <1>1, <1>2, <1>3, <2>1, <2>2 DEF PicksOwn, top
  <2> QED
    BY <1>1, <2>4, <2>5 DEF CurrentOwn
<1> QED
  BY <1>4, <1>5

LEMMA SwitchContextOwn ==
    ASSUME TypeOK, Nested(work), CurrentOwn, QueuesOwn, PicksOwn, SwitchContextStep,
           fault' = NoFault
    PROVE  CurrentOwn' /\ QueuesOwn' /\ PicksOwn'
<1> DEFINE c == top.core
           old == current_thread[c]
           new == top.next
           queue == IF IsRunning(old)
                    THEN push_front(ready_queue[c], current_priority[old], old)
                    ELSE ready_queue[c]
<1>1. /\ work # <<>> /\ top.op = "SwitchContext"
      /\ UNCHANGED unscheduled_ready_queue
      /\ Stacked' = {} /\ work' = <<>>
  BY SwitchContextStack DEF SwitchContextStep, Runs, top
<1>2. top \in Frames /\ top \in Stacked
  BY <1>1, Innermost
<1>3. /\ c \in Cores /\ ready_queue[c] \in Lists(Priorities, Threads)
      /\ Own(c, ready_queue[c])
      /\ old \in Threads \cup {NoThread} /\ (old # NoThread => CoreOf[old] = c)
      /\ new \in Threads \cup {NoThread} /\ (new # NoThread => CoreOf[new] = c)
  BY <1>1, <1>2, FrameFields DEF TypeOK, QueuesOwn, PicksOwn, CurrentOwn
<1>4. /\ current_thread' = [current_thread EXCEPT ![c] = new]
      /\ \/ new = NoThread /\ ready_queue' = [ready_queue EXCEPT ![c] = queue]
         \/ /\ new # NoThread
            /\ ready_queue' = [ready_queue EXCEPT ![c] = remove(queue, current_priority[new], new)]
  BY DEF SwitchContextStep, NoFault
<1>5. queue \in Lists(Priorities, Threads) /\ Own(c, queue)
  <2>1. IsRunning(old) => old \in Threads /\ current_priority[old] \in Priorities
    BY <1>3 DEF IsRunning, TypeOK
  <2> HIDE DEF c, old, new
  <2> QED
    BY <1>3, <2>1, OwnOperations, ListOperationsType DEF IsRunning
<1> HIDE DEF queue
<1>6. QueuesOwn'
  <2>1. CASE new = NoThread
    BY <1>3, <1>4, <1>5, <2>1, QueuesOwnChange
  <2>2. CASE new # NoThread
    <3>1. Own(c, remove(queue, current_priority[new], new))
      BY <1>3, <1>5, <2>2, OwnOperations DEF TypeOK
    <3> QED
      BY <1>3, <1>4, <2>2, <3>1, QueuesOwnChange
  <2> QED
    BY <2>1, <2>2
<1>7. CurrentOwn'
  BY <1>3, <1>4 DEF CurrentOwn, TypeOK
<1>8. unscheduled_ready_queue = <<>>
  BY <1>1 DEF PicksOwn
<1>9. PicksOwn'
  BY <1>1, <1>8 DEF PicksOwn
<1> QED
  BY <1>6, <1>7, <1>9

(***************************************************************************)
(* What a core runs is Running, or was terminated by another core.         *)
(***************************************************************************)
(* Outside Reschedule no core changes threads, no core is told to go on,   *)
(* no process comes back.                                                  *)
LEMMA OtherStepCores ==
    ASSUME OtherStep
    PROVE  /\ UNCHANGED <<current_thread, unscheduled_ready_queue, exited>>
           /\ halted \subseteq halted'
<1>1. CASE UpdateMutexesStep \/ AddWaitingStep \/ RemoveWaitingStep \/ StopStep
           \/ ReleaseMutexesStep
  BY <1>1 DEF UpdateMutexesStep, AddWaitingStep, RemoveWaitingStep, StopStep, ReleaseMutexesStep
<1>2. CASE WakeupAllStep \/ CallbackStep \/ ResumeArbitratedStep
  BY <1>2 DEF WakeupAllStep, CallbackStep, ResumeArbitratedStep, Fail, systemVars
<1>3. CASE AcquireStep
  BY <1>3 DEF AcquireStep, AcquireMutex, PrepareReschedule, Fail, systemVars
<1>4. CASE ResumeStep
  BY <1>4 DEF ResumeStep, PrepareReschedule, Fail, systemVars
<1>5. CASE TerminateThreadsStep
  BY <1>5 DEF TerminateThreadsStep, PrepareReschedule
<1>6. ~ (BoostStarvedStep \/ PopNextStep \/ RequeueStep \/ SwitchContextStep)
  BY DEF OtherStep, BoostStarvedStep, PopNextStep, RequeueStep, SwitchContextStep, Runs, top,
         SchedulingOps
<1> QED
  BY <1>1, <1>2, <1>3, <1>4, <1>5, <1>6 DEF OtherStep, KernelStep

LEMMA EntryCores ==
    ASSUME Entry
    PROVE  /\ UNCHANGED <<current_thread, unscheduled_ready_queue>>
           /\ halted \subseteq halted'
           /\ exited \subseteq exited'
<1>1. ASSUME NEW c, NEW t, WaitSvc(c, t)
      PROVE  UNCHANGED <<current_thread, unscheduled_ready_queue, exited>> /\ halted \subseteq halted'
  BY <1>1 DEF WaitSvc, WaitSynchronizationAny, WaitSynchronizationAll, SleepThread, ArbitrateWait,
              Grants, Sleeps, PrepareReschedule
<1>2. ASSUME NEW c, NEW t, SignalSvc(c, t)
      PROVE  UNCHANGED <<current_thread, unscheduled_ready_queue, exited>> /\ halted \subseteq halted'
  BY <1>2 DEF SignalSvc, ReleaseMutex, ReleaseSemaphore, SignalEvent, ClearSignal, SetTimer,
              CancelTimer, ArbitrateSignal, PrepareReschedule
<1>3. ASSUME NEW c, NEW t, ThreadSvc(c, t)
      PROVE  /\ UNCHANGED <<current_thread, unscheduled_ready_queue>>
             /\ halted \subseteq halted'
             /\ exited \subseteq exited'
  BY <1>3 DEF ThreadSvc, CreateThread, MakeThread, ExitThread, SetThreadPriority,
              TerminateProcess, ScheduleThreads, PrepareReschedule
<1>4. ASSUME NEW p, SetupMainThread(p)
      PROVE  UNCHANGED <<current_thread, unscheduled_ready_queue, exited, halted>>
  BY <1>4 DEF SetupMainThread, MakeThread, MakeSleeper
<1>5. CASE (\E c \in Cores, e \in Timers : TimerCallback(c, e))
           \/ (\E t \in Threads : ThreadWakeupCallback(t))
  BY <1>5 DEF TimerCallback, ThreadWakeupCallback
<1> QED
  BY <1>1, <1>2, <1>3, <1>4, <1>5 DEF Entry

(* The thread that calls an SVC is Running.                                *)
LEMMA CallerRuns ==
    ASSUME TypeOK, CurrentOwn, RunningOrExited, ExitInv, NEW c \in Cores, NEW t \in Threads,
           Svc(c, t)
    PROVE  status[t] = "Running" /\ CoreOf[t] = c /\ t = current_thread[c] /\ c \notin halted
           /\ OwnerOf[t] \notin exited
<1>1. t = current_thread[c] /\ t # NoThread /\ c \notin halted /\ work = <<>>
  BY DEF Svc, Quiet
<1>2. ~Rescheduling(c) /\ Stacked = {}
  BY <1>1, QuietStack DEF Rescheduling
<1>3. OwnerOf[t] \notin exited
  BY <1>1, <1>2 DEF ExitInv, CallersLive
<1> QED
  BY <1>1, <1>2, <1>3 DEF RunningOrExited, CurrentOwn

(* No code is under Thread::Stop but the loop that calls it.               *)
LEMMA StopInnermost ==
    ASSUME TypeOK, Nested(work), NEW f \in Stacked, f.op = "Stop"
    PROVE  work # <<>> /\ f = top
<1>1. work # <<>>
  BY QuietStack
<1>2. top \in Frames /\ (f = top \/ (f \in Under /\ f.op \in Beneath(top.op)))
  BY <1>1, Innermost
<1>3. f.op \notin Beneath(top.op)
  BY <1>2, BeneathEach DEF Frames, Ending
<1> QED
  BY <1>1, <1>2, <1>3

(* Only the loop of TerminateProcessThreads calls Stop, of all the loops.  *)
LEMMA StopFrames ==
    ASSUME TypeOK, Nested(work), OtherStep, NEW f \in Stacked'
    PROVE  /\ f.op = "Stop" => TerminateThreadsStep
           /\ f.op = "TerminateThreads" => f \in Stacked
<1>1. work # <<>> /\ KernelStep /\ fault' = NoFault
      /\ ~ (BoostStarvedStep \/ PopNextStep \/ RequeueStep \/ SwitchContextStep)
  BY OtherKernelStack DEF OtherStep
<1>2. Stacked = {top} \cup Under
  BY <1>1, Innermost
<1>3. \A g \in Stacked : g.op = "Stop" => g = top
  BY StopInnermost
<1>4. \A g \in Under : g.op # "Stop"
  BY <1>1, Innermost, BeneathEach DEF Frames, Ending
<1>5. CASE UpdateMutexesStep
  BY <1>5, UpdateMutexesStack DEF UpdateMutexes
<1>6. CASE AcquireStep
  BY <1>1, <1>2, <1>4, <1>6, AcquireStack
<1>7. CASE AddWaitingStep
  BY <1>7, AddWaitingStack DEF AddWaiting
<1>8. CASE RemoveWaitingStep
  <2>1. top.op # "Stop"
    BY <1>8 DEF RemoveWaitingStep, Runs, top
  <2> QED
    BY <1>2, <1>3, <1>8, <2>1, RemoveWaitingStack
<1>9. CASE WakeupAllStep
  <2>1. top.op # "Stop"
    BY <1>9 DEF WakeupAllStep, Runs, top
  <2>2. HighestPriorityReady(top.object) = NoThread \/ HighestPriorityReady(top.object) # NoThread
    OBVIOUS
  <2> QED
    BY <1>1, <1>2, <1>3, <1>9, <2>1, <2>2, WakeupAllStack DEF Acquire, Callback, RemoveWaiting, Resume
<1>10. CASE CallbackStep
  BY <1>1, <1>2, <1>4, <1>10, CallbackStack
<1>11. CASE ResumeStep
  BY <1>1, <1>2, <1>4, <1>11, ResumeStack
<1>12. CASE StopStep
  BY <1>2, <1>12, StopStack DEF WakeupAll, RemoveWaiting, ReleaseMutexes
<1>13. CASE ReleaseMutexesStep
  BY <1>2, <1>4, <1>13, ReleaseMutexesStack DEF WakeupAll, ReleaseMutexes
<1>14. CASE TerminateThreadsStep
  BY <1>2, <1>14, TerminateThreadsStack DEF Stop
<1>15. CASE ResumeArbitratedStep
  BY <1>1, <1>15, ResumeArbitratedStack DEF Resume
<1> QED
  BY <1>1, <1>5, <1>6, <1>7, <1>8, <1>9, <1>10, <1>11, <1>12, <1>13, <1>14, <1>15 DEF KernelStep

(* Who a core switches to was ready, or runs and gives way to itself.      *)
LEMMA SwitchContextThreads ==
    ASSUME TypeOK, Nested(work), SwitchContextStep, fault' = NoFault
    PROVE  LET old == current_thread[top.core]
               new == top.next
           IN  /\ top.core \in Cores /\ new \in Threads \cup {NoThread}
               /\ \A t \in Threads : t # new =>
                     status'[t] = IF t = old /\ IsRunning(old) THEN "Ready" ELSE status[t]
               /\ new # NoThread =>
                     /\ status'[new] = "Running"
                     /\ status[new] = "Ready" \/ (new = old /\ IsRunning(old))
                     /\ CancelWakeup(new)
               /\ new = NoThread => UNCHANGED wakeup_events
<1> DEFINE old == current_thread[top.core]
           new == top.next
           saved == IF IsRunning(old) THEN [status EXCEPT ![old] = "Ready"] ELSE status
<1>1. top.core \in Cores /\ new \in Threads \cup {NoThread}
  BY Innermost, FrameFields DEF SwitchContextStep, Runs, top
<1>2. status \in [Threads -> Status]
  BY DEF TypeOK
<1>3. old # NoThread => old \in Threads
  BY <1>1 DEF TypeOK
<1>4. saved \in [Threads -> Status]
  BY <1>2, <1>3 DEF IsRunning, Status
<1>5. \A t \in Threads : saved[t] = IF t = old /\ IsRunning(old) THEN "Ready" ELSE status[t]
  BY <1>2, <1>3 DEF IsRunning
<1>6. CASE new = NoThread
  <2>1. status' = saved /\ UNCHANGED wakeup_events
    BY <1>6 DEF SwitchContextStep
  <2> QED
    BY <1>1, <1>5, <1>6, <2>1, CoreAssumption
<1>7. CASE new # NoThread
  <2>1. saved[new] = "Ready" /\ status' = [saved EXCEPT ![new] = "Running"] /\ CancelWakeup(new)
    BY <1>7 DEF SwitchContextStep, NoFault
  <2>2. new \in Threads
    BY <1>1, <1>7
  <2> HIDE DEF saved
  <2>3. status'[new] = "Running" /\ \A t \in Threads : t # new => status'[t] = saved[t]
    BY <1>4, <2>1, <2>2
  <2> QED
    BY <1>1, <1>5, <1>7, <2>1, <2>2, <2>3
<1> QED
  BY <1>6, <1>7

(* The loops of a Reschedule follow each other up to SwitchContext.        *)
LEMMA ReschedulingStays ==
    ASSUME TypeOK, Nested(work), fault' = NoFault,
           BoostStarvedStep \/ PopNextStep \/ RequeueStep
    PROVE  \A c : Rescheduling(c) => Rescheduling(c)'
<1>1. work # <<>>
  BY DEF BoostStarvedStep, PopNextStep, RequeueStep, Runs
<1>2. top \in Frames /\ Stacked = {top} \cup Under
  BY <1>1, Innermost
<1>3. CASE BoostStarvedStep
  <2>1. top.op = "BoostStarved"
    BY <1>3 DEF BoostStarvedStep, Runs, top
  <2> QED
    BY <1>2, <1>3, <2>1, BoostStarvedStack DEF Rescheduling
<1>4. CASE PopNextStep
  <2>1. Stacked = {top}
    BY <1>2, <1>4, PopNextStack
  <2>2. \/ Stacked' = Stacked
        \/ \E f \in Stacked' : f.op = "Requeue" /\ f.core = top.core
    BY <1>4, PopNextStack DEF Requeue
  <2> QED
    BY <2>1, <2>2 DEF Rescheduling
<1>5. CASE RequeueStep
  BY <1>2, <1>5, RequeueStack DEF Rescheduling, SwitchContext
<1> QED
  BY <1>3, <1>4, <1>5

(***************************************************************************)
(* Threads of processes that have exited.                                  *)
(***************************************************************************)
(* Code outside Reschedule takes no frame off the stack but the innermost. *)
LEMMA OtherStepUnder ==
    ASSUME TypeOK, Nested(work), OtherStep
    PROVE  Under \subseteq Stacked'
<1>1. work # <<>> /\ KernelStep /\ fault' = NoFault
      /\ ~ (BoostStarvedStep \/ PopNextStep \/ RequeueStep \/ SwitchContextStep)
  BY OtherKernelStack DEF OtherStep
<1>2. Stacked = {top} \cup Under
  BY <1>1, Innermost
<1>3. CASE UpdateMutexesStep
  BY <1>3, UpdateMutexesStack
<1>4. CASE AcquireStep
  BY <1>1, <1>4, AcquireStack
<1>5. CASE AddWaitingStep
  BY <1>5, AddWaitingStack
<1>6. CASE RemoveWaitingStep
  BY <1>2, <1>6, RemoveWaitingStack
<1>7. CASE WakeupAllStep
  <2>1. Stacked' = Under \/ Stacked \subseteq Stacked'
    BY <1>1, <1>7, WakeupAllStack
  <2> QED
    BY <1>2, <2>1
<1>8. CASE CallbackStep
  BY <1>1, <1>8, CallbackStack
<1>9. CASE ResumeStep
  BY <1>1, <1>9, ResumeStack
<1>10. CASE StopStep
  BY <1>10, StopStack
<1>11. CASE ReleaseMutexesStep
  BY <1>11, ReleaseMutexesStack
<1>12. CASE TerminateThreadsStep
  BY <1>2, <1>12, TerminateThreadsStack
<1>13. CASE ResumeArbitratedStep
  BY <1>1, <1>13, ResumeArbitratedStack
<1> QED
  BY <1>1, <1>3, <1>4, <1>5, <1>6, <1>7, <1>8, <1>9, <1>10, <1>11, <1>12, <1>13 DEF KernelStep

(* A thread that is to be stopped, or found, is until it has been.         *)
LEMMA OtherStepStops ==
    ASSUME TypeOK, Nested(work), OtherStep, NEW f \in Stacked, f \notin Stacked'
    PROVE  /\ f = top
           /\ f.op = "Stop" => StopStep
           /\ f.op = "TerminateThreads" => TerminateThreadsStep
<1>1. f = top
  BY OtherStepUnder, OtherKernelStack, Innermost DEF OtherStep
<1>2. ~ (BoostStarvedStep \/ PopNextStep \/ RequeueStep \/ SwitchContextStep) /\ KernelStep
  BY OtherKernelStack DEF OtherStep
<1> QED
  BY <1>1, <1>2 DEF KernelStep, UpdateMutexesStep, AcquireStep, AddWaitingStep,
     RemoveWaitingStep, WakeupAllStep, CallbackStep, ResumeStep, StopStep, ReleaseMutexesStep,
     TerminateThreadsStep, ResumeArbitratedStep, Runs, top

(* Nobody comes to life, whoever leaves thread_list is dead, and the loops *)
(* run on one core.                                                        *)
LEMMA OtherStepLives ==
    ASSUME TypeOK, Nested(work), OtherStep
    PROVE  /\ \A t \in Threads : Alive(t)' => Alive(t)
           /\ AliveListed => AliveListed'
           /\ UNCHANGED cpu
           /\ StopStep => status'[top.thread] = "Dead"
<1>1. \A t \in Threads : Alive(t)' => Alive(t)
  <2>1. CASE UNCHANGED status
    BY <2>1 DEF Alive
  <2>2. ASSUME NEW x \in Threads, Resumes(x)
        PROVE  \A t \in Threads : Alive(t)' => Alive(t)
    BY <2>2 DEF Resumes, Alive, TypeOK, WaitingStatus, WaitingOnObjects
  <2>3. ASSUME NEW x \in Threads, Stops(x)
        PROVE  \A t \in Threads : Alive(t)' => Alive(t)
    BY <2>3 DEF Stops, Alive, TypeOK
  <2> QED
    BY <2>1, <2>2, <2>3, OtherStepThreads DEF Boosts
<1>2. /\ KernelStep /\ fault' = NoFault
      /\ ~ (BoostStarvedStep \/ PopNextStep \/ RequeueStep \/ SwitchContextStep)
  BY OtherKernelStack DEF OtherStep
<1>3. UNCHANGED cpu
  BY <1>2 DEF KernelStep, UpdateMutexesStep, AcquireStep, AcquireMutex, AddWaitingStep,
     RemoveWaitingStep, WakeupAllStep, CallbackStep, ResumeStep, StopStep, ReleaseMutexesStep,
     TerminateThreadsStep, ResumeArbitratedStep, Fail, NoFault
<1>4. CASE StopStep
  <2>1. /\ status' = [status EXCEPT ![top.thread] = "Dead"]
        /\ thread_list' = thread_list \ {top.thread}
    BY <1>4 DEF StopStep
  <2>2. top.thread \in Threads
    BY <1>4, Innermost, FrameFields DEF StopStep, Runs, top
  <2>3. status'[top.thread] = "Dead"
    BY <2>1, <2>2 DEF TypeOK
  <2>4. AliveListed => AliveListed'
    BY <1>1, <2>1, <2>3 DEF AliveListed, Alive
  <2> QED
    BY <1>1, <1>3, <2>3, <2>4
<1>5. CASE ~StopStep
  <2>1. UNCHANGED thread_list
    BY <1>2, <1>5 DEF KernelStep, UpdateMutexesStep, AcquireStep, AddWaitingStep,
       RemoveWaitingStep, WakeupAllStep, CallbackStep, ResumeStep, ReleaseMutexesStep,
       TerminateThreadsStep, ResumeArbitratedStep, Fail, NoFault
  <2> QED
    BY <1>1, <1>3, <1>5, <2>1 DEF AliveListed
<1> QED
  BY <1>4, <1>5

LEMMA TerminateFields ==
    ASSUME NEW c, NEW p, NEW t
    PROVE  /\ TerminateThreads(c, p).op = "TerminateThreads"
           /\ TerminateThreads(c, p).core = c /\ TerminateThreads(c, p).process = p
           /\ Stop(t).op = "Stop" /\ Stop(t).thread = t
BY DEF TerminateThreads, Stop

LEMMA OtherStepExitInv ==
    ASSUME TypeOK, Nested(work), ExitInv, OtherStep
    PROVE  ExitInv'
<1>1. /\ UNCHANGED <<current_thread, exited, cpu>> /\ halted \subseteq halted'
      /\ \A f \in Stacked : f.op \notin SchedulingOps
      /\ \A t \in Threads : Alive(t)' => Alive(t)
      /\ AliveListed'
  BY OtherStepCores, OtherKernelStack, OtherStepLives DEF OtherStep, ExitInv
<1>2. ASSUME NEW t \in Threads, OwnerOf[t] \in exited'
      PROVE  Ended(t)'
  <2> DEFINE f == TerminateThreads(CoreOf[t], OwnerOf[t])
  <2>1. f.op = "TerminateThreads" /\ f.core = CoreOf[t] /\ f.process = OwnerOf[t]
        /\ Stop(t).op = "Stop" /\ Stop(t).thread = t
    BY TerminateFields
  <2>2. ~Alive(t) \/ f \in Stacked \/ Stop(t) \in Stacked
    BY <1>1, <1>2 DEF ExitInv, Ended
  <2>3. CASE Stop(t) \in Stacked /\ Stop(t) \notin Stacked'
    <3>1. Stop(t) = top /\ StopStep
      BY <2>1, <2>3, OtherStepStops
    <3>2. status'[t] = "Dead"
      BY <2>1, <3>1, OtherStepLives
    <3>3. ~Alive(t)'
      BY <3>2 DEF Alive
    <3> QED
      BY <3>3 DEF Ended
  <2>4. CASE f \in Stacked /\ f \notin Stacked' /\ Alive(t)
    <3>1. f = top /\ TerminateThreadsStep
      BY <2>1, <2>4, OtherStepStops
    <3> DEFINE last == current_thread[CoreOf[t]]
    <3>2. /\ t \in thread_list => t = last
          /\ last # NoThread /\ OwnerOf[last] = OwnerOf[t] => Stop(last) \in Stacked'
      BY <2>1, <2>4, <3>1, TerminateThreadsDone
    <3>3. t \in thread_list /\ t # NoThread
      BY <2>4, CoreAssumption DEF ExitInv, AliveListed
    <3> QED
      BY <3>2, <3>3 DEF Ended
  <2> HIDE DEF f
  <2> QED
    BY <1>1, <2>2, <2>3, <2>4 DEF Ended, f
<1>3. CallersLive'
  <2> SUFFICES ASSUME NEW c \in Cores \ halted', current_thread[c] # NoThread,
                      OwnerOf[current_thread[c]] \in exited
               PROVE  c = cpu /\ TerminateThreads(c, OwnerOf[current_thread[c]]) \in Stacked'
    BY <1>1 DEF CallersLive
  <2> DEFINE f == TerminateThreads(c, OwnerOf[current_thread[c]])
  <2>1. ~Rescheduling(c) /\ c \notin halted
    BY <1>1 DEF Rescheduling, SchedulingOps
  <2>2. c = cpu /\ f \in Stacked
    BY <2>1 DEF ExitInv, CallersLive
  <2>3. ASSUME f \notin Stacked'
        PROVE  FALSE
    <3>1. f.op = "TerminateThreads" /\ f.core = c /\ f.process = OwnerOf[current_thread[c]]
      BY TerminateFields
    <3>2. f = top /\ TerminateThreadsStep
      BY <2>2, <2>3, <3>1, OtherStepStops
    <3>3. PrepareReschedule(cpu)
      BY <2>3, <3>1, <3>2, TerminateThreadsDone
    <3> QED
      BY <2>2, <3>3 DEF PrepareReschedule
  <2> QED
    BY <2>2, <2>3
<1> QED
  BY <1>1, <1>2, <1>3 DEF ExitInv

LEMMA SchedulingExitInv ==
    ASSUME TypeOK, Nested(work), ExitInv, fault' = NoFault,
           BoostStarvedStep \/ PopNextStep \/ RequeueStep \/ SwitchContextStep
    PROVE  ExitInv'
<1>1. /\ work # <<>> /\ top.op \in SchedulingOps
      /\ UNCHANGED <<halted, exited, thread_list, cpu>>
      /\ SwitchContextStep \/ UNCHANGED <<status, current_thread>>
  BY DEF BoostStarvedStep, PopNextStep, RequeueStep, SwitchContextStep, Runs, top, SchedulingOps,
         Fail, systemVars
<1>2. /\ top \in Frames /\ Stacked = {top} \cup Under
      /\ \A f \in Under : f.op = "PopNext"
  BY <1>1, Innermost, BeneathEach DEF SchedulingOps
<1>3. \A c, p, t : TerminateThreads(c, p) \notin Stacked /\ Stop(t) \notin Stacked
  BY <1>1, <1>2, TerminateFields DEF SchedulingOps
<1>4. \A t \in Threads : Alive(t)' <=> Alive(t)
  <2>1. CASE SwitchContextStep
    <3> DEFINE old == current_thread[top.core]
               new == top.next
    <3>1. /\ \A t \in Threads : t # new =>
                status'[t] = IF t = old /\ IsRunning(old) THEN "Ready" ELSE status[t]
          /\ new # NoThread =>
                /\ status'[new] = "Running"
                /\ status[new] = "Ready" \/ (new = old /\ IsRunning(old))
      BY <2>1, SwitchContextThreads
    <3>2. \A t \in Threads : t # NoThread
      BY CoreAssumption
    <3> HIDE DEF old, new
    <3> QED
      BY <3>1, <3>2 DEF Alive, IsRunning
  <2>2. CASE UNCHANGED status
    BY <2>2 DEF Alive
  <2> QED
    BY <1>1, <2>1, <2>2
<1>5. \A t \in Threads : OwnerOf[t] \in exited => ~Alive(t)
  BY <1>3 DEF ExitInv, Ended
<1>6. CallersLive'
  <2>1. CASE SwitchContextStep
    <3> DEFINE c == top.core
               new == top.next
    <3>1. top.op = "SwitchContext" /\ Stacked = {top} /\ c \in Cores
          /\ new \in Threads \cup {NoThread}
          /\ (new # NoThread => status'[new] = "Running")
      BY <1>2, <2>1, SwitchContextStack, SwitchContextThreads DEF SwitchContextStep, Runs, top
    <3>2. current_thread' = [current_thread EXCEPT ![c] = new]
      BY <2>1 DEF SwitchContextStep, NoFault
    <3>3. new # NoThread => OwnerOf[new] \notin exited
      BY <1>4, <1>5, <3>1 DEF Alive
    <3> HIDE DEF new
    <3>4. ASSUME NEW d \in Cores \ halted, d # c, current_thread[d] # NoThread
          PROVE  OwnerOf[current_thread[d]] \notin exited
      <4>1. ~Rescheduling(d)
        BY <3>1, <3>4 DEF Rescheduling
      <4> QED
        BY <1>3, <3>4, <4>1 DEF ExitInv, CallersLive
    <3> HIDE DEF c
    <3>5. current_thread'[c] = new /\ \A d \in Cores : d # c => current_thread'[d] = current_thread[d]
      BY <3>1, <3>2 DEF TypeOK
    <3> QED
      BY <1>1, <3>3, <3>4, <3>5 DEF CallersLive
  <2>2. CASE ~SwitchContextStep
    <3>1. UNCHANGED current_thread
      BY <1>1, <2>2
    <3>2. \A c : Rescheduling(c) => Rescheduling(c)'
      BY <2>2, ReschedulingStays
    <3> QED
      BY <1>1, <1>3, <3>1, <3>2 DEF ExitInv, CallersLive
  <2> QED
    BY <2>1, <2>2
<1> QED
  BY <1>1, <1>4, <1>5, <1>6 DEF ExitInv, AliveListed, Ended

LEMMA OtherStepCoreInv ==
    ASSUME TypeOK, Nested(work), CoreInv, OtherStep
    PROVE  CoreInv'
<1>1. /\ UNCHANGED <<current_thread, unscheduled_ready_queue, exited>> /\ halted \subseteq halted'
      /\ work # <<>>
      /\ \A f \in Stacked : f.op \notin SchedulingOps
      /\ \A f \in Stacked' : f.op \notin SchedulingOps
  BY OtherStepCores, OtherKernelStack DEF OtherStep
<1>2. CurrentOwn' /\ QueuesOwn'
  BY <1>1, QueuesOwnOther DEF CoreInv, CurrentOwn
<1>3. PicksOwn'
  <2>1. unscheduled_ready_queue = <<>>
    BY <1>1 DEF CoreInv, PicksOwn, SchedulingOps, OtherStep
  <2> QED
    BY <1>1, <2>1 DEF PicksOwn, SchedulingOps
<1>4. \A f \in Stacked : f.op = "Stop" =>
         \/ OwnerOf[f.thread] \in exited
         \/ status[f.thread] = "Running" /\ CoreOf[f.thread] \in halted
  BY DEF CoreInv, StopsJustified
<1>5. RunningOrExited'
  <2> SUFFICES ASSUME NEW c \in Cores, c \notin halted', current_thread[c] # NoThread,
                      OwnerOf[current_thread[c]] \notin exited
               PROVE  status'[current_thread[c]] = "Running"
    BY <1>1 DEF RunningOrExited
  <2> DEFINE t == current_thread[c]
  <2>1. ~Rescheduling(c) /\ c \notin halted
    BY <1>1 DEF Rescheduling, SchedulingOps
  <2>2. status[t] = "Running" /\ t \in Threads /\ CoreOf[t] = c
    BY <2>1 DEF CoreInv, RunningOrExited, CurrentOwn, TypeOK
  <2>3. ASSUME NEW x \in Threads, Resumes(x)
        PROVE  status'[t] = "Running"
    BY <2>2, <2>3 DEF Resumes, TypeOK, WaitingStatus, WaitingOnObjects
  <2>4. ASSUME NEW x \in Threads, Stops(x)
        PROVE  status'[t] = "Running"
    <3>1. Stop(x) \in Stacked /\ Stop(x).op = "Stop" /\ Stop(x).thread = x
      BY <2>4 DEF Stops, Stop
    <3>2. t # x
      BY <1>4, <2>1, <2>2, <3>1
    <3> QED
      BY <2>2, <2>4, <3>2 DEF Stops, TypeOK
  <2> QED
    BY <2>2, <2>3, <2>4, OtherStepThreads DEF Boosts
<1>6. StopsJustified'
  <2>1. \A f \in Stacked : f.op = "TerminateThreads" => f.process \in exited
    BY DEF CoreInv, StopsJustified
  <2>2. \A f \in Stacked' : /\ f.op = "Stop" => TerminateThreadsStep
                            /\ f.op = "TerminateThreads" => f.process \in exited
    BY <2>1, StopFrames
  <2>3. CASE TerminateThreadsStep
    <3>1. top.op = "TerminateThreads" /\ top \in Stacked
      BY <1>1, <2>3, Innermost DEF TerminateThreadsStep, Runs, top
    <3>2. \A f \in Stacked' : f.op = "Stop" => OwnerOf[f.thread] \in exited
      <4>1. \A f \in Stacked : f.op # "Stop"
        BY <3>1, StopInnermost
      <4>2. Stacked = {top} \cup Under
        BY <1>1, Innermost
      <4>3. top.process \in exited
        BY <2>1, <3>1
      <4> QED
        BY <2>3, <4>1, <4>2, <4>3, TerminateThreadsStack DEF Stop
    <3> QED
      BY <1>1, <2>2, <3>2 DEF StopsJustified
  <2> QED
    BY <1>1, <2>2, <2>3 DEF StopsJustified
<1>7. ExitInv'
  BY OtherStepExitInv DEF CoreInv
<1> QED
  BY <1>2, <1>3, <1>5, <1>6, <1>7 DEF CoreInv

(* Reschedule itself.                                                      *)
LEMMA SchedulingCoreInv ==
    ASSUME TypeOK, Nested(work), CoreInv, fault' = NoFault,
           BoostStarvedStep \/ PopNextStep \/ RequeueStep \/ SwitchContextStep
    PROVE  CoreInv'
<1>1. /\ CurrentOwn' /\ QueuesOwn' /\ PicksOwn'
  BY BoostStarvedOwn, PopNextOwn, RequeueOwn, SwitchContextOwn DEF CoreInv
<1>2. /\ work # <<>> /\ top.op \in SchedulingOps
      /\ UNCHANGED <<halted, exited>>
      /\ SwitchContextStep \/ UNCHANGED <<status, current_thread>>
  BY DEF BoostStarvedStep, PopNextStep, RequeueStep, SwitchContextStep, Runs, top, SchedulingOps,
         Fail, systemVars
<1>3. /\ top \in Frames /\ Stacked = {top} \cup Under
      /\ \A f \in Under : f.op = "PopNext"
  BY <1>2, Innermost, BeneathEach DEF SchedulingOps
<1>4. \A f \in Stacked' : f.op \in SchedulingOps
  <2>1. CASE BoostStarvedStep
    BY <1>3, <2>1, BoostStarvedStack DEF BoostStarved, SchedulingOps
  <2>2. CASE PopNextStep
    BY <1>2, <1>3, <2>2, PopNextStack DEF Requeue, SchedulingOps
  <2>3. CASE RequeueStep
    BY <1>2, <1>3, <2>3, RequeueStack DEF SwitchContext, SchedulingOps
  <2>4. CASE SwitchContextStep
    BY <2>4, SwitchContextStack
  <2> QED
    BY <2>1, <2>2, <2>3, <2>4
<1>5. StopsJustified'
  BY <1>4 DEF StopsJustified, SchedulingOps
<1>6. RunningOrExited'
  <2>1. CASE SwitchContextStep
    <3> DEFINE c == top.core
               new == top.next
               old == current_thread[c]
               saved == IF IsRunning(old) THEN [status EXCEPT ![old] = "Ready"] ELSE status
    <3>1. /\ current_thread' = [current_thread EXCEPT ![c] = new]
          /\ new = NoThread => status' = saved
          /\ new # NoThread => status' = [saved EXCEPT ![new] = "Running"]
      BY <2>1 DEF SwitchContextStep, NoFault
    <3>2. top.op = "SwitchContext" /\ top \in Stacked /\ Stacked = {top}
      BY <1>3, <2>1, SwitchContextStack DEF SwitchContextStep, Runs, top
    <3>3. c \in Cores /\ new \in Threads \cup {NoThread}
      BY <1>3, <3>2, FrameFields
    <3>4. new # NoThread => CoreOf[new] = c
      BY <3>2 DEF CoreInv, PicksOwn
    <3>5. old \in Threads \cup {NoThread} /\ (old # NoThread => CoreOf[old] = c)
      BY <3>3 DEF CoreInv, CurrentOwn, TypeOK
    <3>6. \A x \in Threads : CoreOf[x] # c => status'[x] = status[x]
      BY <3>1, <3>3, <3>4, <3>5 DEF TypeOK, IsRunning
    <3>7. new # NoThread => status'[new] = "Running"
      BY <3>1, <3>3 DEF TypeOK, IsRunning
    <3> HIDE DEF c, new, old, saved
    <3>8. ASSUME NEW d \in Cores, d \notin halted, d # c, current_thread[d] # NoThread
          PROVE  status'[current_thread[d]] = "Running" \/ OwnerOf[current_thread[d]] \in exited
      <4>1. ~Rescheduling(d)
        BY <3>2, <3>8 DEF Rescheduling, c
      <4>2. /\ status[current_thread[d]] = "Running" \/ OwnerOf[current_thread[d]] \in exited
            /\ current_thread[d] \in Threads /\ CoreOf[current_thread[d]] = d
        BY <3>8, <4>1 DEF CoreInv, RunningOrExited, CurrentOwn, TypeOK
      <4> QED
        BY <3>6, <3>8, <4>2
    <3> QED
      BY <1>2, <3>1, <3>3, <3>7, <3>8 DEF RunningOrExited, TypeOK
  <2>2. CASE ~SwitchContextStep
    <3>1. UNCHANGED <<status, current_thread>>
      BY <1>2, <2>2
    <3>2. \A c : Rescheduling(c) => Rescheduling(c)'
      BY <2>2, ReschedulingStays
    <3> QED
      BY <1>2, <3>1, <3>2 DEF CoreInv, RunningOrExited
  <2> QED
    BY <2>1, <2>2
<1>7. ExitInv'
  BY SchedulingExitInv DEF CoreInv
<1> QED
  BY <1>1, <1>5, <1>6, <1>7 DEF CoreInv

(* No thread of an exited process is created or goes on: who calls is of a *)
(* process that runs, and whoever a terminating process's loops are to     *)
(* stop runs on no other core.                                             *)
LEMMA EntryExitInv ==
    ASSUME TypeOK, CoreInv, Orderly, Entry
    PROVE  ExitInv'
<1>1. /\ UNCHANGED current_thread
      /\ halted \subseteq halted'
      /\ work = <<>> /\ Stacked = {}
  BY EntryCores, EntryStack DEF Quiet
<1>2. /\ \A c \in Cores \ halted :
            current_thread[c] # NoThread => OwnerOf[current_thread[c]] \notin exited
      /\ \A t \in Threads : OwnerOf[t] \in exited => ~Alive(t)
      /\ AliveListed
  BY <1>1 DEF CoreInv, ExitInv, CallersLive, Ended, Rescheduling
<1>3. ASSUME NEW c \in Cores, NEW t \in Threads, Svc(c, t)
      PROVE  status[t] = "Running" /\ OwnerOf[t] \notin exited /\ t = current_thread[c]
             /\ c \notin halted
  BY <1>3, CallerRuns DEF CoreInv
<1>4. ASSUME UNCHANGED exited, thread_list \subseteq thread_list',
             \A t \in Threads : Alive(t)' =>
                Alive(t) \/ (t \in thread_list' /\ OwnerOf[t] \notin exited)
      PROVE  ExitInv'
  <2>1. AliveListed'
    BY <1>2, <1>4 DEF AliveListed
  <2>2. \A t \in Threads : OwnerOf[t] \in exited' => Ended(t)'
    BY <1>2, <1>4 DEF Ended
  <2>3. CallersLive'
    BY <1>1, <1>2, <1>4 DEF CallersLive
  <2> QED
    BY <2>1, <2>2, <2>3 DEF ExitInv
<1>5. ASSUME UNCHANGED <<exited, thread_list, status>>
      PROVE  ExitInv'
  BY <1>4, <1>5 DEF Alive
<1>6. ASSUME NEW t \in Threads, MakeThread(t) \/ MakeSleeper(t), OwnerOf[t] \notin exited
      PROVE  ExitInv'
  <2>1. /\ UNCHANGED exited /\ thread_list' = thread_list \cup {t}
        /\ \A x \in Threads \ {t} : status'[x] = status[x]
    BY <1>6 DEF MakeThread, MakeSleeper, TypeOK
  <2>2. \A x \in Threads : Alive(x)' =>
           Alive(x) \/ (x \in thread_list' /\ OwnerOf[x] \notin exited)
    BY <1>6, <2>1 DEF Alive
  <2> QED
    BY <1>4, <2>1, <2>2
<1>7. ASSUME NEW c \in Cores, NEW t \in Threads, NEW p \in Terminable, TerminateProcess(c, t, p)
      PROVE  ExitInv'
  <2>1. UNCHANGED <<status, thread_list, halted>> /\ cpu' = c
    BY <1>7 DEF TerminateProcess, Svc
  <2>2. CASE UNCHANGED exited
    BY <1>5, <2>1, <2>2
  <2>3. CASE Stacked' = {TerminateThreads(d, p) : d \in Cores} /\ exited' = exited \cup {p}
    <3>1. \A d \in Cores \ halted : current_thread[d] # NoThread =>
             \/ OwnerOf[current_thread[d]] \notin exited'
             \/ d = c /\ OwnerOf[current_thread[d]] = p
      <4>1. ~TerminatesRunning \/ NumCores = 1
        BY DEF Orderly
      <4>2. NumCores = 1 => \A d \in Cores : d = c
        BY DEF Cores
      <4>3. \/ TerminatesRunning
            \/ \A d \in Cores \ (halted \cup {c}) :
                  current_thread[d] # NoThread => OwnerOf[current_thread[d]] # p
        BY <1>7 DEF TerminateProcess
      <4> QED
        BY <1>2, <2>3, <4>1, <4>2, <4>3
    <3>2. CallersLive'
      BY <1>1, <2>1, <2>3, <3>1 DEF CallersLive
    <3>3. \A t1 \in Threads : OwnerOf[t1] \in exited' => Ended(t1)'
      <4>1. \A t1 \in Threads : CoreOf[t1] \in Cores
        BY CoreAssumption
      <4> QED
        BY <1>2, <2>1, <2>3, <4>1 DEF Ended, Alive
    <3>4. AliveListed'
      BY <1>2, <2>1 DEF AliveListed, Alive
    <3> QED
      BY <3>2, <3>3, <3>4 DEF ExitInv
  <2> QED
    BY <1>7, <2>2, <2>3, TerminateProcessStack
<1>8. ASSUME NEW c \in Cores, NEW t \in Threads, WaitSvc(c, t)
      PROVE  ExitInv'
  <2>1. Svc(c, t) /\ UNCHANGED <<exited, thread_list>>
    BY <1>8, SvcCalled DEF WaitSvc, WaitSynchronizationAny, WaitSynchronizationAll, SleepThread,
       ArbitrateWait
  <2>2. UNCHANGED status \/ \E s : status' = [status EXCEPT ![t] = s]
    BY <1>8 DEF WaitSvc, WaitSynchronizationAny, WaitSynchronizationAll, SleepThread,
       ArbitrateWait, Grants, Sleeps
  <2>3. \A x \in Threads : Alive(x)' => Alive(x)
    BY <1>3, <2>1, <2>2 DEF Alive, TypeOK
  <2> QED
    BY <1>4, <2>1, <2>3
<1>9. ASSUME NEW c \in Cores, NEW t \in Threads, SignalSvc(c, t)
       PROVE  ExitInv'
  <2>1. UNCHANGED <<exited, thread_list, status>>
    BY <1>9 DEF SignalSvc, ReleaseMutex, ReleaseSemaphore, SignalEvent, ClearSignal, SetTimer,
                 CancelTimer, ArbitrateSignal
  <2> QED
    BY <1>5, <2>1
<1>10. ASSUME NEW c \in Cores, NEW t \in Threads, ThreadSvc(c, t)
       PROVE  ExitInv'
  <2>1. ASSUME NEW new \in Threads, CreateThread(c, t, new)
        PROVE  ExitInv'
    <3>1. OwnerOf[new] \notin exited /\ MakeThread(new)
      BY <1>3, <2>1 DEF CreateThread
    <3> QED
      BY <1>6, <3>1
  <2>2. CASE ExitThread(c, t) \/ (\E x \in Threads, p \in SetPriorities :
                                    SetThreadPriority(c, t, x, p))
             \/ (\E p \in Processes, may \in BOOLEAN : ScheduleThreads(c, t, p, may))
    <3>1. UNCHANGED <<exited, thread_list, status>>
      BY <2>2 DEF ExitThread, SetThreadPriority, ScheduleThreads
    <3> QED
      BY <1>5, <3>1
  <2> QED
    BY <1>7, <1>10, <2>1, <2>2 DEF ThreadSvc
<1>11. ASSUME NEW p \in Processes, SetupMainThread(p)
       PROVE  ExitInv'
  <2>1. MainThread[p] \in Threads /\ OwnerOf[MainThread[p]] = p
    BY SyncAssumption
  <2> QED
    BY <1>6, <1>11, <2>1 DEF SetupMainThread
<1>12. CASE (\E c \in Cores, e \in Timers : TimerCallback(c, e))
            \/ (\E t \in Threads : ThreadWakeupCallback(t))
  <2>1. UNCHANGED <<exited, thread_list, status>>
    BY <1>12 DEF TimerCallback, ThreadWakeupCallback
  <2> QED
    BY <1>5, <2>1
<1> QED
  BY <1>8, <1>9, <1>10, <1>11, <1>12 DEF Entry

LEMMA EntryCoreInv ==
    ASSUME TypeOK, CoreInv, Orderly, Entry
    PROVE  CoreInv'
<1>1. /\ UNCHANGED <<current_thread, unscheduled_ready_queue>>
      /\ halted \subseteq halted' /\ exited \subseteq exited'
      /\ work = <<>> /\ Stacked = {} /\ Nested(work)
      /\ \A f \in Stacked' : f.op \notin SchedulingOps
  BY EntryCores, EntryStack, QuietStack DEF Quiet
<1>2. CurrentOwn' /\ QueuesOwn'
  BY <1>1, QueuesOwnOther DEF CoreInv, CurrentOwn
<1>3. PicksOwn'
  <2>1. unscheduled_ready_queue = <<>>
    BY <1>1 DEF CoreInv, PicksOwn
  <2> QED
    BY <1>1, <2>1 DEF PicksOwn, SchedulingOps
<1>4. ASSUME NEW c \in Cores, NEW t \in Threads, Svc(c, t)
      PROVE  status[t] = "Running" /\ CoreOf[t] = c
  BY <1>4, CallerRuns DEF CoreInv
<1>5. RunningOrExited'
  <2> SUFFICES ASSUME NEW c \in Cores, c \notin halted', current_thread[c] # NoThread,
                      OwnerOf[current_thread[c]] \notin exited
               PROVE  status'[current_thread[c]] = "Running"
    BY <1>1 DEF RunningOrExited
  <2> DEFINE t == current_thread[c]
  <2>1. ~Rescheduling(c) /\ c \notin halted
    BY <1>1 DEF Rescheduling
  <2>2. status[t] = "Running" /\ t \in Threads /\ CoreOf[t] = c
    BY <2>1 DEF CoreInv, RunningOrExited, CurrentOwn, TypeOK
  <2>3. ASSUME NEW d \in Cores, NEW x \in Threads, NEW s, FallsAsleep(d, x, s)
        PROVE  status'[t] = "Running"
    <3>1. d \in halted' /\ CoreOf[x] = d
      BY <1>4, <2>3 DEF FallsAsleep, PrepareReschedule
    <3> QED
      BY <2>2, <2>3, <3>1 DEF FallsAsleep, TypeOK
  <2>4. ASSUME NEW x \in Threads, MakeThread(x) \/ MakeSleeper(x)
        PROVE  status'[t] = "Running"
    BY <2>2, <2>4 DEF MakeThread, MakeSleeper, TypeOK
  <2>5. CASE UNCHANGED status
    BY <2>2, <2>5
  <2> QED
    BY <2>3, <2>4, <2>5, EntryThreads DEF Boosts, SetThreadPriority
<1>6. StopsJustified'
  <2>1. ASSUME NEW c \in Cores, NEW t \in Threads, WaitSvc(c, t)
        PROVE  \A f \in Stacked' : f.op \notin {"Stop", "TerminateThreads"}
    <3>1. ASSUME NEW os \in WaitLists, NEW timeout \in Timeouts,
                 \/ WaitSynchronizationAny(c, t, os, timeout)
                 \/ WaitSynchronizationAll(c, t, os, timeout)
          PROVE  \A f \in Stacked' : f.op \notin {"Stop", "TerminateThreads"}
      <4>1. CASE \E ps \in Seq(Objects) : Grants(t, ps)
        BY <4>1, GrantsStack DEF Acquire
      <4>2. CASE \E s \in WaitingOnObjects : Sleeps(c, t, os, s, timeout)
        <5>1. os \in Seq(Objects)
          BY <3>1, WaitCases
        <5>2. Stacked' = {AddWaiting(t, os)}
          BY <4>2, <5>1, SleepsStack
        <5> QED
          BY <5>2 DEF AddWaiting
      <4> QED
        BY <3>1, <4>1, <4>2, WaitCases
    <3>2. CASE UNCHANGED work
      BY <1>1, <3>2, NoCallStack
    <3> QED
      BY <2>1, <3>1, <3>2 DEF WaitSvc, SleepThread, ArbitrateWait
  <2>2. ASSUME NEW c \in Cores, NEW t \in Threads, SignalSvc(c, t)
        PROVE  \A f \in Stacked' : f.op \notin {"Stop", "TerminateThreads"}
    BY <2>2, SignalSvcStack
  <2>3. ASSUME NEW c \in Cores, NEW t \in Threads, ExitThread(c, t)
        PROVE  StopsJustified'
    <3>1. Stacked' = {Stop(t)}
      BY <2>3, FrameType, OneCallStack DEF ExitThread
    <3>2. /\ status[t] = "Running" /\ CoreOf[t] = c
          /\ UNCHANGED status /\ halted' = halted \cup {c}
      BY <1>4, <2>3 DEF ExitThread, PrepareReschedule
    <3> QED
      BY <3>1, <3>2 DEF StopsJustified, Stop
  <2>4. ASSUME NEW c \in Cores, NEW t \in Threads, NEW p \in Terminable, TerminateProcess(c, t, p)
        PROVE  StopsJustified'
    BY <2>4, TerminateProcessStack DEF StopsJustified, TerminateThreads
  <2>5. ASSUME NEW c \in Cores, NEW t \in Threads, NEW x \in Threads, NEW p,
               SetThreadPriority(c, t, x, p)
        PROVE  \A f \in Stacked' : f.op \notin {"Stop", "TerminateThreads"}
    <3>1. work' = <<UpdateMutexes(pending_mutexes[x])>> /\ pending_mutexes[x] \in SUBSET Mutexes
      BY <2>5 DEF SetThreadPriority, TypeOK
    <3> QED
      BY <3>1, FrameType, OneCallStack DEF UpdateMutexes
  <2>6. ASSUME NEW t \in Threads, ThreadWakeupCallback(t)
        PROVE  \A f \in Stacked' : f.op \notin {"Stop", "TerminateThreads"}
    BY <2>6, ThreadWakeupCallbackStack DEF Callback, RemoveWaiting, Resume
  <2>7. ASSUME NEW c, NEW e \in Timers, TimerCallback(c, e)
        PROVE  \A f \in Stacked' : f.op \notin {"Stop", "TerminateThreads"}
    BY <2>7, TimerCallbackStack DEF WakeupAll
  <2>8. CASE UNCHANGED work
    BY <1>1, <2>8, NoCallStack DEF StopsJustified
  <2>9. CASE \A f \in Stacked' : f.op \notin {"Stop", "TerminateThreads"}
    BY <2>9 DEF StopsJustified
  <2>10. ASSUME NEW c \in Cores, NEW t \in Threads, ThreadSvc(c, t)
         PROVE  StopsJustified'
    BY <2>3, <2>4, <2>5, <2>8, <2>9, <2>10 DEF ThreadSvc, CreateThread, MakeThread, ScheduleThreads
  <2> QED
    BY <2>1, <2>2, <2>6, <2>7, <2>8, <2>9, <2>10 DEF Entry, SetupMainThread, MakeThread, MakeSleeper
<1>7. ExitInv'
  BY EntryExitInv
<1> QED
  BY <1>2, <1>3, <1>5, <1>6, <1>7 DEF CoreInv

LEMMA RescheduleCoreInv ==
    ASSUME TypeOK, CoreInv, NEW c \in Cores, Reschedule(c)
    PROVE  CoreInv'
<1>1. PICK starved : /\ Stacked' = {BoostStarved(c, starved), PopNext(c)}
                     /\ work' # <<>>
  BY RescheduleStack DEF Reschedule
<1>2. /\ UNCHANGED <<current_thread, unscheduled_ready_queue, ready_queue, status, exited>>
      /\ halted' = halted \ {c} /\ work = <<>>
  BY DEF Reschedule, Quiet
<1>3. Stacked = {} /\ unscheduled_ready_queue = <<>>
  BY <1>2, QuietStack DEF CoreInv, PicksOwn
<1>4. Rescheduling(c)'
  BY <1>1 DEF Rescheduling, PopNext
<1>5. RunningOrExited'
  <2>1. ASSUME NEW d \in Cores, d # c, d \notin halted', current_thread[d] # NoThread
        PROVE  status[current_thread[d]] = "Running" \/ OwnerOf[current_thread[d]] \in exited
    BY <1>2, <1>3, <2>1 DEF CoreInv, RunningOrExited, Rescheduling
  <2> QED
    BY <1>2, <1>4, <2>1 DEF RunningOrExited
<1>6. StopsJustified'
  BY <1>1 DEF StopsJustified, BoostStarved, PopNext
<1>7. PicksOwn'
  <2>1. Range(<<>>) = {}
    BY DEF Range
  <2> QED
    BY <1>1, <1>2, <1>3, <2>1 DEF PicksOwn, BoostStarved, PopNext
<1>8. ExitInv'
  <2>1. CallersLive'
    BY <1>2, <1>3, <1>4 DEF CoreInv, ExitInv, CallersLive, Rescheduling
  <2>2. AliveListed' /\ \A t \in Threads : Alive(t)' <=> Alive(t)
    BY <1>2 DEF CoreInv, ExitInv, AliveListed, Alive, Reschedule
  <2> QED
    BY <1>2, <1>3, <2>1, <2>2 DEF CoreInv, ExitInv, Ended
<1> QED
  BY <1>2, <1>5, <1>6, <1>7, <1>8 DEF CoreInv, CurrentOwn, QueuesOwn, Own

LEMMA CoreInvNext ==
    ASSUME TypeOK, Nested(work), CoreInv, Orderly, [Next]_vars
    PROVE  CoreInv'
<1>1. CASE UNCHANGED systemVars
  BY <1>1 DEF systemVars, CoreInv, CurrentOwn, QueuesOwn, Own, PicksOwn, RunningOrExited,
              StopsJustified, ExitInv, AliveListed, Alive, Ended, CallersLive, Stacked,
              Rescheduling, top
<1> QED
  BY <1>1, NextCases, OtherStepCoreInv, SchedulingCoreInv, EntryCoreInv, RescheduleCoreInv

LEMMA CoreInvInit ==
    ASSUME Init
    PROVE  Nested(work) /\ CoreInv
<1>1. /\ work = <<>> /\ halted = {} /\ unscheduled_ready_queue = <<>>
      /\ current_thread = [c \in Cores |-> NoThread]
      /\ ready_queue = [c \in Cores |-> EmptyList(Priorities)]
      /\ status = [t \in Threads |-> "Free"] /\ exited = {}
  BY DEF Init
<1>2. Stacked = {} /\ Nested(work)
  BY <1>1, QuietStack
<1>3. Range(<<>>) = {}
  BY DEF Range
<1>4. QueuesOwn
  BY <1>1, <1>3 DEF QueuesOwn, Own, EmptyList
<1> QED
  BY <1>1, <1>2, <1>4 DEF CoreInv, CurrentOwn, PicksOwn, RunningOrExited, StopsJustified,
                          ExitInv, AliveListed, Alive, CallersLive

(* Between any two steps of the kernel code the calls on the stack are     *)
(* nested as the code nests them; a core runs, queues and picks threads of *)
(* its own only; a core that was not told to stop and is not being         *)
(* rescheduled runs a Running thread; TerminateProcessThreads and          *)
(* ExitThread stop nobody else, and of a process that has exited every     *)
(* thread has ended or is about to (thread.cpp, svc.cpp), so long as no    *)
(* process is terminated while another core runs a thread of it.           *)
THEOREM CoresCorrect == Orderly /\ Spec => [](Nested(work) /\ CoreInv)
<1> DEFINE Given == Orderly
           Inv == Given /\ Nested(work) /\ CoreInv
<1>1. Given /\ Init => Inv
  BY CoreInvInit
<1>2. TypeOK /\ Inv /\ [Next]_vars => Inv'
  <2>1. Given => Given'
    BY DEF Orderly
  <2> QED
    BY <2>1, NestedNext, CoreInvNext
<1>3. Inv => Nested(work) /\ CoreInv
  OBVIOUS
<1>4. Orderly => Given
  OBVIOUS
<1> HIDE DEF Given, Inv
<1> QED
  BY <1>1, <1>2, <1>3, <1>4, TypeCorrect, PTL DEF Spec

(* The calls on the stack are nested so whatever process is terminated.    *)
LEMMA CallsNested == Spec => []Nested(work)
<1>1. Init => Nested(work)
  BY QuietStack DEF Init
<1>2. TypeOK /\ Nested(work) /\ [Next]_vars => Nested(work)'
  BY NestedNext
<1> QED
  BY <1>1, <1>2, TypeCorrect, PTL DEF Spec

(***************************************************************************)
(* Where no process is terminated.                                         *)
(***************************************************************************)
LEMMA NoneExit ==
    ASSUME Terminable = {}, exited = {}, [Next]_vars
    PROVE  exited' = {}
<1>1. CASE Entry
  <2>1. ASSUME NEW c \in Cores, NEW t \in Threads, ThreadSvc(c, t)
        PROVE  UNCHANGED exited
    BY <2>1 DEF ThreadSvc, CreateThread, MakeThread, ExitThread, SetThreadPriority, ScheduleThreads
  <2>2. ASSUME NEW c \in Cores, NEW t \in Threads, WaitSvc(c, t)
        PROVE  UNCHANGED exited
    BY <2>2 DEF WaitSvc, WaitSynchronizationAny, WaitSynchronizationAll, SleepThread, ArbitrateWait
  <2>3. ASSUME NEW c \in Cores, NEW t \in Threads, SignalSvc(c, t)
        PROVE  UNCHANGED exited
    BY <2>3 DEF SignalSvc, ReleaseMutex, ReleaseSemaphore, SignalEvent, ClearSignal, SetTimer,
                CancelTimer, ArbitrateSignal
  <2> QED
    BY <1>1, <2>1, <2>2, <2>3 DEF Entry, SetupMainThread, MakeThread, MakeSleeper, TimerCallback,
                                  ThreadWakeupCallback
<1>2. CASE OtherStep
  BY <1>2, OtherStepCores
<1>3. CASE /\ BoostStarvedStep \/ PopNextStep \/ RequeueStep \/ SwitchContextStep
           /\ fault' = NoFault
  BY <1>3 DEF BoostStarvedStep, PopNextStep, RequeueStep, SwitchContextStep, Fail, NoFault
<1>4. CASE \E c \in Cores : Reschedule(c)
  BY <1>4 DEF Reschedule
<1>5. CASE UNCHANGED systemVars
  BY <1>5 DEF systemVars
<1> QED
  BY <1>1, <1>2, <1>3, <1>4, <1>5, NextCases

(* A core executes guest code only of a thread that is Running: each SVC   *)
(* that takes that status away calls PrepareReschedule for the core that   *)
(* runs the thread (svc.cpp, thread.cpp), so long as no core terminates    *)
(* the process of a thread that runs on another one.                       *)
THEOREM RunningThreadsExecute == Orderly /\ Spec => []OnlyRunningThreadsExecute
<1>1. CoreInv => OnlyRunningThreadsExecute
  BY QuietStack DEF CoreInv, RunningOrExited, ExitInv, CallersLive, OnlyRunningThreadsExecute,
                    Quiet, Rescheduling, IsRunning
<1> QED
  BY <1>1, CoresCorrect, PTL DEF Spec

(***************************************************************************)
(* Pending timeouts and ended threads.                                     *)
(***************************************************************************)
LEMMA OtherStepTimeouts ==
    ASSUME OtherStep
    PROVE  wakeup_events' \subseteq wakeup_events
<1>1. KernelStep /\ fault' = NoFault /\ ~ (BoostStarvedStep \/ PopNextStep \/ RequeueStep
                                            \/ SwitchContextStep)
  BY DEF OtherStep, BoostStarvedStep, PopNextStep, RequeueStep, SwitchContextStep, Runs, top,
         SchedulingOps
<1> QED
  BY <1>1 DEF KernelStep, UpdateMutexesStep, AcquireStep, AddWaitingStep, RemoveWaitingStep,
     WakeupAllStep, CallbackStep, ResumeStep, StopStep, ReleaseMutexesStep,
     TerminateThreadsStep, ResumeArbitratedStep, Fail, NoFault, CancelWakeup

LEMMA EntryTimeouts ==
    ASSUME TypeOK, Entry
    PROVE  \/ wakeup_events' \subseteq wakeup_events
           \/ \E c \in Cores, t \in Threads, s \in WaitingStatus :
                 FallsAsleep(c, t, s) /\ wakeup_events' \subseteq wakeup_events \cup {t}
           \/ \E t \in Threads : MakeSleeper(t)
<1> DEFINE Goal == \/ wakeup_events' \subseteq wakeup_events
                   \/ \E c \in Cores, t \in Threads, s \in WaitingStatus :
                         FallsAsleep(c, t, s) /\ wakeup_events' \subseteq wakeup_events \cup {t}
                   \/ \E t \in Threads : MakeSleeper(t)
<1> SUFFICES Goal
  OBVIOUS
<1>1. CASE UNCHANGED wakeup_events
  BY <1>1
<1>2. ASSUME NEW c \in Cores, NEW t \in Threads, WaitSvc(c, t), ~ UNCHANGED wakeup_events
      PROVE  Goal
  <2>1. ASSUME NEW os \in WaitLists, NEW timeout \in Timeouts,
               \/ WaitSynchronizationAny(c, t, os, timeout)
               \/ WaitSynchronizationAll(c, t, os, timeout)
        PROVE  Goal
    <3>1. PICK s \in WaitingOnObjects : Sleeps(c, t, os, s, timeout)
      BY <1>2, <2>1, WaitCases DEF Grants
    <3>2. FallsAsleep(c, t, s)
      BY <2>1, <3>1 DEF FallsAsleep, Sleeps, WaitSynchronizationAny, WaitSynchronizationAll
    <3>3. wakeup_events' \subseteq wakeup_events \cup {t} /\ s \in WaitingStatus
      BY <3>1 DEF Sleeps, WakeAfterDelay, WaitingStatus
    <3> QED
      BY <3>2, <3>3
  <2>2. ASSUME NEW timeout \in Timeouts, SleepThread(c, t, timeout)
        PROVE  Goal
    <3>1. FallsAsleep(c, t, "WaitSleep")
      BY <2>2 DEF FallsAsleep, SleepThread
    <3>2. wakeup_events' \subseteq wakeup_events \cup {t} /\ "WaitSleep" \in WaitingStatus
      BY <2>2 DEF SleepThread, WakeAfterDelay, WaitingStatus
    <3> QED
      BY <3>1, <3>2
  <2>3. ASSUME NEW a \in Arbiters, NEW addr \in Addresses, NEW timeout \in Timeouts,
               ArbitrateWait(c, t, a, addr, timeout)
        PROVE  Goal
    <3>1. FallsAsleep(c, t, "WaitArb")
      BY <2>3 DEF FallsAsleep, ArbitrateWait
    <3>2. wakeup_events' \subseteq wakeup_events \cup {t} /\ "WaitArb" \in WaitingStatus
      BY <2>3 DEF ArbitrateWait, WakeAfterDelay, WaitingStatus
    <3> QED
      BY <3>1, <3>2
  <2> HIDE DEF Goal
  <2> QED
    BY <1>2, <2>1, <2>2, <2>3 DEF WaitSvc
<1>3. ASSUME NEW c \in Cores, NEW t \in Threads, SignalSvc(c, t)
      PROVE  UNCHANGED wakeup_events
  BY <1>3 DEF SignalSvc, ReleaseMutex, ReleaseSemaphore, SignalEvent, ClearSignal, SetTimer,
              CancelTimer, ArbitrateSignal
<1>4. ASSUME NEW c \in Cores, NEW t \in Threads, ThreadSvc(c, t)
      PROVE  UNCHANGED wakeup_events
  BY <1>4 DEF ThreadSvc, CreateThread, MakeThread, ExitThread, SetThreadPriority,
              TerminateProcess, ScheduleThreads
<1>5. ASSUME NEW t \in Threads, ThreadWakeupCallback(t)
      PROVE  Goal
  BY <1>5 DEF ThreadWakeupCallback
<1>6. ASSUME NEW c \in Cores, NEW e \in Timers, TimerCallback(c, e)
      PROVE  UNCHANGED wakeup_events
  BY <1>6 DEF TimerCallback
<1>7. ASSUME NEW p \in Processes, SetupMainThread(p)
      PROVE  Goal
  BY <1>7, SyncAssumption DEF SetupMainThread, MakeThread
<1> HIDE DEF Goal
<1> QED
  BY <1>1, <1>2, <1>3, <1>4, <1>5, <1>6, <1>7 DEF Entry

LEMMA StatusUnchanged ==
    ASSUME BoostStarvedStep \/ PopNextStep \/ RequeueStep \/ (\E c \in Cores : Reschedule(c)),
           fault' = NoFault
    PROVE  UNCHANGED <<status, wakeup_events>>
BY DEF BoostStarvedStep, PopNextStep, RequeueStep, Reschedule, Fail, NoFault

LEMMA TimeoutsOfSleepersNext ==
    ASSUME TypeOK, Nested(work), TimeoutsOfSleepers, [Next]_vars
    PROVE  TimeoutsOfSleepers'
<1>0. status \in [Threads -> Status] /\ wakeup_events \subseteq Threads
  BY DEF TypeOK
<1>1. ASSUME UNCHANGED status, wakeup_events' \subseteq wakeup_events
      PROVE  TimeoutsOfSleepers'
  BY <1>1 DEF TimeoutsOfSleepers
<1>2. ASSUME NEW t \in Threads, NEW s \in WaitingStatus \cup {"Ready"},
             status' = [status EXCEPT ![t] = s], wakeup_events' \subseteq wakeup_events \cup {t}
      PROVE  TimeoutsOfSleepers'
  BY <1>0, <1>2 DEF TimeoutsOfSleepers
<1>3. CASE OtherStep
  <2>1. wakeup_events' \subseteq wakeup_events
    BY <1>3, OtherStepTimeouts
  <2>2. ASSUME NEW t \in Threads, Stops(t), CancelWakeup(t)
        PROVE  TimeoutsOfSleepers'
    BY <1>0, <2>2 DEF TimeoutsOfSleepers, Stops, CancelWakeup
  <2> QED
    BY <1>1, <1>2, <1>3, <2>1, <2>2, OtherStepThreads DEF Boosts, Resumes
<1>4. CASE Entry
  <2>1. ASSUME NEW c \in Cores, NEW t \in Threads, NEW s \in WaitingStatus,
               FallsAsleep(c, t, s), wakeup_events' \subseteq wakeup_events \cup {t}
        PROVE  TimeoutsOfSleepers'
    BY <1>2, <2>1 DEF FallsAsleep
  <2>2. ASSUME wakeup_events' \subseteq wakeup_events
        PROVE  TimeoutsOfSleepers'
    BY <1>1, <1>2, <1>4, <2>2, EntryThreads DEF Boosts, FallsAsleep, MakeThread, MakeSleeper,
       WaitingStatus, SetThreadPriority
  <2>3. ASSUME NEW t \in Threads, MakeSleeper(t)
        PROVE  TimeoutsOfSleepers'
    BY <1>2, <2>3 DEF MakeSleeper, WaitingStatus
  <2> QED
    BY <1>4, <2>1, <2>2, <2>3, EntryTimeouts
<1>5. CASE SwitchContextStep /\ fault' = NoFault
  <2> DEFINE old == current_thread[top.core]
             new == top.next
  <2>1. /\ \A t \in Threads :
              t # new => status'[t] = IF t = old /\ IsRunning(old) THEN "Ready" ELSE status[t]
        /\ wakeup_events' \subseteq wakeup_events \ {new}
    <3>1. \A t \in wakeup_events : t # NoThread
      BY <1>0, CoreAssumption
    <3> QED
      BY <1>0, <1>5, <3>1, SwitchContextThreads DEF CancelWakeup
  <2> HIDE DEF old, new
  <2> QED
    BY <1>0, <2>1 DEF TimeoutsOfSleepers
<1>6. CASE BoostStarvedStep \/ PopNextStep \/ RequeueStep \/ (\E c \in Cores : Reschedule(c))
  <2>1. CASE fault' = NoFault
    BY <1>1, <1>6, <2>1, StatusUnchanged
  <2>2. CASE fault' # NoFault
    BY <1>1, <1>6, <2>2 DEF BoostStarvedStep, PopNextStep, RequeueStep, Reschedule, Fail, systemVars
  <2> QED
    BY <2>1, <2>2
<1>7. CASE UNCHANGED systemVars
  BY <1>1, <1>7 DEF systemVars
<1> QED
  BY <1>3, <1>4, <1>5, <1>6, <1>7, NextCases

(* A timeout is pending only for a thread that sleeps or is ready: Stop    *)
(* unschedules the event, and SwitchContext does before the thread runs    *)
(* (thread.cpp), so a wakeup event never hits a running or dead thread.    *)
THEOREM TimeoutsCorrect == Spec => []NoStaleTimeout
<1>1. Init => TimeoutsOfSleepers
  BY DEF Init, TimeoutsOfSleepers
<1>2. TypeOK /\ Nested(work) /\ TimeoutsOfSleepers /\ [Next]_vars => TimeoutsOfSleepers'
  BY TimeoutsOfSleepersNext
<1>3. TimeoutsOfSleepers => NoStaleTimeout
  BY DEF TimeoutsOfSleepers, NoStaleTimeout
<1> QED
  BY <1>1, <1>2, <1>3, TypeCorrect, CallsNested, PTL DEF Spec

LEMMA DeadStayDeadNext ==
    ASSUME TypeOK, Nested(work), CoreInv, [Next]_vars,
           NEW t \in Threads, status[t] = "Dead"
    PROVE  status'[t] = "Dead"
<1>0. status \in [Threads -> Status]
  BY DEF TypeOK
<1>1. CASE UNCHANGED status
  BY <1>1
<1>2. ASSUME NEW x \in Threads, NEW s, status' = [status EXCEPT ![x] = s],
             status[x] # "Dead" \/ s = "Dead"
      PROVE  status'[t] = "Dead"
  BY <1>0, <1>2
<1>3. CASE OtherStep
  BY <1>1, <1>2, <1>3, OtherStepThreads DEF Boosts, Resumes, Stops, WaitingStatus, WaitingOnObjects
<1>4. CASE Entry
  <2>1. ASSUME NEW c \in Cores, NEW x \in Threads, NEW s, FallsAsleep(c, x, s)
        PROVE  status'[t] = "Dead"
    <3>1. status[x] = "Running"
      BY <2>1, CallerRuns DEF FallsAsleep, CoreInv
    <3> QED
      BY <1>2, <2>1, <3>1 DEF FallsAsleep
  <2> QED
    BY <1>1, <1>2, <1>4, <2>1, EntryThreads DEF Boosts, MakeThread, MakeSleeper,
       SetThreadPriority
<1>5. CASE SwitchContextStep /\ fault' = NoFault
  <2> DEFINE old == current_thread[top.core]
             new == top.next
  <2>1. /\ t # new => status'[t] = IF t = old /\ IsRunning(old) THEN "Ready" ELSE status[t]
        /\ new # NoThread => status[new] = "Ready" \/ (new = old /\ IsRunning(old))
        /\ t # NoThread
    BY <1>5, SwitchContextThreads, CoreAssumption
  <2> HIDE DEF old, new
  <2> QED
    BY <2>1 DEF IsRunning
<1>6. CASE BoostStarvedStep \/ PopNextStep \/ RequeueStep \/ (\E c \in Cores : Reschedule(c))
  BY <1>1, <1>6 DEF BoostStarvedStep, PopNextStep, RequeueStep, Reschedule, Fail, systemVars
<1>7. CASE UNCHANGED systemVars
  BY <1>1, <1>7 DEF systemVars
<1> QED
  BY <1>3, <1>4, <1>5, <1>6, <1>7, NextCases

(* A thread that is dead stays dead: nothing resumes it (ResumeFromWait    *)
(* accepts sleeping threads only), Reschedule picks ready threads only     *)
(* (thread.cpp), and no SVC puts it to sleep, since it does not run, so    *)
(* long as no process is terminated while another core runs a thread of    *)
(* it: that one would go on, and sleep.                                    *)
THEOREM DeadForGood == Orderly /\ Spec => DeadStayDead
<1>1. TypeOK /\ (Nested(work) /\ CoreInv) /\ [Next]_vars
      => [\A t \in Threads : status[t] = "Dead" => status'[t] = "Dead"]_vars
  BY DeadStayDeadNext
<1> QED
  BY <1>1, TypeCorrect, CoresCorrect, PTL DEF Spec, DeadStayDead

(***************************************************************************)
(* Preemption on the running core, where there are no mutexes.             *)
(***************************************************************************)
(* The threads that Reschedule boosts are the core's own.                  *)
BoostsOwn ==
    \A f \in Stacked : f.op = "BoostStarved" => \A x \in f.threads : CoreOf[x] = f.core

LEMMA BoostsOwnNext ==
    ASSUME TypeOK, Nested(work), BoostsOwn, [Next]_vars
    PROVE  BoostsOwn'
<1>1. CASE \A f \in Stacked' : f.op # "BoostStarved"
  BY <1>1 DEF BoostsOwn
<1>2. CASE OtherStep
  BY <1>1, <1>2, OtherKernelStack DEF OtherStep, SchedulingOps
<1>3. CASE BoostStarvedStep /\ fault' = NoFault
  <2>1. work # <<>> /\ top.op = "BoostStarved"
    BY <1>3 DEF BoostStarvedStep, Runs, top
  <2>2. top \in Stacked /\ Under \subseteq Stacked
    BY <2>1, Innermost
  <2>3. \A x \in top.threads : CoreOf[x] = top.core
    BY <2>1, <2>2 DEF BoostsOwn
  <2>4. \/ Stacked' = Under
        \/ \E t \in top.threads :
              Stacked' = {BoostStarved(top.core, top.threads \ {t})} \cup Under
    BY <1>3, BoostStarvedStack
  <2>5. ASSUME NEW t \in top.threads,
               Stacked' = {BoostStarved(top.core, top.threads \ {t})} \cup Under
        PROVE  BoostsOwn'
    BY <2>2, <2>3, <2>5 DEF BoostsOwn, BoostStarved
  <2> QED
    BY <2>2, <2>4, <2>5 DEF BoostsOwn
<1>4. CASE PopNextStep /\ fault' = NoFault
  <2>1. Stacked' = Stacked \/ \E f : f.op = "Requeue" /\ Stacked' = {f}
    BY <1>4, PopNextStack DEF Requeue
  <2> QED
    BY <2>1 DEF BoostsOwn
<1>5. CASE RequeueStep
  <2>1. Stacked' = Stacked \/ \E f : f.op = "SwitchContext" /\ Stacked' = {f}
    BY <1>5, RequeueStack DEF SwitchContext
  <2> QED
    BY <2>1 DEF BoostsOwn
<1>6. CASE SwitchContextStep /\ fault' = NoFault
  BY <1>1, <1>6, SwitchContextStack
<1>7. CASE Entry
  BY <1>1, <1>7, EntryStack DEF SchedulingOps
<1>8. ASSUME NEW c \in Cores, Reschedule(c)
      PROVE  BoostsOwn'
  <2>1. PICK starved \in SUBSET {t \in thread_list : CoreOf[t] = c /\ status[t] = "Ready"} :
            Stacked' = {BoostStarved(c, starved), PopNext(c)}
    BY <1>8, RescheduleStack
  <2> QED
    BY <2>1 DEF BoostsOwn, BoostStarved, PopNext
<1>9. CASE UNCHANGED systemVars
  BY <1>9 DEF systemVars, BoostsOwn, Stacked
<1> QED
  BY <1>2, <1>3, <1>4, <1>5, <1>6, <1>7, <1>8, <1>9, NextCases

(* Without mutexes code outside Reschedule moves no priority; a thread it  *)
(* makes ready stops the running core, and it makes none run.              *)
LEMMA OtherStepPreempts ==
    ASSUME TypeOK, Nested(work), Mutexes = {}, OtherStep
    PROVE  /\ UNCHANGED <<current_priority, current_thread, cpu>>
           /\ \/ UNCHANGED status
              \/ \E x \in Threads : status' = [status EXCEPT ![x] = "Dead"]
              \/ cpu \in halted'
<1> DEFINE Goal == /\ UNCHANGED <<current_priority, current_thread, cpu>>
                   /\ \/ UNCHANGED status
                      \/ \E x \in Threads : status' = [status EXCEPT ![x] = "Dead"]
                      \/ cpu \in halted'
<1> SUFFICES Goal
  OBVIOUS
<1>1. /\ work # <<>> /\ KernelStep /\ fault' = NoFault
      /\ ~ (BoostStarvedStep \/ PopNextStep \/ RequeueStep \/ SwitchContextStep)
  BY OtherKernelStack DEF OtherStep
<1>2. top \in Frames
  BY <1>1, Innermost
<1>3. CASE UpdateMutexesStep
  <2>1. top.mutexes = {}
    BY <1>2, <1>3, FrameFields DEF UpdateMutexesStep, Runs, top
  <2> QED
    BY <1>3, <2>1 DEF UpdateMutexesStep
<1>4. CASE AcquireStep \/ AddWaitingStep \/ RemoveWaitingStep
  BY <1>1, <1>4 DEF AcquireStep, AddWaitingStep, RemoveWaitingStep, Fail, NoFault
<1>5. CASE ResumeStep
  BY <1>1, <1>5 DEF ResumeStep, PrepareReschedule, Fail, NoFault
<1>6. CASE StopStep
  <2>1. top.thread \in Threads
    BY <1>2, <1>6, FrameFields DEF StopStep, Runs, top
  <2> QED
    BY <1>6, <2>1 DEF StopStep
<1>7. CASE WakeupAllStep \/ CallbackStep \/ ReleaseMutexesStep \/ ResumeArbitratedStep
  BY <1>1, <1>7 DEF WakeupAllStep, CallbackStep, ReleaseMutexesStep, ResumeArbitratedStep,
                    Fail, systemVars
<1>8. CASE TerminateThreadsStep
  BY <1>8 DEF TerminateThreadsStep
<1> QED
  BY <1>1, <1>3, <1>4, <1>5, <1>6, <1>7, <1>8 DEF KernelStep

(* An SVC that makes a thread ready or moves a priority stops the core that*)
(* calls it; a process that is loaded stops none.                          *)
LEMMA EntryPreempts ==
    ASSUME TypeOK, Mutexes = {}, Entry
    PROVE  /\ UNCHANGED current_thread
           /\ \/ UNCHANGED <<status, current_priority>>
              \/ cpu' \in halted'
              \/ \E x \in Range(MainThread) :
                    /\ status[x] = "Free"
                    /\ \/ status' = [status EXCEPT ![x] = "Ready"]
                       \/ status' = [status EXCEPT ![x] = "WaitSleep"]
                    /\ UNCHANGED current_priority
<1>1. ASSUME NEW c \in Cores, NEW t \in Threads, Svc(c, t), PrepareReschedule(c)
      PROVE  cpu' \in halted'
  BY <1>1 DEF Svc, PrepareReschedule
<1>2. ASSUME NEW c \in Cores, NEW t \in Threads, WaitSvc(c, t)
      PROVE  UNCHANGED <<status, current_priority>> \/ cpu' \in halted'
  <2>1. Svc(c, t)
    BY <1>2, SvcCalled
  <2>2. ASSUME NEW os \in WaitLists, NEW timeout \in Timeouts,
               \/ WaitSynchronizationAny(c, t, os, timeout)
               \/ WaitSynchronizationAll(c, t, os, timeout)
        PROVE  UNCHANGED <<status, current_priority>> \/ PrepareReschedule(c)
    <3>1. UNCHANGED current_priority
      BY <2>2 DEF WaitSynchronizationAny, WaitSynchronizationAll
    <3>2. CASE \E ps \in Seq(Objects) : Grants(t, ps)
      BY <3>1, <3>2 DEF Grants
    <3>3. CASE \E s \in WaitingOnObjects : Sleeps(c, t, os, s, timeout)
      BY <3>3 DEF Sleeps
    <3> QED
      BY <2>2, <3>2, <3>3, WaitCases
  <2>3. UNCHANGED <<status, current_priority>> \/ PrepareReschedule(c)
    BY <1>2, <2>2 DEF WaitSvc, SleepThread, ArbitrateWait
  <2> QED
    BY <1>1, <2>1, <2>3
<1>3. ASSUME NEW c \in Cores, NEW t \in Threads, SignalSvc(c, t)
      PROVE  UNCHANGED <<status, current_priority>>
  BY <1>3 DEF SignalSvc, ReleaseSemaphore, SignalEvent, ClearSignal, SetTimer, CancelTimer,
              ArbitrateSignal
<1>4. ASSUME NEW c \in Cores, NEW t \in Threads, ThreadSvc(c, t)
      PROVE  UNCHANGED <<status, current_priority>> \/ cpu' \in halted'
  <2>1. Svc(c, t)
    BY <1>4, SvcCalled
  <2>2. UNCHANGED <<status, current_priority>> \/ PrepareReschedule(c)
    BY <1>4 DEF ThreadSvc, CreateThread, ExitThread, SetThreadPriority, TerminateProcess,
                ScheduleThreads
  <2> QED
    BY <1>1, <2>1, <2>2
<1>5. ASSUME NEW p \in Processes, SetupMainThread(p)
      PROVE  \E x \in Range(MainThread) :
                /\ status[x] = "Free"
                /\ \/ status' = [status EXCEPT ![x] = "Ready"]
                   \/ status' = [status EXCEPT ![x] = "WaitSleep"]
                /\ UNCHANGED current_priority
  <2>1. MainThread[p] \in Range(MainThread)
    BY SyncAssumption DEF Range
  <2> QED
    BY <1>5, <2>1 DEF SetupMainThread, MakeThread, MakeSleeper
<1>6. CASE (\E c \in Cores, e \in Timers : TimerCallback(c, e))
           \/ (\E t \in Threads : ThreadWakeupCallback(t))
  BY <1>6 DEF TimerCallback, ThreadWakeupCallback
<1> QED
  BY <1>2, <1>3, <1>4, <1>5, <1>6, EntryCores DEF Entry

(* Whether t outruns the thread of its core is for these three to say.     *)
LEMMA OutrunsSame ==
    ASSUME NEW t \in Threads, ~Outruns(t), Outruns(t)',
           current_thread'[CoreOf[t]] = current_thread[CoreOf[t]],
           LET r == current_thread[CoreOf[t]]
           IN  r # NoThread => /\ status'[r] = "Running" => status[r] = "Running"
                               /\ current_priority'[r] = current_priority[r],
           current_priority'[t] = current_priority[t]
    PROVE  status[t] # "Ready" /\ status'[t] = "Ready"
BY DEF Outruns, IsRunning

LEMMA PromptPreemptionNext ==
    ASSUME TypeOK, Nested(work), CoreInv, BoostsOwn, Mutexes = {}, [Next]_vars,
           NEW t \in Threads, ~Outruns(t), Outruns(t)', CoreOf[t] = cpu'
    PROVE  \/ cpu' \in halted'
           \/ Reordering(cpu)
           \/ status[t] = "Free" /\ t \in Range(MainThread)
<1> DEFINE r == current_thread[CoreOf[t]]
<1>1. /\ CoreOf[t] \in Cores
      /\ r # NoThread => r \in Threads /\ CoreOf[r] = CoreOf[t]
      /\ status \in [Threads -> Status] /\ current_priority \in [Threads -> Priorities]
      /\ current_thread \in [Cores -> Threads \cup {NoThread}]
  BY CoreAssumption DEF TypeOK, CoreInv, CurrentOwn
<1> HIDE DEF r
<1>2. CASE OtherStep
  <2>1. UNCHANGED <<current_priority, current_thread, cpu>>
    BY <1>2, OtherStepPreempts
  <2>2. ASSUME NEW x \in Threads, status' = [status EXCEPT ![x] = "Dead"]
        PROVE  FALSE
    <3>1. \A y \in Threads : status'[y] = "Dead" \/ status'[y] = status[y]
      BY <1>1, <2>2
    <3> QED
      BY <1>1, <2>1, <3>1, OutrunsSame DEF r
  <2>3. ~ UNCHANGED status
    BY <1>1, <2>1, OutrunsSame DEF r
  <2> QED
    BY <1>2, <2>1, <2>2, <2>3, OtherStepPreempts
<1>3. CASE Entry
  <2>1. UNCHANGED current_thread
    BY <1>3, EntryPreempts
  <2>2. ~ UNCHANGED <<status, current_priority>>
    BY <1>1, <2>1, OutrunsSame DEF r
  <2>3. ASSUME NEW x \in Range(MainThread), status[x] = "Free", UNCHANGED current_priority,
               \/ status' = [status EXCEPT ![x] = "Ready"]
               \/ status' = [status EXCEPT ![x] = "WaitSleep"]
        PROVE  status[t] = "Free" /\ t \in Range(MainThread)
    <3>1. \A y \in Threads : y # x => status'[y] = status[y]
      BY <1>1, <2>3
    <3>2. x \in Threads => status'[x] \in {"Ready", "WaitSleep"}
      BY <1>1, <2>3
    <3>3. r # NoThread => (status'[r] = "Running" => status[r] = "Running")
      BY <1>1, <3>1, <3>2
    <3>4. status[t] # "Ready" /\ status'[t] = "Ready"
      BY <2>1, <2>3, <3>3, OutrunsSame DEF r
    <3> QED
      BY <2>3, <3>1, <3>4
  <2> QED
    BY <1>3, <2>2, <2>3, EntryPreempts
<1>4. CASE BoostStarvedStep /\ fault' = NoFault /\ top.core # CoreOf[t]
  <2>1. work # <<>> /\ top.op = "BoostStarved" /\ UNCHANGED <<status, current_thread>>
    BY <1>4 DEF BoostStarvedStep, Runs, top, Fail, NoFault
  <2>2. top \in Frames /\ top \in Stacked
    BY <2>1, Innermost
  <2>3. top.threads \in SUBSET Threads /\ \A x \in top.threads : CoreOf[x] = top.core
    BY <2>1, <2>2, FrameFields DEF BoostsOwn
  <2>4. \A y \in Threads : CoreOf[y] # top.core => current_priority'[y] = current_priority[y]
    BY <1>1, <1>4, <2>3, BoostStarvedStack DEF BoostPriority, prioVars
  <2>5. r # NoThread => current_priority'[r] = current_priority[r]
    BY <1>1, <1>4, <2>4
  <2>6. current_priority'[t] = current_priority[t]
    BY <1>4, <2>4
  <2> QED
    BY <2>1, <2>5, <2>6, OutrunsSame DEF r
<1>5. CASE SwitchContextStep /\ fault' = NoFault /\ top.core # CoreOf[t]
  <2> DEFINE k == top.core
             old == current_thread[k]
             new == top.next
  <2>1. work # <<>> /\ top.op = "SwitchContext"
    BY <1>5 DEF SwitchContextStep, Runs, top
  <2>2. top \in Frames /\ top \in Stacked
    BY <2>1, Innermost
  <2>3. /\ k \in Cores
        /\ new \in Threads \cup {NoThread} /\ (new # NoThread => CoreOf[new] = k)
        /\ old # NoThread => CoreOf[old] = k
    BY <2>1, <2>2, FrameFields DEF CoreInv, PicksOwn, CurrentOwn
  <2>4. /\ current_thread' = [current_thread EXCEPT ![k] = new]
        /\ \/ UNCHANGED current_priority
           \/ current_priority' = [current_priority EXCEPT ![new] = nominal_priority[new]]
    BY <1>5 DEF SwitchContextStep, NoFault
  <2>5. \A y \in Threads : y # new =>
            status'[y] = IF y = old /\ IsRunning(old) THEN "Ready" ELSE status[y]
    BY <1>5, SwitchContextThreads
  <2> HIDE DEF k, old, new
  <2>6. k # CoreOf[t]
    BY <1>5 DEF k
  <2>7. \A y \in Threads : CoreOf[y] # k => status'[y] = status[y]
                                             /\ current_priority'[y] = current_priority[y]
    <3>1. SUFFICES ASSUME NEW y \in Threads, CoreOf[y] # k
                   PROVE  status'[y] = status[y] /\ current_priority'[y] = current_priority[y]
      OBVIOUS
    <3>2. y # NoThread /\ NoThread \notin Threads
      BY <3>1, CoreAssumption
    <3>3. y # new /\ y # old
      BY <2>3, <3>1, <3>2
    <3>4. status'[y] = status[y]
      BY <2>5, <3>1, <3>3
    <3>5. current_priority'[y] = current_priority[y]
      BY <1>1, <2>4, <3>1, <3>3
    <3> QED
      BY <3>4, <3>5
  <2>8. current_thread'[CoreOf[t]] = current_thread[CoreOf[t]]
    BY <1>1, <2>4, <2>6
  <2>9. /\ r # NoThread => status'[r] = status[r] /\ current_priority'[r] = current_priority[r]
        /\ status'[t] = status[t] /\ current_priority'[t] = current_priority[t]
    BY <1>1, <2>6, <2>7
  <2> QED
    BY <2>8, <2>9, OutrunsSame DEF r
<1>6. CASE (BoostStarvedStep \/ SwitchContextStep) /\ top.core = CoreOf[t]
  <2>1. work # <<>> /\ top.op \in {"BoostStarved", "SwitchContext"} /\ UNCHANGED cpu
    BY <1>6 DEF BoostStarvedStep, SwitchContextStep, Runs, top, Fail, systemVars
  <2> QED
    BY <1>6, <2>1 DEF Reordering
<1>7. CASE PopNextStep \/ RequeueStep \/ (\E c \in Cores : Reschedule(c)) \/ UNCHANGED systemVars
  <2>1. UNCHANGED <<status, current_priority, current_thread>>
    BY <1>7 DEF PopNextStep, RequeueStep, Reschedule, Fail, systemVars
  <2> QED
    BY <2>1, OutrunsSame
<1> QED
  BY <1>2, <1>3, <1>4, <1>5, <1>6, <1>7, NextCases

(* Where there are no mutexes: in the step in which a thread of the core   *)
(* that runs comes to be ready and better than the one it executes,        *)
(* ResumeFromWait, CreateThread or SetThreadPriority tells the core to     *)
(* stop (thread.cpp:317, svc.cpp), unless its own Reschedule decides so or *)
(* the thread is the first of a process; so long as no process is          *)
(* terminated while another core runs a thread of it.                      *)
THEOREM BetterThreadsPreempt == Mutexes = {} /\ Orderly /\ Spec => PromptPreemption
<1> DEFINE None == Mutexes = {}
<1>1. Init => BoostsOwn
  BY QuietStack DEF Init, BoostsOwn
<1>2. TypeOK /\ (Nested(work) /\ CoreInv) /\ BoostsOwn /\ [Next]_vars => BoostsOwn'
  BY BoostsOwnNext
<1>3. TypeOK /\ (Nested(work) /\ CoreInv) /\ BoostsOwn /\ None /\ [Next]_vars
      => [\A t \in Threads : ~Outruns(t) /\ Outruns(t)' /\ CoreOf[t] = cpu' =>
             \/ cpu' \in halted'
             \/ Reordering(cpu)
             \/ status[t] = "Free" /\ t \in Range(MainThread)]_vars
  BY PromptPreemptionNext
<1>4. None => None'
  OBVIOUS
<1>5. Mutexes = {} => None
  OBVIOUS
<1> HIDE DEF None
<1> QED
  BY <1>1, <1>2, <1>3, <1>4, <1>5, TypeCorrect, CoresCorrect, PTL DEF Spec, PromptPreemption
=============================================================================

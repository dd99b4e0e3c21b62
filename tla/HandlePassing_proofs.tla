------------------------- MODULE HandlePassing_proofs -------------------------
(***************************************************************************)
(* Theorems about HandlePassing and the tables of HandleTable, for every   *)
(* number of processes, slots, generations and objects.                    *)
(***************************************************************************)
EXTENDS HandlePassing, SequenceTheorems, FiniteSetTheorems, WellFoundedInduction, TLAPS

(***************************************************************************)
(* The invariant of a table.                                               *)
(***************************************************************************)
(* The n empty slots of a table are s[1], ..., s[n] in the order of its    *)
(* list.                                                                   *)
Chain(t, n, s) ==
    /\ \A i, j \in 1..n : s[i] = s[j] => i = j
    /\ \A k \in Slots : t.objects[k] = NullObject <=> \E i \in 1..n : s[i] = k
    /\ t.next_free_slot = IF n = 0 THEN MAX_COUNT ELSE s[1]
    /\ \A i \in 1..n : t.generations[s[i]] = IF i = n THEN MAX_COUNT ELSE s[i + 1]

Chained(t) == \E n \in 0..MAX_COUNT : \E s \in [1..n -> Slots] : Chain(t, n, s)

Generation == 1..(GENERATION_LIMIT - 1)

(* The generation of a slot in use was issued.                             *)
Issued(t) == \A k \in Slots : t.objects[k] # NullObject => t.generations[k] \in Generation

(* Generations are issued one after the other, and start again at 1: the   *)
(* i-th of the handles remembered is that many generations old.            *)
InSequence(t) ==
    LET old(i) == t.next_generation - (Len(t.recent) + 1 - i) IN
    /\ Len(t.recent) <= Remembered
    /\ \A i \in 1..Len(t.recent) :
          /\ t.recent[i].handle.generation \in Generation
          /\ t.recent[i].handle.generation \in {old(i), old(i) + Remembered}

StaleInvalid(t) ==
    \A i \in 1..Len(t.recent) : ~t.recent[i].open => ~IsValid(t, t.recent[i].handle)

TableInv(t) == t \in Table /\ Chained(t) /\ Issued(t) /\ InSequence(t) /\ StaleInvalid(t)

(* The tables and the context are sound.                                   *)
TablesInv ==
    /\ handle_table \in [Processes -> Table] /\ \A p \in Processes : TableInv(handle_table[p])
    /\ context \in Seq(KernelObjects \cup {NullObject})
    /\ observed \subseteq {"lost"}

(***************************************************************************)
(* Induction up to a number, and what follows for functions that are       *)
(* defined one argument after the other.                                   *)
(***************************************************************************)
LEMMA MinNat ==
    ASSUME NEW S, S \subseteq Nat, S # {}
    PROVE  \E x \in S : \A y \in S : x <= y
<1> DEFINE T == {0..n : n \in S}
<1>1. T \subseteq FiniteSubsetsOf(Nat) /\ T # {}
  <2>1. \A n \in S : 0..n \in SUBSET Nat /\ IsFiniteSet(0..n)
    BY FS_Interval
  <2> QED
    BY <2>1 DEF FiniteSubsetsOf
<1>2. PICK X \in T : \A Y \in T : ~ (<<Y, X>> \in StrictSubsetOrdering(Nat))
  <2> HIDE DEF T
  <2> QED
    BY <1>1, FS_StrictSubsetOrderingWellFounded, WFMin
<1>3. PICK x \in S : X = 0..x
  OBVIOUS
<1>4. \A y \in S : x <= y
  <2> SUFFICES ASSUME NEW y \in S, y < x
               PROVE  FALSE
    OBVIOUS
  <2>1. 0..y \subseteq 0..x /\ 0..y # 0..x
    <3>1. x \in 0..x /\ x \notin 0..y
      OBVIOUS
    <3> QED
      BY <3>1
  <2>2. 0..y \in T /\ 0..y \subseteq Nat /\ 0..x \subseteq Nat
    OBVIOUS
  <2>3. <<0..y, 0..x>> \in StrictSubsetOrdering(Nat)
    BY <2>1, <2>2, Zenon DEF StrictSubsetOrdering
  <2> QED
    BY <1>2, <1>3, <2>2, <2>3
<1> QED
  BY <1>4

(* Whatever holds at 0 and is passed on holds up to n.                     *)
LEMMA UpTo ==
    ASSUME NEW n \in Nat, NEW T, 0 \in T, \A i \in 1..n : i - 1 \in T => i \in T
    PROVE  0..n \subseteq T
<1> SUFFICES ASSUME (0..n) \ T # {}
             PROVE  FALSE
  OBVIOUS
<1>1. PICK x \in (0..n) \ T : \A y \in (0..n) \ T : x <= y
  <2> DEFINE S == (0..n) \ T
  <2>1. S \subseteq Nat
    OBVIOUS
  <2> HIDE DEF S
  <2>2. S # {}
    BY DEF S
  <2>3. \E x \in S : \A y \in S : x <= y
    BY <2>1, <2>2, MinNat
  <2> QED
    BY <2>3 DEF S
<1>2. x \in 1..n
  BY <1>1
<1>3. x - 1 \in 0..n /\ ~(x <= x - 1)
  BY <1>2
<1> QED
  BY <1>1, <1>2, <1>3

(* A function of an initial value and of a step from each argument to the  *)
(* next exists.                                                            *)
Steps(S, x, F, n) == {f \in [0..n -> S] : f[0] = x /\ \A i \in 1..n : f[i] = F[i][f[i - 1]]}

LEMMA Iteration ==
    ASSUME NEW S, NEW n \in Nat, NEW x \in S, NEW F \in [1..n -> [S -> S]]
    PROVE  Steps(S, x, F, n) # {}
<1> DEFINE T == {m \in 0..n : Steps(S, x, F, m) # {}}
<1>1. 0 \in T
  <2> DEFINE f == [i \in 0..0 |-> x]
  <2>1. f \in [0..0 -> S] /\ f[0] = x /\ 1..0 = {}
    OBVIOUS
  <2>2. f \in Steps(S, x, F, 0)
    BY <2>1 DEF Steps
  <2> QED
    BY <2>2
<1>2. ASSUME NEW m \in 1..n, m - 1 \in T
      PROVE  m \in T
  <2>1. PICK f : f \in Steps(S, x, F, m - 1)
    BY <1>2
  <2>2. /\ f \in [0..(m - 1) -> S] /\ f[0] = x
        /\ \A i \in 1..(m - 1) : f[i] = F[i][f[i - 1]]
    BY <2>1 DEF Steps
  <2> DEFINE g == [i \in 0..m |-> IF i = m THEN F[m][f[m - 1]] ELSE f[i]]
  <2>3. f[m - 1] \in S
    BY <2>2
  <2>4. F[m][f[m - 1]] \in S
    BY <2>3
  <2>5. g \in [0..m -> S]
    BY <2>2, <2>4
  <2>6. g[0] = x
    BY <2>2
  <2>7. ASSUME NEW i \in 1..m
        PROVE  g[i] = F[i][g[i - 1]]
    <3>1. CASE i = m
      <4>1. g[m - 1] = f[m - 1] /\ g[m] = F[m][f[m - 1]]
        OBVIOUS
      <4> QED
        BY <3>1, <4>1
    <3>2. CASE i # m
      <4>1. g[i - 1] = f[i - 1] /\ g[i] = f[i]
        BY <3>2
      <4> QED
        BY <2>2, <3>2, <4>1
    <3> QED
      BY <3>1, <3>2
  <2> HIDE DEF g
  <2>8. g \in Steps(S, x, F, m)
    BY <2>5, <2>6, <2>7 DEF Steps
  <2> QED
    BY <2>8
<1> HIDE DEF T
<1>3. 0..n \subseteq T
  BY <1>1, <1>2, UpTo
<1> QED
  BY <1>3 DEF T

(***************************************************************************)
(* The operations on a table.                                              *)
(***************************************************************************)
Entry == [handle : Handle, open : BOOLEAN]
Word == 0..(IF MAX_COUNT > GENERATION_LIMIT THEN MAX_COUNT ELSE GENERATION_LIMIT)

LEMMA Sizes ==
    /\ MAX_COUNT \in Nat /\ MAX_COUNT > 0 /\ GENERATION_LIMIT \in Nat
    /\ Remembered \in Nat /\ Remembered >= 2 /\ Generation = 1..Remembered
    /\ 0..MAX_COUNT \subseteq Word /\ Generation \subseteq Word
BY TableAssumption DEF Remembered, Generation, Word

LEMMA TableFields ==
    ASSUME NEW t \in Table
    PROVE  /\ t.objects \in [Slots -> KernelObjects \cup {NullObject}]
           /\ t.generations \in [Slots -> Word]
           /\ t.next_generation \in Generation /\ t.next_free_slot \in 0..MAX_COUNT
           /\ t.recent \in Seq(Entry)
BY DEF Table, Word, Generation, Entry

(* The latest handle is remembered, in place of the oldest if need be.     *)
LEMMA RememberProperties ==
    ASSUME NEW r \in Seq(Entry), Len(r) <= Remembered, NEW h \in Handle
    PROVE  \E d \in {0, 1} :
              /\ d = 1 <=> Len(r) = Remembered
              /\ Remember(r, h) \in Seq(Entry)
              /\ Len(Remember(r, h)) = Len(r) + 1 - d
              /\ \A i \in 1..(Len(r) + 1 - d) :
                    Remember(r, h)[i] = IF i = Len(r) + 1 - d THEN [handle |-> h, open |-> TRUE]
                                        ELSE r[i + d]
<1> DEFINE e == [handle |-> h, open |-> TRUE]
           longer == Append(r, e)
<1>1. /\ longer \in Seq(Entry) /\ Len(longer) = Len(r) + 1 /\ Len(r) \in Nat
      /\ \A i \in 1..Len(r) : longer[i] = r[i]
      /\ longer[Len(r) + 1] = e
  <2>1. e \in Entry
    BY DEF Entry
  <2> HIDE DEF e
  <2> QED
    BY <2>1, AppendProperties, LenProperties
<1>2. Remember(r, h) = IF Len(longer) > Remembered THEN Tail(longer) ELSE longer
  BY DEF Remember
<1> HIDE DEF longer, e
<1>3. CASE Len(r) = Remembered
  <2>1. longer # <<>> /\ Remember(r, h) = Tail(longer)
    BY <1>1, <1>2, <1>3, Sizes, EmptySeq
  <2>2. /\ Tail(longer) \in Seq(Entry) /\ Len(Tail(longer)) = Len(r)
        /\ \A i \in 1..Len(r) : Tail(longer)[i] = longer[i + 1]
    BY <1>1, <2>1, HeadTailProperties
  <2>3. \A i \in 1..Len(r) : longer[i + 1] = IF i = Len(r) THEN e ELSE r[i + 1]
    BY <1>1
  <2>4. Len(r) + 1 - 1 = Len(r)
    BY <1>1
  <2> WITNESS 1 \in {0, 1}
  <2> QED
    BY <1>1, <1>3, <2>1, <2>2, <2>3, <2>4 DEF e
<1>4. CASE Len(r) # Remembered
  <2>1. Remember(r, h) = longer
    BY <1>1, <1>2, <1>4, Sizes
  <2>2. \A i \in 1..(Len(r) + 1) : longer[i] = IF i = Len(r) + 1 THEN e ELSE r[i]
    BY <1>1
  <2>3. Len(r) + 1 - 0 = Len(r) + 1 /\ \A i \in Nat : i + 0 = i
    BY <1>1
  <2> WITNESS 0 \in {0, 1}
  <2> QED
    BY <1>1, <1>4, <2>1, <2>2, <2>3 DEF e
<1> QED
  BY <1>3, <1>4

(* How old a remembered handle is, in other words: whichever generation    *)
(* comes next, it is that of no handle remembered, but for the oldest when *)
(* all that can be are remembered.                                         *)
LEMMA NextIsNew ==
    ASSUME NEW g \in Generation, NEW len \in Nat, len <= Remembered, NEW i \in 1..len,
           NEW x \in Generation, x \in {g - (len + 1 - i), g - (len + 1 - i) + Remembered}
    PROVE  x = g => len = Remembered /\ i = 1
BY Sizes

LEMMA NextKeepsOrder ==
    ASSUME NEW g \in Generation, NEW age \in 1..(Remembered - 1),
           NEW x \in Generation, x \in {g - age, g - age + Remembered}
    PROVE  x \in {NextGeneration(g) - (age + 1), NextGeneration(g) - (age + 1) + Remembered}
<1>1. Remembered = GENERATION_LIMIT - 1 /\ GENERATION_LIMIT \in Nat
  BY Sizes DEF Remembered
<1>2. CASE g + 1 >= GENERATION_LIMIT
  <2>1. NextGeneration(g) = 1 /\ g = Remembered
    BY <1>1, <1>2, Sizes DEF NextGeneration
  <2> QED
    BY <2>1, Sizes
<1>3. CASE ~(g + 1 >= GENERATION_LIMIT)
  <2>1. NextGeneration(g) = g + 1
    BY <1>3 DEF NextGeneration
  <2> QED
    BY <2>1, Sizes
<1> QED
  BY <1>2, <1>3

LEMMA NextInSequence ==
    ASSUME NEW g \in Generation
    PROVE  /\ NextGeneration(g) \in Generation
           /\ g \in {NextGeneration(g) - 1, NextGeneration(g) - 1 + Remembered}
BY Sizes DEF NextGeneration, Remembered

(* Create takes the first slot of the list.                                *)
LEMMA CreatedChain ==
    ASSUME NEW t \in Table, Chained(t), ~Full(t), NEW object \in KernelObjects
    PROVE  /\ t.next_free_slot \in Slots /\ t.objects[t.next_free_slot] = NullObject
           /\ Created(t, object).next_free_slot \in 0..MAX_COUNT
           /\ Chained(Created(t, object))
<1> DEFINE c == Created(t, object)
           k == t.next_free_slot
           g == t.next_generation
<1>1. /\ t.objects \in [Slots -> KernelObjects \cup {NullObject}]
      /\ t.generations \in [Slots -> Word] /\ k \in 0..MAX_COUNT
  BY TableFields
<1>2. PICK n \in 0..MAX_COUNT : \E s \in [1..n -> Slots] : Chain(t, n, s)
  BY DEF Chained
<1>20. PICK s \in [1..n -> Slots] : Chain(t, n, s)
  BY <1>2
<1>3. n # 0 /\ k = s[1] /\ k \in Slots /\ n \in Nat
  <2>1. k < MAX_COUNT
    BY <1>1, Sizes DEF Full
  <2>2. n # 0 /\ k = s[1]
    BY <1>2, <1>20, <2>1, Sizes DEF Chain
  <2> QED
    BY <1>2, <1>20, <2>2
<1>4. t.objects[k] = NullObject
  BY <1>2, <1>20, <1>3 DEF Chain
<1>5. /\ c.objects = [t.objects EXCEPT ![k] = object]
      /\ c.generations = [t.generations EXCEPT ![k] = g]
      /\ c.next_free_slot = t.generations[k]
  BY DEF Created
<1> HIDE DEF c, g
<1>6. PICK m \in Nat : m = n - 1 /\ m \in 0..MAX_COUNT
  BY <1>3, Sizes
<1> DEFINE r == [i \in 1..m |-> s[i + 1]]
<1>7. \A i \in 1..m : i + 1 \in 1..n /\ r[i] = s[i + 1]
  BY <1>3, <1>6
<1>8. r \in [1..m -> Slots]
  BY <1>2, <1>20, <1>7
<1>9. \A i \in 1..m : r[i] # k
  <2>1. 1 \in 1..n /\ \A i \in 1..m : i + 1 \in 1..n /\ i + 1 # 1
    BY <1>3, <1>6
  <2> QED
    BY <1>3, <1>7, <1>20, <2>1 DEF Chain
<1> HIDE DEF r
<1>10. \A i, j \in 1..m : r[i] = r[j] => i = j
  <2> SUFFICES ASSUME NEW i \in 1..m, NEW j \in 1..m, r[i] = r[j]
               PROVE  i = j
    OBVIOUS
  <2>1. i + 1 = j + 1
    BY <1>2, <1>20, <1>7 DEF Chain
  <2> QED
    BY <2>1
<1>11. \A l \in Slots : c.objects[l] = NullObject <=> \E i \in 1..m : r[i] = l
  <2> SUFFICES ASSUME NEW l \in Slots
               PROVE  c.objects[l] = NullObject <=> \E i \in 1..m : r[i] = l
    OBVIOUS
  <2>1. CASE l = k
    <3>1. c.objects[l] # NullObject
      BY <1>1, <1>3, <1>5, <2>1, TableAssumption
    <3> QED
      BY <1>9, <2>1, <3>1
  <2>2. CASE l # k
    <3>1. c.objects[l] = t.objects[l]
      BY <1>1, <1>3, <1>5, <2>2
    <3>2. t.objects[l] = NullObject <=> \E i \in 1..n : s[i] = l
      BY <1>2, <1>20 DEF Chain
    <3>3. ASSUME NEW i \in 1..n, s[i] = l
          PROVE  \E j \in 1..m : r[j] = l
      <4>1. i # 1
        BY <1>3, <2>2, <3>3
      <4>2. i - 1 \in 1..m /\ (i - 1) + 1 = i
        BY <1>3, <1>6, <4>1
      <4>3. r[i - 1] = s[i]
        BY <1>7, <4>2
      <4> QED
        BY <3>3, <4>2, <4>3
    <3>4. ASSUME NEW j \in 1..m, r[j] = l
          PROVE  \E i \in 1..n : s[i] = l
      BY <1>7, <3>4
    <3> QED
      BY <3>1, <3>2, <3>3, <3>4
  <2> QED
    BY <2>1, <2>2
<1>12. c.next_free_slot = IF m = 0 THEN MAX_COUNT ELSE r[1]
  <2>1. t.generations[s[1]] = IF 1 = n THEN MAX_COUNT ELSE s[1 + 1]
    BY <1>2, <1>20, <1>3 DEF Chain
  <2>2. m # 0 => r[1] = s[1 + 1]
    BY <1>7
  <2> QED
    BY <1>3, <1>5, <1>6, <2>1, <2>2
<1>13. \A i \in 1..m : c.generations[r[i]] = IF i = m THEN MAX_COUNT ELSE r[i + 1]
  <2> SUFFICES ASSUME NEW i \in 1..m
               PROVE  c.generations[r[i]] = IF i = m THEN MAX_COUNT ELSE r[i + 1]
    OBVIOUS
  <2>1. c.generations[r[i]] = t.generations[s[i + 1]]
    BY <1>1, <1>3, <1>5, <1>7, <1>8, <1>9
  <2>2. t.generations[s[i + 1]] = IF i + 1 = n THEN MAX_COUNT ELSE s[(i + 1) + 1]
    BY <1>2, <1>20, <1>7 DEF Chain
  <2>3. i # m => i + 1 \in 1..m
    BY <1>6
  <2>4. i + 1 = n <=> i = m
    BY <1>3, <1>6
  <2> QED
    BY <1>7, <2>1, <2>2, <2>3, <2>4
<1>14. Chain(c, m, r)
  BY <1>10, <1>11, <1>12, <1>13 DEF Chain
<1>15. Chained(c)
  BY <1>6, <1>8, <1>14 DEF Chained
<1>16. c.next_free_slot \in 0..MAX_COUNT
  BY <1>6, <1>8, <1>12, Sizes DEF Slots
<1> QED
  BY <1>3, <1>4, <1>15, <1>16 DEF c

LEMMA CreatedInv ==
    ASSUME NEW t, TableInv(t), ~Full(t), NEW object \in KernelObjects
    PROVE  TableInv(Created(t, object))
<1> DEFINE c == Created(t, object)
           k == t.next_free_slot
           g == t.next_generation
           h == NewHandle(t)
           len == Len(t.recent)
<1>1. /\ t \in Table /\ Chained(t) /\ Issued(t) /\ InSequence(t) /\ StaleInvalid(t)
      /\ t.objects \in [Slots -> KernelObjects \cup {NullObject}]
      /\ t.generations \in [Slots -> Word]
      /\ g \in Generation /\ t.recent \in Seq(Entry) /\ len \in Nat
  BY TableFields, LenProperties DEF TableInv
<1>2. /\ k \in Slots /\ t.objects[k] = NullObject
      /\ c.next_free_slot \in 0..MAX_COUNT /\ Chained(c)
  BY <1>1, CreatedChain
<1>3. /\ c.objects = [t.objects EXCEPT ![k] = object]
      /\ c.generations = [t.generations EXCEPT ![k] = g]
      /\ c.next_generation = NextGeneration(g)
      /\ c.recent = Remember(t.recent, h)
      /\ c = [objects |-> c.objects, generations |-> c.generations, next_generation |-> c.next_generation,
              next_free_slot |-> c.next_free_slot, recent |-> c.recent]
  BY DEF Created
<1>4. h \in Handle /\ h.slot = k /\ h.generation = g
  BY <1>1, <1>2, Sizes DEF NewHandle, Handle, Generation
<1> HIDE DEF c, g, h, k
<1>5. len <= Remembered
  BY <1>1 DEF InSequence
<1>6. PICK d \in {0, 1} :
        /\ d = 1 <=> len = Remembered
        /\ c.recent \in Seq(Entry) /\ Len(c.recent) = len + 1 - d
        /\ \A i \in 1..(len + 1 - d) :
              c.recent[i] = IF i = len + 1 - d THEN [handle |-> h, open |-> TRUE] ELSE t.recent[i + d]
  <2>1. t.recent \in Seq(Entry) /\ Len(t.recent) <= Remembered
    BY <1>1, <1>5
  <2> QED
    BY <1>3, <1>4, <2>1, RememberProperties
<1>7. \A i \in 1..len :
        /\ t.recent[i].handle.generation \in Generation
        /\ t.recent[i].handle.generation \in {g - (len + 1 - i), g - (len + 1 - i) + Remembered}
  BY <1>1 DEF InSequence, g
<1> HIDE DEF len
<1>8. \A i \in 1..(len + 1 - d) : i # len + 1 - d => i + d \in 1..len /\ i + d # d
  BY <1>1, <1>6
<1>9. InSequence(c)
  <2>1. Len(c.recent) <= Remembered
    BY <1>1, <1>5, <1>6, Sizes
  <2>2. ASSUME NEW i \in 1..(len + 1 - d)
        PROVE  /\ c.recent[i].handle.generation \in Generation
               /\ c.recent[i].handle.generation \in
                    {NextGeneration(g) - ((len + 1 - d) + 1 - i),
                     NextGeneration(g) - ((len + 1 - d) + 1 - i) + Remembered}
    <3>1. CASE i = len + 1 - d
      <4>1. c.recent[i].handle.generation = g
        BY <1>4, <1>6, <3>1
      <4>2. NextGeneration(g) \in Generation
            /\ g \in {NextGeneration(g) - 1, NextGeneration(g) - 1 + Remembered}
        BY <1>1, NextInSequence
      <4>3. (len + 1 - d) + 1 - i = 1
        BY <1>1, <3>1
      <4> QED
        BY <1>1, <4>1, <4>2, <4>3
    <3>2. CASE i # len + 1 - d
      <4>1. PICK x : x = t.recent[i + d].handle.generation
        OBVIOUS
      <4>2. x \in Generation /\ x \in {g - (len + 1 - (i + d)), g - (len + 1 - (i + d)) + Remembered}
        BY <1>7, <1>8, <3>2, <4>1
      <4>3. c.recent[i].handle.generation = x
        BY <1>6, <3>2, <4>1
      <4>4. g \in Generation /\ len \in Nat
        BY <1>1
      <4>5. d = 1 <=> len = Remembered
        BY <1>6
      <4>6. PICK age : age = len + 1 - (i + d)
        OBVIOUS
      <4>7. age \in 1..(Remembered - 1) /\ age + 1 = (len + 1 - d) + 1 - i
        BY <1>5, <3>2, <4>4, <4>5, <4>6, Sizes
      <4>8. x \in {NextGeneration(g) - (age + 1), NextGeneration(g) - (age + 1) + Remembered}
        BY <4>2, <4>4, <4>6, <4>7, NextKeepsOrder
      <4> QED
        BY <4>2, <4>3, <4>7, <4>8
    <3> QED
      BY <3>1, <3>2
  <2> QED
    BY <1>3, <1>6, <2>1, <2>2 DEF InSequence
<1>10. Issued(c)
  BY <1>1, <1>2, <1>3 DEF Issued
<1>11. StaleInvalid(c)
  <2> SUFFICES ASSUME NEW i \in 1..(len + 1 - d), ~c.recent[i].open
               PROVE  ~IsValid(c, c.recent[i].handle)
    BY <1>6 DEF StaleInvalid
  <2>1. i # len + 1 - d
    BY <1>6
  <2>2. i + d \in 1..len /\ c.recent[i] = t.recent[i + d]
    BY <1>6, <1>8, <2>1
  <2>3. PICK f : f = t.recent[i + d].handle
    OBVIOUS
  <2>4. ~IsValid(t, f)
    BY <1>1, <2>2, <2>3 DEF StaleInvalid, len
  <2>5. CASE f.slot = k
    <3>1. f.generation # g
      <4>1. PICK j \in 1..len : j = i + d
        BY <2>2
      <4>2. PICK x : x = f.generation
        OBVIOUS
      <4>3. x \in Generation /\ x \in {g - (len + 1 - j), g - (len + 1 - j) + Remembered}
        BY <1>7, <2>3, <4>1, <4>2
      <4>4. g \in Generation /\ len \in Nat
        BY <1>1
      <4>5. x = g => len = Remembered /\ j = 1
        BY <1>5, <4>3, <4>4, NextIsNew
      <4>6. d = 1 => j # 1
        BY <2>1, <4>1
      <4> QED
        BY <1>6, <4>2, <4>5, <4>6
    <3>2. c.generations[k] = g
      BY <1>1, <1>2, <1>3
    <3> QED
      BY <2>2, <2>3, <2>5, <3>1, <3>2 DEF IsValid
  <2>6. CASE f.slot # k
    <3>1. f.slot \in Slots => c.objects[f.slot] = t.objects[f.slot]
                              /\ c.generations[f.slot] = t.generations[f.slot]
      BY <1>1, <1>2, <1>3, <2>6
    <3> QED
      BY <2>2, <2>3, <2>4, <3>1 DEF IsValid
  <2> QED
    BY <2>5, <2>6
<1>12. c \in Table
  <2>1. c.objects \in [Slots -> KernelObjects \cup {NullObject}]
    BY <1>1, <1>2, <1>3
  <2>2. c.generations \in [Slots -> Word]
    BY <1>1, <1>2, <1>3, Sizes
  <2>3. c.next_generation \in Generation
    BY <1>1, <1>3, NextInSequence
  <2> QED
    BY <1>2, <1>3, <1>6, <2>1, <2>2, <2>3 DEF Table, Word, Generation, Entry
<1> QED
  BY <1>2, <1>9, <1>10, <1>11, <1>12 DEF TableInv, c

(***************************************************************************)
(* Close puts the slot in front of the list.                               *)
(***************************************************************************)
LEMMA SomeSlotInUse ==
    ASSUME NEW n \in 0..MAX_COUNT, NEW s \in [1..n -> Slots], NEW k \in Slots,
           \A i, j \in 1..n : s[i] = s[j] => i = j,
           \A i \in 1..n : s[i] # k
    PROVE  n < MAX_COUNT
<1>1. IsFiniteSet(Slots) /\ Cardinality(Slots) = MAX_COUNT
  BY Sizes, FS_Interval DEF Slots
<1>2. IsFiniteSet(Slots \ {k}) /\ Cardinality(Slots \ {k}) = MAX_COUNT - 1
  BY <1>1, FS_RemoveElement
<1>3. n \in Nat /\ Cardinality(1..n) = n
  BY Sizes, FS_Interval
<1>4. s \in Injection(1..n, Slots \ {k})
  BY DEF Injection, IsInjective
<1>5. Cardinality(1..n) <= Cardinality(Slots \ {k})
  BY <1>2, <1>4, FS_Injection
<1> QED
  BY <1>2, <1>3, <1>5, Sizes

LEMMA ForgetProperties ==
    ASSUME NEW r \in Seq(Entry), NEW h
    PROVE  /\ Forget(r, h) \in Seq(Entry) /\ Len(Forget(r, h)) = Len(r)
           /\ \A i \in 1..Len(r) :
                 /\ Forget(r, h)[i].handle = r[i].handle
                 /\ ~Forget(r, h)[i].open => r[i].handle = h \/ ~r[i].open
<1> DEFINE one(e) == IF e.handle = h THEN [e EXCEPT !.open = FALSE] ELSE e
<1>1. ASSUME NEW e \in Entry
      PROVE  one(e) \in Entry /\ one(e).handle = e.handle /\ (~one(e).open => e.handle = h \/ ~e.open)
  BY DEF Entry
<1>2. Len(r) \in Nat /\ \A i \in 1..Len(r) : r[i] \in Entry
  BY LenProperties, ElementOfSeq
<1>3. Forget(r, h) = [i \in 1..Len(r) |-> one(r[i])]
  BY DEF Forget
<1> HIDE DEF one
<1>4. Forget(r, h) \in [1..Len(r) -> Entry]
  BY <1>1, <1>2, <1>3
<1>5. Forget(r, h) \in Seq(Entry) /\ Len(Forget(r, h)) = Len(r)
  BY <1>2, <1>4, SeqDef, LenProperties
<1>6. \A i \in 1..Len(r) : Forget(r, h)[i] = one(r[i])
  BY <1>3
<1> QED
  BY <1>1, <1>2, <1>5, <1>6

LEMMA ClosedFields ==
    ASSUME NEW t \in Table, NEW h
    PROVE  LET c == Closed(t, h) IN
           /\ c.objects = [t.objects EXCEPT ![h.slot] = NullObject]
           /\ c.generations = [t.generations EXCEPT ![h.slot] = t.next_free_slot]
           /\ c.next_generation = t.next_generation
           /\ c.next_free_slot = h.slot
           /\ c.recent = Forget(t.recent, h)
           /\ c = [objects |-> c.objects, generations |-> c.generations, next_generation |-> c.next_generation,
                   next_free_slot |-> c.next_free_slot, recent |-> c.recent]
<1> DEFINE c == Closed(t, h)
<1>1. PICK o, g, n, f, r :
        t = [objects |-> o, generations |-> g, next_generation |-> n, next_free_slot |-> f, recent |-> r]
  BY DEF Table
<1>2. t.objects = o /\ t.generations = g /\ t.next_generation = n /\ t.next_free_slot = f /\ t.recent = r
  BY <1>1
<1>3. PICK k, q, l, m : k = h.slot /\ q = [o EXCEPT ![k] = NullObject] /\ l = [g EXCEPT ![k] = f]
                        /\ m = Forget(r, h)
  OBVIOUS
<1>4. LinkFree(t, h) = l
  BY <1>2, <1>3 DEF LinkFree
<1>5. c = [t EXCEPT !.objects[k] = NullObject, !.generations = l, !.next_free_slot = k, !.recent = m]
  BY <1>2, <1>3, <1>4 DEF Closed
<1>6. c = [objects |-> q, generations |-> l, next_generation |-> n, next_free_slot |-> k, recent |-> m]
  <2>1. [t EXCEPT !.objects[k] = NullObject] =
        [objects |-> q, generations |-> g, next_generation |-> n, next_free_slot |-> f, recent |-> r]
    BY <1>1, <1>3
  <2>2. PICK u : u = [t EXCEPT !.objects[k] = NullObject]
    OBVIOUS
  <2>3. c = [u EXCEPT !.generations = l, !.next_free_slot = k, !.recent = m]
    BY <1>5, <2>2
  <2> HIDE DEF c
  <2> QED
    BY <2>1, <2>2, <2>3
<1> HIDE DEF c
<1>7. /\ c.objects = q /\ c.generations = l /\ c.next_generation = n
      /\ c.next_free_slot = k /\ c.recent = m
  BY <1>6
<1> QED
  BY <1>2, <1>3, <1>6, <1>7 DEF c

LEMMA ClosedChain ==
    ASSUME NEW t \in Table, Chained(t), NEW h, IsValid(t, h)
    PROVE  Chained(Closed(t, h))
<1> DEFINE c == Closed(t, h)
<1>1. PICK k : k = h.slot
  OBVIOUS
<1>2. /\ t.objects \in [Slots -> KernelObjects \cup {NullObject}]
      /\ t.generations \in [Slots -> Word] /\ k \in Slots /\ t.objects[k] # NullObject
  BY <1>1, TableFields DEF IsValid
<1>3. PICK n \in 0..MAX_COUNT : \E s \in [1..n -> Slots] : Chain(t, n, s)
  BY DEF Chained
<1>4. PICK s \in [1..n -> Slots] : Chain(t, n, s)
  BY <1>3
<1>5. \A i \in 1..n : s[i] # k
  BY <1>2, <1>4 DEF Chain
<1>6. n < MAX_COUNT
  BY <1>2, <1>4, <1>5, SomeSlotInUse DEF Chain
<1>7. PICK m \in 0..MAX_COUNT : m = n + 1
  BY <1>6, Sizes
<1>8. /\ c.objects = [t.objects EXCEPT ![k] = NullObject]
      /\ c.generations = [t.generations EXCEPT ![k] = t.next_free_slot]
      /\ c.next_free_slot = k
  BY <1>1, ClosedFields
<1> HIDE DEF c
<1> DEFINE r == [i \in 1..m |-> IF i = 1 THEN k ELSE s[i - 1]]
<1>9. \A i \in 1..n : i \in Nat /\ i + 1 \in 1..m /\ i + 1 # 1 /\ (i + 1) - 1 = i
  BY <1>7
<1>10. /\ 1 \in 1..m /\ r[1] = k
       /\ \A i \in 1..m : i # 1 => i - 1 \in 1..n /\ r[i] = s[i - 1]
       /\ \A i \in 1..n : r[i + 1] = s[i]
  BY <1>7, <1>9
<1>11. r \in [1..m -> Slots]
  BY <1>2, <1>7
<1> HIDE DEF r
<1>12. \A i, j \in 1..m : r[i] = r[j] => i = j
  <2> SUFFICES ASSUME NEW i \in 1..m, NEW j \in 1..m, r[i] = r[j]
               PROVE  i = j
    OBVIOUS
  <2>1. i = 1 <=> j = 1
    BY <1>5, <1>10
  <2>2. i # 1 => i - 1 = j - 1
    BY <1>4, <1>10, <2>1 DEF Chain
  <2> QED
    BY <2>1, <2>2
<1>13. \A l \in Slots : c.objects[l] = NullObject <=> \E i \in 1..m : r[i] = l
  <2> SUFFICES ASSUME NEW l \in Slots
               PROVE  c.objects[l] = NullObject <=> \E i \in 1..m : r[i] = l
    OBVIOUS
  <2>1. CASE l = k
    BY <1>2, <1>8, <1>10, <2>1
  <2>2. CASE l # k
    <3>1. c.objects[l] = t.objects[l]
      BY <1>2, <1>8, <2>2
    <3>2. t.objects[l] = NullObject <=> \E i \in 1..n : s[i] = l
      BY <1>4 DEF Chain
    <3>3. (\E i \in 1..n : s[i] = l) => \E i \in 1..m : r[i] = l
      BY <1>9, <1>10
    <3>4. (\E i \in 1..m : r[i] = l) => \E i \in 1..n : s[i] = l
      BY <1>10, <2>2
    <3> QED
      BY <3>1, <3>2, <3>3, <3>4
  <2> QED
    BY <2>1, <2>2
<1>14. \A i \in 1..m : c.generations[r[i]] = IF i = m THEN MAX_COUNT ELSE r[i + 1]
  <2> SUFFICES ASSUME NEW i \in 1..m
               PROVE  c.generations[r[i]] = IF i = m THEN MAX_COUNT ELSE r[i + 1]
    OBVIOUS
  <2>1. CASE i = 1
    <3>1. c.generations[r[i]] = t.next_free_slot
      BY <1>2, <1>8, <1>10, <2>1
    <3>2. t.next_free_slot = IF n = 0 THEN MAX_COUNT ELSE s[1]
      BY <1>4 DEF Chain
    <3>3. n # 0 => 1 \in 1..n
      BY <1>3, Sizes
    <3> QED
      BY <1>7, <1>10, <2>1, <3>1, <3>2, <3>3
  <2>2. CASE i # 1
    <3>1. PICK j \in 1..n : j = i - 1 /\ r[i] = s[j]
      BY <1>10, <2>2
    <3>2. c.generations[r[i]] = t.generations[s[j]]
      BY <1>2, <1>5, <1>8, <3>1
    <3>3. t.generations[s[j]] = IF j = n THEN MAX_COUNT ELSE s[j + 1]
      BY <1>4 DEF Chain
    <3>4. j = n <=> i = m
      BY <1>7, <3>1
    <3>5. j # n => j + 1 \in 1..n /\ r[i + 1] = s[j + 1]
      <4>1. j # n => j + 1 \in 1..n /\ i = j + 1
        BY <3>1
      <4> QED
        BY <1>10, <4>1
    <3> QED
      BY <3>2, <3>3, <3>4, <3>5
  <2> QED
    BY <2>1, <2>2
<1>15. c.next_free_slot = IF m = 0 THEN MAX_COUNT ELSE r[1]
  BY <1>7, <1>8, <1>10
<1>16. Chain(c, m, r)
  BY <1>12, <1>13, <1>14, <1>15 DEF Chain
<1> QED
  BY <1>11, <1>16 DEF Chained, c

LEMMA ClosedInv ==
    ASSUME NEW t, TableInv(t), NEW h, IsValid(t, h)
    PROVE  TableInv(Closed(t, h))
<1> DEFINE c == Closed(t, h)
<1>1. PICK k : k = h.slot
  OBVIOUS
<1>2. /\ t \in Table /\ Chained(t) /\ Issued(t) /\ InSequence(t) /\ StaleInvalid(t)
      /\ t.objects \in [Slots -> KernelObjects \cup {NullObject}]
      /\ t.generations \in [Slots -> Word] /\ t.next_free_slot \in 0..MAX_COUNT
      /\ t.next_generation \in Generation /\ t.recent \in Seq(Entry)
  BY TableFields DEF TableInv
<1>3. k \in Slots /\ t.objects[k] # NullObject
  BY <1>1 DEF IsValid
<1>4. /\ c.objects = [t.objects EXCEPT ![k] = NullObject]
      /\ c.generations = [t.generations EXCEPT ![k] = t.next_free_slot]
      /\ c.next_generation = t.next_generation
      /\ c.next_free_slot = k
      /\ c.recent = Forget(t.recent, h)
      /\ c = [objects |-> c.objects, generations |-> c.generations, next_generation |-> c.next_generation,
              next_free_slot |-> c.next_free_slot, recent |-> c.recent]
  BY <1>1, <1>2, ClosedFields
<1>5. Chained(c)
  BY <1>2, ClosedChain
<1> HIDE DEF c
<1>6. /\ c.recent \in Seq(Entry) /\ Len(c.recent) = Len(t.recent)
      /\ \A i \in 1..Len(t.recent) :
            /\ c.recent[i].handle = t.recent[i].handle
            /\ ~c.recent[i].open => t.recent[i].handle = h \/ ~t.recent[i].open
  BY <1>2, <1>4, ForgetProperties
<1>7. Issued(c)
  BY <1>2, <1>3, <1>4 DEF Issued
<1>8. InSequence(c)
  BY <1>2, <1>4, <1>6 DEF InSequence
<1>9. StaleInvalid(c)
  <2> SUFFICES ASSUME NEW i \in 1..Len(t.recent), ~c.recent[i].open
               PROVE  ~IsValid(c, c.recent[i].handle)
    BY <1>6 DEF StaleInvalid
  <2>1. PICK f : f = t.recent[i].handle /\ c.recent[i].handle = f
    BY <1>6
  <2>2. f = h \/ ~IsValid(t, f)
    BY <1>2, <1>6, <2>1 DEF StaleInvalid
  <2>3. f.slot = k => ~IsValid(c, f)
    BY <1>2, <1>3, <1>4 DEF IsValid
  <2>4. f.slot # k /\ f.slot \in Slots =>
            c.objects[f.slot] = t.objects[f.slot] /\ c.generations[f.slot] = t.generations[f.slot]
    BY <1>2, <1>3, <1>4
  <2> QED
    BY <1>1, <2>1, <2>2, <2>3, <2>4 DEF IsValid
<1>10. c \in Table
  <2>1. c.objects \in [Slots -> KernelObjects \cup {NullObject}]
    BY <1>2, <1>3, <1>4
  <2>2. c.generations \in [Slots -> Word]
    BY <1>2, <1>3, <1>4, Sizes
  <2>3. c.next_free_slot \in 0..MAX_COUNT
    BY <1>3, <1>4, Sizes DEF Slots
  <2> QED
    BY <1>2, <1>4, <1>6, <2>1, <2>2, <2>3 DEF Table, Word, Generation, Entry
<1> QED
  BY <1>5, <1>7, <1>8, <1>9, <1>10 DEF TableInv, c

LEMMA EmptyTableInv == TableInv(EmptyTable)
<1> DEFINE e == EmptyTable
<1>1. /\ e.objects = [i \in Slots |-> NullObject] /\ e.generations = [i \in Slots |-> i + 1]
      /\ e.next_generation = 1 /\ e.next_free_slot = 0 /\ e.recent = <<>>
      /\ e = [objects |-> e.objects, generations |-> e.generations, next_generation |-> e.next_generation,
              next_free_slot |-> e.next_free_slot, recent |-> e.recent]
  BY DEF EmptyTable
<1> HIDE DEF e
<1>2. Len(e.recent) = 0 /\ e.recent \in Seq(Entry)
  BY <1>1, EmptySeq
<1>3. Chained(e)
  <2> DEFINE s == [i \in 1..MAX_COUNT |-> i - 1]
  <2>1. MAX_COUNT \in 0..MAX_COUNT /\ MAX_COUNT # 0 /\ 1 \in 1..MAX_COUNT
    BY Sizes
  <2>2. s \in [1..MAX_COUNT -> Slots]
    BY Sizes DEF Slots
  <2>3. \A i, j \in 1..MAX_COUNT : s[i] = s[j] => i = j
    BY Sizes
  <2>4. \A k \in Slots : e.objects[k] = NullObject /\ \E i \in 1..MAX_COUNT : s[i] = k
    <3> SUFFICES ASSUME NEW k \in Slots
                 PROVE  e.objects[k] = NullObject /\ \E i \in 1..MAX_COUNT : s[i] = k
      OBVIOUS
    <3>1. k + 1 \in 1..MAX_COUNT /\ (k + 1) - 1 = k
      BY Sizes DEF Slots
    <3>2. s[k + 1] = k
      BY <3>1
    <3> QED
      BY <1>1, <3>1, <3>2
  <2>5. e.next_free_slot = s[1]
    BY <1>1, <2>1
  <2>6. \A i \in 1..MAX_COUNT : e.generations[s[i]] = IF i = MAX_COUNT THEN MAX_COUNT ELSE s[i + 1]
    <3> SUFFICES ASSUME NEW i \in 1..MAX_COUNT
                 PROVE  e.generations[s[i]] = IF i = MAX_COUNT THEN MAX_COUNT ELSE s[i + 1]
      OBVIOUS
    <3>1. i - 1 \in Slots /\ (i - 1) + 1 = i /\ s[i] = i - 1
      BY Sizes DEF Slots
    <3>2. e.generations[s[i]] = i
      BY <1>1, <3>1
    <3>3. i # MAX_COUNT => s[i + 1] = i
      BY Sizes
    <3> QED
      BY <3>2, <3>3
  <2> HIDE DEF s
  <2>7. Chain(e, MAX_COUNT, s)
    BY <2>1, <2>3, <2>4, <2>5, <2>6 DEF Chain
  <2> QED
    BY <2>1, <2>2, <2>7 DEF Chained
<1>4. e \in Table
  <2>1. e.generations \in [Slots -> Word]
    BY <1>1, Sizes DEF Slots
  <2>2. e.objects \in [Slots -> KernelObjects \cup {NullObject}] /\ e.next_generation \in Generation
    BY <1>1, Sizes
  <2>3. e.next_free_slot \in 0..MAX_COUNT
    BY <1>1, Sizes
  <2> QED
    BY <1>1, <1>2, <2>1, <2>2, <2>3 DEF Table, Word, Generation, Entry
<1>5. Issued(e) /\ InSequence(e) /\ StaleInvalid(e)
  BY <1>1, <1>2, Sizes DEF Issued, InSequence, StaleInvalid
<1> QED
  BY <1>3, <1>4, <1>5 DEF TableInv, e

(***************************************************************************)
(* The list of empty slots is what the invariant calls s[1], ..., s[n].    *)
(***************************************************************************)
Following(t, f) ==
    [i \in 0..MAX_COUNT |->
        IF i = 0 THEN t.next_free_slot
        ELSE IF f[i - 1] \in Slots THEN t.generations[f[i - 1]] ELSE MAX_COUNT]

LEMMA FreeListOfChain ==
    ASSUME NEW t \in Table, NEW n \in 0..MAX_COUNT, NEW s \in [1..n -> Slots], Chain(t, n, s)
    PROVE  FreeList(t) = [i \in 1..n |-> s[i]]
<1> DEFINE f == [i \in 0..MAX_COUNT |-> IF i < n THEN s[i + 1] ELSE MAX_COUNT]
           next == CHOOSE g : g = Following(t, g)
<1>1. n \in Nat /\ n <= MAX_COUNT /\ MAX_COUNT \notin Slots /\ MAX_COUNT \in Nat
  BY Sizes DEF Slots
<1>2. \A i \in 0..MAX_COUNT : i < n => i + 1 \in 1..n
  BY <1>1
<1>3. \A i \in 0..MAX_COUNT : f[i] = IF i < n THEN s[i + 1] ELSE MAX_COUNT
  OBVIOUS
<1>4. f = [i \in 0..MAX_COUNT |-> f[i]]
  OBVIOUS
<1> HIDE DEF f
<1>5. \A i \in 0..MAX_COUNT : f[i] \in Slots <=> i < n
  BY <1>1, <1>2, <1>3
<1>6. ASSUME NEW i \in 1..MAX_COUNT
      PROVE  f[i] = IF f[i - 1] \in Slots THEN t.generations[f[i - 1]] ELSE MAX_COUNT
  <2>1. i \in 0..MAX_COUNT /\ i - 1 \in 0..MAX_COUNT /\ (i - 1) + 1 = i
    BY <1>1
  <2>2. CASE i - 1 < n
    <3>1. i \in 1..n /\ f[i - 1] = s[i]
      BY <1>1, <1>3, <2>1, <2>2
    <3>2. t.generations[s[i]] = IF i = n THEN MAX_COUNT ELSE s[i + 1]
      BY <3>1 DEF Chain
    <3>3. i = n <=> ~(i < n)
      BY <1>1, <2>1, <2>2
    <3> QED
      BY <1>3, <1>5, <2>1, <2>2, <3>1, <3>2, <3>3
  <2>3. CASE ~(i - 1 < n)
    BY <1>1, <1>3, <1>5, <2>1, <2>3
  <2> QED
    BY <2>2, <2>3
<1>7. f[0] = t.next_free_slot
  BY <1>1, <1>3 DEF Chain
<1>8. f = Following(t, f)
  <2>1. \A i \in 0..MAX_COUNT : i # 0 => i \in 1..MAX_COUNT
    BY <1>1
  <2> QED
    BY <1>4, <1>6, <1>7, <2>1 DEF Following
<1>9. next = Following(t, next)
  BY <1>8
<1>10. FreeList(t) = [i \in 1..Cardinality({j \in Slots : next[j] \in Slots}) |-> next[i - 1]]
  BY DEF FreeList, Following
<1> HIDE DEF next
<1>11. /\ next[0] = t.next_free_slot
       /\ \A i \in 1..MAX_COUNT :
             next[i] = IF next[i - 1] \in Slots THEN t.generations[next[i - 1]] ELSE MAX_COUNT
  <2>1. 0 \in 0..MAX_COUNT /\ \A i \in 1..MAX_COUNT : i \in 0..MAX_COUNT /\ i # 0
    BY <1>1
  <2> QED
    BY <1>9, <2>1 DEF Following
<1>12. \A i \in 0..MAX_COUNT : next[i] = f[i]
  <2> DEFINE T == {i \in 0..MAX_COUNT : next[i] = f[i]}
  <2>1. 0 \in T
    BY <1>1, <1>7, <1>11
  <2>2. ASSUME NEW i \in 1..MAX_COUNT, i - 1 \in T
        PROVE  i \in T
    <3>1. i \in 0..MAX_COUNT
      BY <1>1
    <3> QED
      BY <1>6, <1>11, <2>2, <3>1
  <2> HIDE DEF T
  <2>3. 0..MAX_COUNT \subseteq T
    BY <1>1, <2>1, <2>2, UpTo
  <2> QED
    BY <2>3 DEF T
<1>13. {j \in Slots : next[j] \in Slots} = 0..(n - 1)
  <2>1. \A j \in Slots : j \in 0..MAX_COUNT
    BY <1>1 DEF Slots
  <2>2. \A j \in 0..(n - 1) : j \in Slots /\ j < n
    BY <1>1 DEF Slots
  <2>3. \A j \in Slots : j < n => j \in 0..(n - 1)
    BY <1>1 DEF Slots
  <2> QED
    BY <1>5, <1>12, <2>1, <2>2, <2>3
<1>14. Cardinality(0..(n - 1)) = n
  <2>1. n - 1 \in Int /\ 0 \in Int
    BY <1>1
  <2>2. Cardinality(0..(n - 1)) = IF 0 > n - 1 THEN 0 ELSE (n - 1) - 0 + 1
    BY <2>1, FS_Interval
  <2> QED
    BY <1>1, <2>2
<1>15. \A i \in 1..n : next[i - 1] = s[i]
  <2>1. \A i \in 1..n : i - 1 \in 0..MAX_COUNT /\ i - 1 < n /\ (i - 1) + 1 = i
    BY <1>1
  <2> QED
    BY <1>3, <1>12, <2>1
<1> QED
  BY <1>10, <1>13, <1>14, <1>15

LEMMA FreeListSound ==
    ASSUME NEW t, TableInv(t)
    PROVE  LET free == FreeList(t) IN
           /\ {free[i] : i \in 1..Len(free)} = {i \in Slots : t.objects[i] = NullObject}
           /\ \A i, j \in 1..Len(free) : i # j => free[i] # free[j]
<1>1. t \in Table
  BY DEF TableInv
<1>2. PICK n \in 0..MAX_COUNT : \E s \in [1..n -> Slots] : Chain(t, n, s)
  BY DEF TableInv, Chained
<1>3. PICK s \in [1..n -> Slots] : Chain(t, n, s)
  BY <1>2
<1>4. PICK free : free = FreeList(t)
  OBVIOUS
<1>5. free = [i \in 1..n |-> s[i]]
  BY <1>1, <1>3, <1>4, FreeListOfChain
<1>6. Len(free) = n /\ \A i \in 1..n : free[i] = s[i]
  <2>1. n \in Nat /\ free \in [1..n -> Slots]
    BY <1>5, Sizes
  <2>2. free \in Seq(Slots)
    BY <2>1, SeqDef
  <2> QED
    BY <1>5, <2>1, <2>2, LenProperties
<1>7. {free[i] : i \in 1..n} = {i \in Slots : t.objects[i] = NullObject}
  BY <1>3, <1>6 DEF Chain
<1>8. \A i, j \in 1..n : i # j => free[i] # free[j]
  BY <1>3, <1>6 DEF Chain
<1> QED
  BY <1>4, <1>6, <1>7, <1>8

(***************************************************************************)
(* What handles name.                                                      *)
(***************************************************************************)
(* Every valid handle of table t names the same object in table u.         *)
Keeps(t, u) == \A h \in Handle : IsValid(t, h) => GetGeneric(u, h) = GetGeneric(t, h)

LEMMA NamesObject ==
    ASSUME NEW t \in Table, NEW h
    PROVE  /\ GetGeneric(t, h) \in KernelObjects \cup {NullObject}
           /\ IsValid(t, h) <=> GetGeneric(t, h) # NullObject
           /\ IsValid(t, h) => GetGeneric(t, h) \in KernelObjects
<1>1. t.objects \in [Slots -> KernelObjects \cup {NullObject}]
  BY TableFields
<1> QED
  BY <1>1, TableAssumption DEF GetGeneric, IsValid

LEMMA KeepsTransitive ==
    ASSUME NEW t \in Table, NEW u \in Table, NEW v, Keeps(t, u), Keeps(u, v)
    PROVE  Keeps(t, v)
<1> SUFFICES ASSUME NEW h \in Handle, IsValid(t, h)
             PROVE  GetGeneric(v, h) = GetGeneric(t, h)
  BY DEF Keeps
<1>1. GetGeneric(u, h) = GetGeneric(t, h)
  BY DEF Keeps
<1>2. IsValid(u, h)
  BY <1>1, NamesObject
<1> QED
  BY <1>1, <1>2 DEF Keeps

(* The handle that Create returns names the object, in a slot of its own.  *)
LEMMA CreatedKeeps ==
    ASSUME NEW t, TableInv(t), ~Full(t), NEW object \in KernelObjects
    PROVE  /\ Keeps(t, Created(t, object))
           /\ NewHandle(t) \in Handle
           /\ GetGeneric(Created(t, object), NewHandle(t)) = object
<1> DEFINE c == Created(t, object)
           k == t.next_free_slot
           g == t.next_generation
<1>1. /\ t.objects \in [Slots -> KernelObjects \cup {NullObject}]
      /\ t.generations \in [Slots -> Word] /\ g \in Generation
  BY TableFields DEF TableInv
<1>2. k \in Slots /\ t.objects[k] = NullObject
  BY CreatedChain DEF TableInv
<1>3. /\ c.objects = [t.objects EXCEPT ![k] = object]
      /\ c.generations = [t.generations EXCEPT ![k] = g]
  BY DEF Created
<1>4. NewHandle(t) \in Handle /\ NewHandle(t).slot = k /\ NewHandle(t).generation = g
  BY <1>1, <1>2, Sizes DEF NewHandle, Handle, Generation
<1> HIDE DEF c, g, k
<1>5. object # NullObject
  BY TableAssumption
<1>6. GetGeneric(c, NewHandle(t)) = object
  BY <1>1, <1>2, <1>3, <1>4, <1>5 DEF GetGeneric, IsValid
<1>7. ASSUME NEW h \in Handle, IsValid(t, h)
      PROVE  GetGeneric(c, h) = GetGeneric(t, h)
  <2>1. h.slot \in Slots /\ h.slot # k
    BY <1>2, <1>7 DEF IsValid
  <2>2. c.objects[h.slot] = t.objects[h.slot] /\ c.generations[h.slot] = t.generations[h.slot]
    BY <1>1, <1>2, <1>3, <2>1
  <2> QED
    BY <1>7, <2>2 DEF GetGeneric, IsValid
<1> QED
  BY <1>4, <1>6, <1>7 DEF Keeps, c

(* Close leaves every other handle alone.                                  *)
LEMMA ClosedKeeps ==
    ASSUME NEW t, TableInv(t), NEW h \in Handle, IsValid(t, h),
           NEW f \in Handle, f # h, IsValid(t, f)
    PROVE  GetGeneric(Closed(t, h), f) = GetGeneric(t, f)
<1> DEFINE c == Closed(t, h)
<1>1. /\ t \in Table /\ t.objects \in [Slots -> KernelObjects \cup {NullObject}]
      /\ t.generations \in [Slots -> Word]
  BY TableFields DEF TableInv
<1>2. /\ c.objects = [t.objects EXCEPT ![h.slot] = NullObject]
      /\ c.generations = [t.generations EXCEPT ![h.slot] = t.next_free_slot]
  BY <1>1, ClosedFields
<1> HIDE DEF c
<1>3. f.slot # h.slot
  <2>1. f.slot = h.slot => f.generation = h.generation
    BY DEF IsValid
  <2> QED
    BY <2>1 DEF Handle
<1>4. f.slot \in Slots /\ h.slot \in Slots
  BY DEF Handle
<1>5. c.objects[f.slot] = t.objects[f.slot] /\ c.generations[f.slot] = t.generations[f.slot]
  BY <1>1, <1>2, <1>3, <1>4
<1>6. GetGeneric(c, f) = GetGeneric(t, f)
  BY <1>5 DEF GetGeneric, IsValid
<1> QED
  BY <1>6 DEF c

LEMMA NullIsHandle == NullHandle \in Handle
<1>1. 0 \in Slots /\ 0 \in 0..(GENERATION_LIMIT - 1)
  BY TableAssumption DEF Slots
<1> QED
  BY <1>1 DEF NullHandle, Handle

(* What a process can put into a message are handles.                      *)
LEMMA KnownHandles ==
    ASSUME TablesInv, NEW p \in Processes
    PROVE  Known(p) \subseteq Handle
<1>1. PICK t : t = handle_table[p]
  OBVIOUS
<1>2. t \in Table /\ Issued(t) /\ t.recent \in Seq(Entry)
  BY <1>1, TableFields DEF TablesInv, TableInv
<1>3. ASSUME NEW i \in Slots, t.objects[i] # NullObject
      PROVE  [slot |-> i, generation |-> t.generations[i]] \in Handle
  BY <1>2, <1>3, Sizes DEF Issued, Handle, Generation
<1>4. NullHandle \in Handle
  BY NullIsHandle
<1>5. \A i \in 1..Len(t.recent) : t.recent[i].handle \in Handle
  <2>1. \A i \in 1..Len(t.recent) : t.recent[i] \in Entry
    BY <1>2, ElementOfSeq
  <2> QED
    BY <2>1 DEF Entry
<1>6. Known(p) = {[slot |-> i, generation |-> t.generations[i]] :
                    i \in {j \in Slots : t.objects[j] # NullObject}} \cup {NullHandle}
                 \cup {t.recent[i].handle : i \in 1..Len(t.recent)}
  BY <1>1 DEF Known
<1>7. {[slot |-> i, generation |-> t.generations[i]] :
          i \in {j \in Slots : t.objects[j] # NullObject}} \subseteq Handle
  BY <1>3
<1>8. {t.recent[i].handle : i \in 1..Len(t.recent)} \subseteq Handle
  BY <1>5
<1> QED
  BY <1>4, <1>6, <1>7, <1>8

LEMMA MessagesOfHandles ==
    ASSUME TablesInv, NEW p \in Processes, NEW hs \in Messages(p)
    PROVE  hs \in Seq(Handle) /\ Len(hs) \in Nat /\ Len(hs) > 0
<1>1. PICK n \in 1..MaxHandles : hs \in [1..n -> Known(p)]
  BY DEF Messages
<1>2. n \in Nat /\ n > 0
  BY PassingAssumption
<1>3. hs \in [1..n -> Handle]
  BY <1>1, KnownHandles
<1>4. hs \in Seq(Handle)
  BY <1>2, <1>3, SeqDef
<1>5. Len(hs) = n
  BY <1>2, <1>3, <1>4, LenProperties
<1> QED
  BY <1>2, <1>4, <1>5

(***************************************************************************)
(* One handle of a descriptor.                                             *)
(***************************************************************************)
SoundTables == {tables \in [Processes -> Table] : \A p \in Processes : TableInv(tables[p])}

(* The states of a translation.                                            *)
State == [tables : SoundTables, new : Seq(Handle), found : Seq(KernelObjects \cup {NullObject}),
          fits : BOOLEAN]

KeepsAll(tables, others) == \A p \in Processes : Keeps(tables[p], others[p])

LEMMA SoundTable ==
    ASSUME NEW tables \in SoundTables, NEW p \in Processes
    PROVE  tables \in [Processes -> Table] /\ tables[p] \in Table /\ TableInv(tables[p])
BY DEF SoundTables

LEMMA TableChanged ==
    ASSUME NEW tables \in SoundTables, NEW p \in Processes, NEW t, TableInv(t)
    PROVE  \E others \in SoundTables :
              /\ others = [tables EXCEPT ![p] = t]
              /\ others[p] = t
              /\ \A q \in Processes : q # p => others[q] = tables[q]
<1>1. tables \in [Processes -> Table] /\ \A q \in Processes : TableInv(tables[q])
  BY SoundTable
<1>2. t \in Table
  BY DEF TableInv
<1>3. PICK others : others = [tables EXCEPT ![p] = t]
  OBVIOUS
<1>4. others \in [Processes -> Table]
  BY <1>1, <1>2, <1>3
<1>5. others[p] = t /\ \A q \in Processes : q # p => others[q] = tables[q]
  BY <1>1, <1>3
<1>6. others \in SoundTables
  BY <1>1, <1>4, <1>5 DEF SoundTables
<1> QED
  BY <1>3, <1>5, <1>6

LEMMA KeepsAllTransitive ==
    ASSUME NEW a \in SoundTables, NEW b \in SoundTables, NEW c, KeepsAll(a, b), KeepsAll(b, c)
    PROVE  KeepsAll(a, c)
<1> SUFFICES ASSUME NEW p \in Processes
             PROVE  Keeps(a[p], c[p])
  BY DEF KeepsAll
<1>1. a[p] \in Table /\ b[p] \in Table /\ Keeps(a[p], b[p]) /\ Keeps(b[p], c[p])
  BY SoundTable DEF KeepsAll
<1> QED
  BY <1>1, KeepsTransitive

(* The handle is closed if the descriptor closes, and no other is.         *)
LEMMA TakeSound ==
    ASSUME NEW tables \in SoundTables, NEW p \in Processes, NEW h \in Handle, NEW closes
    PROVE  /\ Take(tables, p, h, closes) \in SoundTables
           /\ ~closes => Take(tables, p, h, closes) = tables
           /\ \A q \in Processes, f \in Handle :
                 IsValid(tables[q], f) /\ (q # p \/ f # h) =>
                    GetGeneric(Take(tables, p, h, closes)[q], f) = GetGeneric(tables[q], f)
<1>1. CASE closes /\ IsValid(tables[p], h)
  <2>1. TableInv(tables[p])
    BY SoundTable
  <2>2. PICK t : t = Closed(tables[p], h)
    OBVIOUS
  <2>3. TableInv(t)
    BY <1>1, <2>1, <2>2, ClosedInv
  <2>4. PICK others \in SoundTables :
          /\ others = [tables EXCEPT ![p] = t]
          /\ others[p] = t
          /\ \A q \in Processes : q # p => others[q] = tables[q]
    BY <2>3, TableChanged
  <2>5. Take(tables, p, h, closes) = others
    BY <1>1, <2>2, <2>4 DEF Take
  <2>6. \A f \in Handle : IsValid(tables[p], f) /\ f # h => GetGeneric(t, f) = GetGeneric(tables[p], f)
    BY <1>1, <2>1, <2>2, ClosedKeeps
  <2> QED
    BY <1>1, <2>4, <2>5, <2>6
<1>2. CASE ~(closes /\ IsValid(tables[p], h))
  BY <1>2 DEF Take
<1> QED
  BY <1>1, <1>2

(* The object gets a handle, if there is one and the table has room.       *)
LEMMA GiveSound ==
    ASSUME NEW a \in State, NEW p \in Processes, NEW object \in KernelObjects \cup {NullObject}
    PROVE  LET b == Give(a, p, object) IN
           /\ b \in State
           /\ KeepsAll(a.tables, b.tables)
           /\ b.fits =>
                /\ a.fits
                /\ Len(b.new) = Len(a.new) + 1
                /\ \A i \in 1..Len(a.new) : b.new[i] = a.new[i]
                /\ object # NullObject => GetGeneric(b.tables[p], b.new[Len(a.new) + 1]) = object
<1> DEFINE b == Give(a, p, object)
<1>1. PICK tables \in SoundTables, new \in Seq(Handle), found \in Seq(KernelObjects \cup {NullObject}),
           fits \in BOOLEAN :
        a = [tables |-> tables, new |-> new, found |-> found, fits |-> fits]
  BY DEF State
<1>2. a.tables = tables /\ a.new = new /\ a.found = found /\ a.fits = fits
  BY <1>1
<1>3. KeepsAll(tables, tables)
  BY DEF KeepsAll, Keeps
<1>4. CASE object = NullObject
  <2>1. PICK more : more = Append(new, NullHandle)
    OBVIOUS
  <2>2. b = [tables |-> tables, new |-> more, found |-> found, fits |-> fits]
    BY <1>1, <1>2, <1>4, <2>1 DEF Give
  <2>3. NullHandle \in Handle
    BY NullIsHandle
  <2>4. more \in Seq(Handle) /\ Len(more) = Len(new) + 1 /\ \A i \in 1..Len(new) : more[i] = new[i]
    BY <2>1, <2>3, AppendProperties
  <2>5. b.tables = tables /\ b.new = more /\ b.fits = fits /\ b \in State
    BY <2>2, <2>4 DEF State
  <2> HIDE DEF b
  <2>6. /\ b \in State /\ KeepsAll(a.tables, b.tables)
        /\ b.fits => a.fits /\ Len(b.new) = Len(a.new) + 1 /\ \A i \in 1..Len(a.new) : b.new[i] = a.new[i]
    BY <1>2, <1>3, <2>4, <2>5
  <2> QED
    BY <1>4, <2>6 DEF b
<1>5. CASE object # NullObject /\ Full(tables[p])
  <2>1. b = [tables |-> tables, new |-> new, found |-> found, fits |-> FALSE]
    BY <1>1, <1>2, <1>5 DEF Give
  <2>2. b.tables = tables /\ b.fits = FALSE /\ b \in State
    BY <2>1 DEF State
  <2> HIDE DEF b
  <2>3. b \in State /\ KeepsAll(a.tables, b.tables) /\ ~b.fits
    BY <1>2, <1>3, <2>2
  <2> QED
    BY <2>3 DEF b
<1>6. CASE object # NullObject /\ ~Full(tables[p])
  <2>1. TableInv(tables[p]) /\ object \in KernelObjects
    BY <1>6, SoundTable
  <2>2. PICK t, h : t = Created(tables[p], object) /\ h = NewHandle(tables[p])
    OBVIOUS
  <2>3. TableInv(t) /\ Keeps(tables[p], t) /\ h \in Handle /\ GetGeneric(t, h) = object
    BY <1>6, <2>1, <2>2, CreatedInv, CreatedKeeps
  <2>4. PICK others \in SoundTables :
          /\ others = [tables EXCEPT ![p] = t]
          /\ others[p] = t
          /\ \A q \in Processes : q # p => others[q] = tables[q]
    BY <2>3, TableChanged
  <2>5. PICK more : more = Append(new, h)
    OBVIOUS
  <2>6. b = [tables |-> others, new |-> more, found |-> found, fits |-> fits]
    <3>1. [tables EXCEPT ![p] = Created(tables[p], object)] = others
      BY <2>2, <2>4
    <3>2. [a EXCEPT !.tables[p] = Created(@, object)] = [a EXCEPT !.tables = others]
      BY <1>2, <3>1
    <3>3. b = [[a EXCEPT !.tables[p] = Created(@, object)] EXCEPT
                  !.new = Append(a.new, NewHandle(a.tables[p]))]
      BY <1>1, <1>2, <1>6 DEF Give
    <3> HIDE DEF b
    <3>4. Append(a.new, NewHandle(a.tables[p])) = more
      BY <1>2, <2>2, <2>5
    <3> QED
      BY <1>1, <3>2, <3>3, <3>4
  <2>7. KeepsAll(tables, others)
    BY <1>3, <2>3, <2>4 DEF KeepsAll
  <2>8. /\ more \in Seq(Handle) /\ Len(more) = Len(new) + 1
        /\ \A i \in 1..Len(new) : more[i] = new[i]
        /\ more[Len(new) + 1] = h
    BY <2>3, <2>5, AppendProperties
  <2>9. b.tables = others /\ b.new = more /\ b.fits = fits /\ b \in State
    BY <2>6, <2>8 DEF State
  <2> HIDE DEF b
  <2>10. /\ b \in State /\ KeepsAll(a.tables, b.tables)
         /\ b.fits =>
              /\ a.fits /\ Len(b.new) = Len(a.new) + 1
              /\ \A i \in 1..Len(a.new) : b.new[i] = a.new[i]
              /\ GetGeneric(b.tables[p], b.new[Len(a.new) + 1]) = object
    BY <1>2, <2>3, <2>4, <2>7, <2>8, <2>9
  <2> QED
    BY <2>10 DEF b
<1> QED
  BY <1>4, <1>5, <1>6

(***************************************************************************)
(* The translation of a descriptor, one handle after the other.            *)
(***************************************************************************)
TranslateOne(a, from, to, closes, h) ==
    Give([a EXCEPT !.tables = Take(a.tables, from, h, closes)], to, Look(a.tables, from, h, closes))

(* What the translation of one handle does.                                *)
LEMMA OneTranslated ==
    ASSUME NEW a \in State, NEW from \in Processes, NEW to \in Processes, NEW closes, NEW h \in Handle
    PROVE  LET b == TranslateOne(a, from, to, closes, h) IN
           /\ b \in State
           /\ \A q \in Processes, f \in Handle :
                 IsValid(a.tables[q], f) /\ (~closes \/ q # from \/ f # h) =>
                    GetGeneric(b.tables[q], f) = GetGeneric(a.tables[q], f)
           /\ b.fits =>
                /\ a.fits
                /\ Len(b.new) = Len(a.new) + 1
                /\ \A i \in 1..Len(a.new) : b.new[i] = a.new[i]
                /\ IsValid(a.tables[from], h) =>
                     GetGeneric(b.tables[to], b.new[Len(a.new) + 1]) = GetGeneric(a.tables[from], h)
<1> DEFINE b == TranslateOne(a, from, to, closes, h)
<1>1. a.tables \in SoundTables
  BY DEF State
<1>2. PICK taken : taken = Take(a.tables, from, h, closes)
  OBVIOUS
<1>3. /\ taken \in SoundTables
      /\ ~closes => taken = a.tables
      /\ \A q \in Processes, f \in Handle :
            IsValid(a.tables[q], f) /\ (q # from \/ f # h) =>
               GetGeneric(taken[q], f) = GetGeneric(a.tables[q], f)
  BY <1>1, <1>2, TakeSound
<1>4. PICK object : object = GetGeneric(a.tables[from], h)
  OBVIOUS
<1>5. object \in KernelObjects \cup {NullObject} /\ (IsValid(a.tables[from], h) => object # NullObject)
  <2>1. a.tables[from] \in Table
    BY <1>1, SoundTable
  <2> QED
    BY <1>4, <2>1, NamesObject
<1>6. PICK c : c = [a EXCEPT !.tables = taken]
  OBVIOUS
<1>7. c \in State /\ c.tables = taken /\ c.new = a.new /\ c.fits = a.fits
  BY <1>3, <1>6 DEF State
<1>8. b = Give(c, to, object)
  BY <1>2, <1>4, <1>6 DEF TranslateOne, Look
<1> HIDE DEF b
<1>9. /\ b \in State
      /\ KeepsAll(c.tables, b.tables)
      /\ b.fits =>
           /\ c.fits
           /\ Len(b.new) = Len(c.new) + 1
           /\ \A i \in 1..Len(c.new) : b.new[i] = c.new[i]
           /\ object # NullObject => GetGeneric(b.tables[to], b.new[Len(c.new) + 1]) = object
  BY <1>5, <1>7, <1>8, GiveSound
<1>10. ASSUME NEW q \in Processes, NEW f \in Handle, IsValid(a.tables[q], f),
              ~closes \/ q # from \/ f # h
       PROVE  GetGeneric(b.tables[q], f) = GetGeneric(a.tables[q], f)
  <2>1. GetGeneric(taken[q], f) = GetGeneric(a.tables[q], f)
    BY <1>3, <1>10
  <2>2. a.tables[q] \in Table /\ taken[q] \in Table
    BY <1>1, <1>3, SoundTable
  <2>3. IsValid(taken[q], f)
    BY <1>10, <2>1, <2>2, NamesObject
  <2>4. GetGeneric(b.tables[q], f) = GetGeneric(taken[q], f)
    BY <1>7, <1>9, <2>3 DEF KeepsAll, Keeps
  <2> QED
    BY <2>1, <2>4
<1>11. b.fits =>
         /\ a.fits
         /\ Len(b.new) = Len(a.new) + 1
         /\ \A i \in 1..Len(a.new) : b.new[i] = a.new[i]
         /\ IsValid(a.tables[from], h) =>
              GetGeneric(b.tables[to], b.new[Len(a.new) + 1]) = GetGeneric(a.tables[from], h)
  BY <1>4, <1>5, <1>7, <1>9
<1> QED
  BY <1>9, <1>10, <1>11 DEF b

LEMMA StartState ==
    ASSUME TablesInv
    PROVE  /\ Start \in State /\ Start.tables = handle_table /\ Start.new = <<>> /\ Start.fits = TRUE
           /\ Start.found = <<>>
<1>1. handle_table \in SoundTables
  BY DEF TablesInv, SoundTables
<1>2. <<>> \in Seq(Handle) /\ <<>> \in Seq(KernelObjects \cup {NullObject})
  BY EmptySeq
<1> QED
  BY <1>1, <1>2 DEF Start, State

(* The states that the translation goes through.                           *)
Course(after, from, to, kind, hs) ==
    /\ after \in [0..Len(hs) -> State]
    /\ after[0] = Start
    /\ \A i \in 1..Len(hs) : after[i] = TranslateOne(after[i - 1], from, to, Closes(kind, hs), hs[i])

LEMMA TranslateSteps ==
    ASSUME TablesInv, NEW from \in Processes, NEW to \in Processes, NEW kind, NEW hs \in Seq(Handle)
    PROVE  \E after : Course(after, from, to, kind, hs) /\ Translate(from, to, kind, hs) = after[Len(hs)]
<1>1. PICK n \in Nat : n = Len(hs)
  BY LenProperties
<1>2. PICK closes : closes = Closes(kind, hs)
  OBVIOUS
<1>3. \A i \in 1..n : hs[i] \in Handle
  BY <1>1, ElementOfSeq
<1> DEFINE F == [i \in 1..n |-> [a \in State |-> TranslateOne(a, from, to, closes, hs[i])]]
           Body(g) == [i \in 0..n |-> IF i = 0 THEN Start
                                      ELSE TranslateOne(g[i - 1], from, to, closes, hs[i])]
           after == CHOOSE g : g = Body(g)
<1>4. \A i \in 1..n, a \in State : TranslateOne(a, from, to, closes, hs[i]) \in State
  BY <1>3, OneTranslated
<1>5. F \in [1..n -> [State -> State]]
  BY <1>4
<1>6. \A i \in 1..n, a \in State : F[i][a] = TranslateOne(a, from, to, closes, hs[i])
  OBVIOUS
<1>7. Start \in State
  BY StartState
<1>8. \E g : g = Body(g)
  <2> HIDE DEF F
  <2>1. Steps(State, Start, F, n) # {}
    BY <1>5, <1>7, Iteration
  <2>2. PICK g \in [0..n -> State] : g[0] = Start /\ \A i \in 1..n : g[i] = F[i][g[i - 1]]
    BY <2>1 DEF Steps
  <2>3. \A i \in 1..n : i - 1 \in 0..n
    BY <1>1
  <2>4. \A i \in 1..n : g[i] = TranslateOne(g[i - 1], from, to, closes, hs[i])
    BY <1>6, <2>2, <2>3
  <2>5. \A i \in 0..n : i = 0 \/ i \in 1..n
    BY <1>1
  <2>6. g = [i \in 0..n |-> g[i]]
    BY <2>2
  <2>7. g = Body(g)
    BY <2>2, <2>4, <2>5, <2>6
  <2> QED
    BY <2>7
<1>9. after = Body(after)
  <2> HIDE DEF Body
  <2> QED
    BY <1>8
<1>10. Translate(from, to, kind, hs) = after[n]
  BY <1>1, <1>2 DEF Translate, TranslateOne
<1> HIDE DEF after
<1>11. /\ after[0] = Start
       /\ \A i \in 1..n : after[i] = TranslateOne(after[i - 1], from, to, closes, hs[i])
       /\ after = [i \in 0..n |-> after[i]]
  <2>1. 0 \in 0..n /\ \A i \in 1..n : i \in 0..n /\ i # 0
    BY <1>1
  <2> QED
    BY <1>9, <2>1
<1>12. \A i \in 0..n : after[i] \in State
  <2> DEFINE T == {i \in 0..n : after[i] \in State}
  <2>1. 0 \in T
    BY <1>1, <1>7, <1>11
  <2>2. ASSUME NEW i \in 1..n, i - 1 \in T
        PROVE  i \in T
    <3>1. i \in 0..n /\ after[i - 1] \in State
      BY <1>1, <2>2
    <3> QED
      BY <1>4, <1>11, <3>1
  <2> HIDE DEF T
  <2>3. 0..n \subseteq T
    BY <2>1, <2>2, UpTo
  <2> QED
    BY <2>3 DEF T
<1>13. after \in [0..n -> State]
  BY <1>11, <1>12
<1>14. Course(after, from, to, kind, hs)
  BY <1>1, <1>2, <1>11, <1>13 DEF Course
<1> QED
  BY <1>1, <1>10, <1>14

(* What has arrived after the first i handles of hs.                       *)
Arrived(a, i, from, to, hs) ==
    a.fits =>
        /\ Len(a.new) = i
        /\ \A j \in 1..i :
              IsValid(handle_table[from], hs[j]) =>
                 GetGeneric(a.tables[to], a.new[j]) = GetGeneric(handle_table[from], hs[j])

LEMMA OneArrives ==
    ASSUME TablesInv, NEW a \in State, NEW from \in Processes, NEW to \in Processes,
           NEW hs \in Seq(Handle), NEW i \in 1..Len(hs),
           KeepsAll(handle_table, a.tables), Arrived(a, i - 1, from, to, hs)
    PROVE  LET b == TranslateOne(a, from, to, FALSE, hs[i]) IN
           KeepsAll(handle_table, b.tables) /\ Arrived(b, i, from, to, hs)
<1> DEFINE b == TranslateOne(a, from, to, FALSE, hs[i])
<1>1. PICK h \in Handle : h = hs[i]
  BY ElementOfSeq
<1>2. /\ b \in State
      /\ \A q \in Processes, f \in Handle :
            IsValid(a.tables[q], f) => GetGeneric(b.tables[q], f) = GetGeneric(a.tables[q], f)
      /\ b.fits =>
           /\ a.fits
           /\ Len(b.new) = Len(a.new) + 1
           /\ \A j \in 1..Len(a.new) : b.new[j] = a.new[j]
           /\ IsValid(a.tables[from], h) =>
                GetGeneric(b.tables[to], b.new[Len(a.new) + 1]) = GetGeneric(a.tables[from], h)
  <2>1. PICK no : no = FALSE
    OBVIOUS
  <2>2. b = TranslateOne(a, from, to, no, h)
    BY <1>1, <2>1
  <2> HIDE DEF b
  <2> QED
    BY <2>1, <2>2, OneTranslated
<1> HIDE DEF b
<1>3. handle_table \in SoundTables /\ a.tables \in SoundTables /\ b.tables \in SoundTables /\ a.new \in Seq(Handle)
  BY <1>2 DEF TablesInv, SoundTables, State
<1>4. KeepsAll(a.tables, b.tables)
  BY <1>2 DEF KeepsAll, Keeps
<1>5. KeepsAll(handle_table, b.tables)
  BY <1>3, <1>4, KeepsAllTransitive
<1>6. ASSUME b.fits, NEW j \in 1..i, IsValid(handle_table[from], hs[j])
      PROVE  Len(b.new) = i /\ GetGeneric(b.tables[to], b.new[j]) = GetGeneric(handle_table[from], hs[j])
  <2>1. a.fits /\ Len(a.new) = i - 1 /\ Len(b.new) = i /\ i \in Nat /\ Len(hs) \in Nat
    <3>1. a.fits /\ Len(a.new) = i - 1 /\ Len(b.new) = Len(a.new) + 1
      BY <1>2, <1>6 DEF Arrived
    <3> QED
      BY <3>1, LenProperties
  <2>2. PICK f \in Handle : f = hs[j]
    <3>1. j \in 1..Len(hs)
      BY <2>1
    <3> QED
      BY <3>1, ElementOfSeq
  <2>3. handle_table[from] \in Table /\ a.tables[to] \in Table
    BY <1>3, SoundTable
  <2>4. GetGeneric(handle_table[from], f) # NullObject
    BY <1>6, <2>2, <2>3, NamesObject
  <2>5. CASE j = i
    <3>1. GetGeneric(a.tables[from], h) = GetGeneric(handle_table[from], h) /\ f = h
      BY <1>1, <1>6, <2>2, <2>5 DEF KeepsAll, Keeps
    <3>2. IsValid(a.tables[from], h)
      BY <2>4, <3>1 DEF GetGeneric
    <3>3. GetGeneric(b.tables[to], b.new[Len(a.new) + 1]) = GetGeneric(a.tables[from], h)
      BY <1>2, <1>6, <3>2
    <3>4. Len(a.new) + 1 = j
      BY <2>1, <2>5
    <3> QED
      BY <2>1, <2>2, <3>1, <3>3, <3>4
  <2>6. CASE j # i
    <3>1. j \in 1..(i - 1)
      BY <2>1, <2>6
    <3>2. b.new[j] = a.new[j]
      BY <1>2, <1>6, <2>1, <3>1
    <3>3. GetGeneric(a.tables[to], a.new[j]) = GetGeneric(handle_table[from], f)
      BY <1>6, <2>1, <2>2, <3>1 DEF Arrived
    <3>4. a.new[j] \in Handle
      BY <1>3, <2>1, <3>1, ElementOfSeq
    <3>5. IsValid(a.tables[to], a.new[j])
      BY <2>4, <3>3 DEF GetGeneric
    <3>6. GetGeneric(b.tables[to], b.new[j]) = GetGeneric(a.tables[to], a.new[j])
      BY <1>2, <3>2, <3>4, <3>5
    <3> QED
      BY <2>1, <2>2, <3>3, <3>6
  <2> QED
    BY <2>5, <2>6
<1>7. b.fits => Len(b.new) = i
  <2>1. b.fits => Len(a.new) = i - 1 /\ Len(b.new) = Len(a.new) + 1
    BY <1>2 DEF Arrived
  <2> QED
    BY <2>1
<1> QED
  BY <1>5, <1>6, <1>7 DEF Arrived, b

LEMMA StartArrived ==
    ASSUME TablesInv, NEW from, NEW to, NEW hs
    PROVE  KeepsAll(handle_table, Start.tables) /\ Arrived(Start, 0, from, to, hs)
<1>1. Start.tables = handle_table /\ Len(Start.new) = 0
  BY StartState, EmptySeq
<1> QED
  BY <1>1 DEF KeepsAll, Keeps, Arrived

(* A descriptor of any number of handles: all is kept but the one handle   *)
(* that a descriptor closes, and every object named arrives.               *)
LEMMA Translated ==
    ASSUME TablesInv, NEW from \in Processes, NEW to \in Processes, NEW kind,
           NEW hs \in Seq(Handle), Len(hs) > 0
    PROVE  LET a == Translate(from, to, kind, hs) IN
           /\ a \in State
           /\ \A q \in Processes, f \in Handle :
                 IsValid(handle_table[q], f) /\ (~Closes(kind, hs) \/ q # from \/ f # hs[1]) =>
                    GetGeneric(a.tables[q], f) = GetGeneric(handle_table[q], f)
           /\ Arrived(a, Len(hs), from, to, hs)
<1> DEFINE a == Translate(from, to, kind, hs)
<1>1. PICK n \in Nat : n = Len(hs) /\ n > 0
  BY LenProperties
<1>2. PICK closes \in BOOLEAN : closes = Closes(kind, hs)
  BY DEF Closes
<1>3. PICK after \in [0..n -> State] :
        /\ after[0] = Start
        /\ \A i \in 1..n : after[i] = TranslateOne(after[i - 1], from, to, closes, hs[i])
        /\ a = after[n]
  <2>1. PICK g : Course(g, from, to, kind, hs) /\ a = g[Len(hs)]
    BY TranslateSteps
  <2> HIDE DEF a
  <2> QED
    BY <1>1, <1>2, <2>1 DEF Course
<1> HIDE DEF a
<1>4. a \in State
  BY <1>1, <1>3
<1>5. CASE ~closes
  <2> DEFINE T == {i \in 0..n : KeepsAll(handle_table, after[i].tables) /\ Arrived(after[i], i, from, to, hs)}
  <2>1. 0 \in T
    BY <1>1, <1>3, StartArrived
  <2>2. ASSUME NEW i \in 1..n, i - 1 \in T
        PROVE  i \in T
    <3>1. PICK b \in State : b = after[i - 1]
      BY <1>3, <2>2
    <3>2. KeepsAll(handle_table, b.tables) /\ Arrived(b, i - 1, from, to, hs)
      BY <2>2, <3>1
    <3>3. after[i] = TranslateOne(b, from, to, FALSE, hs[i])
      BY <1>3, <1>5, <3>1
    <3>4. i \in 0..n /\ i \in 1..Len(hs)
      BY <1>1
    <3>5. PICK c : c = TranslateOne(b, from, to, FALSE, hs[i])
      OBVIOUS
    <3>6. KeepsAll(handle_table, c.tables) /\ Arrived(c, i, from, to, hs)
      BY <3>2, <3>4, <3>5, OneArrives
    <3> QED
      BY <3>3, <3>4, <3>5, <3>6
  <2> HIDE DEF T
  <2>3. 0..n \subseteq T
    BY <2>1, <2>2, UpTo
  <2>30. n \in 0..n
    BY <1>1
  <2>4. KeepsAll(handle_table, a.tables) /\ Arrived(a, n, from, to, hs)
    BY <1>3, <2>3, <2>30 DEF T
  <2>5. \A q \in Processes, f \in Handle :
           IsValid(handle_table[q], f) => GetGeneric(a.tables[q], f) = GetGeneric(handle_table[q], f)
    BY <2>4 DEF KeepsAll, Keeps
  <2> QED
    BY <1>1, <1>4, <2>4, <2>5 DEF a
<1>6. CASE closes
  <2>1. n = 1
    BY <1>1, <1>2, <1>6 DEF Closes
  <2>2. PICK h \in Handle : h = hs[1]
    <3>1. 1 \in 1..Len(hs)
      BY <1>1
    <3> QED
      BY <3>1, ElementOfSeq
  <2>3. PICK s \in State : s.tables = handle_table /\ s.new = <<>> /\ s = Start
    BY StartState
  <2>4. a = TranslateOne(s, from, to, closes, h)
    <3>1. 1 \in 1..n /\ 1 - 1 = 0
      BY <2>1
    <3> QED
      BY <1>3, <2>1, <2>2, <2>3, <3>1
  <2>5. Len(s.new) = 0 /\ Len(s.new) + 1 = 1
    BY <2>3, EmptySeq
  <2>6. /\ \A q \in Processes, f \in Handle :
              IsValid(handle_table[q], f) /\ (q # from \/ f # h) =>
                 GetGeneric(a.tables[q], f) = GetGeneric(handle_table[q], f)
        /\ a.fits =>
             /\ Len(a.new) = 1
             /\ IsValid(handle_table[from], h) =>
                  GetGeneric(a.tables[to], a.new[1]) = GetGeneric(handle_table[from], h)
    <3>1. /\ \A q \in Processes, f \in Handle :
                IsValid(s.tables[q], f) /\ (~closes \/ q # from \/ f # h) =>
                   GetGeneric(a.tables[q], f) = GetGeneric(s.tables[q], f)
          /\ a.fits =>
               /\ Len(a.new) = Len(s.new) + 1
               /\ IsValid(s.tables[from], h) =>
                    GetGeneric(a.tables[to], a.new[Len(s.new) + 1]) = GetGeneric(s.tables[from], h)
      BY <2>4, OneTranslated
    <3> QED
      BY <2>3, <2>5, <3>1
  <2>7. Arrived(a, n, from, to, hs)
    <3>1. \A j \in 1..n : j = 1
      BY <2>1
    <3> QED
      BY <2>1, <2>2, <2>6, <3>1 DEF Arrived
  <2> QED
    BY <1>1, <1>2, <1>4, <1>6, <2>2, <2>6, <2>7 DEF a
<1> QED
  BY <1>5, <1>6

(***************************************************************************)
(* A request to a service: the objects are looked up, nothing is given.    *)
(***************************************************************************)
AskOne(a, p, closes, h) ==
    [a EXCEPT !.tables = Take(a.tables, p, h, closes),
              !.found = Append(@, Look(a.tables, p, h, closes))]

LEMMA OneAsked ==
    ASSUME NEW a \in State, NEW p \in Processes, NEW closes, NEW h \in Handle
    PROVE  LET b == AskOne(a, p, closes, h) IN
           /\ b \in State
           /\ Len(b.found) = Len(a.found) + 1
           /\ \A q \in Processes, f \in Handle :
                 IsValid(a.tables[q], f) /\ (~closes \/ q # p \/ f # h) =>
                    GetGeneric(b.tables[q], f) = GetGeneric(a.tables[q], f)
<1> DEFINE b == AskOne(a, p, closes, h)
<1>1. PICK tables \in SoundTables, new \in Seq(Handle), found \in Seq(KernelObjects \cup {NullObject}),
           fits \in BOOLEAN :
        a = [tables |-> tables, new |-> new, found |-> found, fits |-> fits]
  BY DEF State
<1>2. PICK taken : taken = Take(tables, p, h, closes)
  OBVIOUS
<1>3. /\ taken \in SoundTables
      /\ ~closes => taken = tables
      /\ \A q \in Processes, f \in Handle :
            IsValid(tables[q], f) /\ (q # p \/ f # h) =>
               GetGeneric(taken[q], f) = GetGeneric(tables[q], f)
  BY <1>2, TakeSound
<1>4. PICK object : object = GetGeneric(tables[p], h)
  OBVIOUS
<1>5. object \in KernelObjects \cup {NullObject}
  BY <1>4, SoundTable, NamesObject
<1>6. PICK more : more = Append(found, object)
  OBVIOUS
<1>7. more \in Seq(KernelObjects \cup {NullObject}) /\ Len(more) = Len(found) + 1
  BY <1>5, <1>6, AppendProperties
<1>8. a.tables = tables /\ a.found = found
  BY <1>1
<1>9. b = [tables |-> taken, new |-> new, found |-> more, fits |-> fits]
  <2>1. b = [a EXCEPT !.tables = taken, !.found = more]
    BY <1>2, <1>4, <1>6, <1>8 DEF AskOne, Look
  <2> HIDE DEF b
  <2> QED
    BY <1>1, <2>1
<1> HIDE DEF b
<1>10. b \in State /\ b.tables = taken /\ b.found = more
  BY <1>3, <1>7, <1>9 DEF State
<1>11. \A q \in Processes, f \in Handle :
          IsValid(tables[q], f) /\ (~closes \/ q # p \/ f # h) =>
             GetGeneric(taken[q], f) = GetGeneric(tables[q], f)
  BY <1>3
<1> QED
  BY <1>7, <1>8, <1>10, <1>11 DEF b

Asked(p, kind, hs) ==
    LET one(a, h) == [a EXCEPT !.tables = Take(a.tables, p, h, Closes(kind, hs)),
                               !.found = Append(@, Look(a.tables, p, h, Closes(kind, hs)))]
        after[i \in 0..Len(hs)] == IF i = 0 THEN Start ELSE one(after[i - 1], hs[i])
    IN after[Len(hs)]

LEMMA AskServiceAsks ==
    ASSUME NEW p, NEW kind, NEW hs, AskService(p, kind, hs)
    PROVE  LET a == Asked(p, kind, hs) IN
           handle_table' = a.tables /\ context' = a.found /\ observed' = {}
BY DEF AskService, Asked

AskCourse(after, p, kind, hs) ==
    /\ after \in [0..Len(hs) -> State]
    /\ after[0] = Start
    /\ \A i \in 1..Len(hs) : after[i] = AskOne(after[i - 1], p, Closes(kind, hs), hs[i])

LEMMA AskSteps ==
    ASSUME TablesInv, NEW p \in Processes, NEW kind, NEW hs \in Seq(Handle)
    PROVE  \E after : AskCourse(after, p, kind, hs) /\ Asked(p, kind, hs) = after[Len(hs)]
<1>1. PICK n \in Nat : n = Len(hs)
  BY LenProperties
<1>2. PICK closes : closes = Closes(kind, hs)
  OBVIOUS
<1>3. \A i \in 1..n : hs[i] \in Handle
  BY <1>1, ElementOfSeq
<1> DEFINE F == [i \in 1..n |-> [a \in State |-> AskOne(a, p, closes, hs[i])]]
           Body(g) == [i \in 0..n |-> IF i = 0 THEN Start
                                      ELSE AskOne(g[i - 1], p, closes, hs[i])]
           after == CHOOSE g : g = Body(g)
<1>4. \A i \in 1..n, a \in State : AskOne(a, p, closes, hs[i]) \in State
  BY <1>3, OneAsked
<1>5. F \in [1..n -> [State -> State]]
  BY <1>4
<1>6. \A i \in 1..n, a \in State : F[i][a] = AskOne(a, p, closes, hs[i])
  OBVIOUS
<1>7. Start \in State
  BY StartState
<1>8. \E g : g = Body(g)
  <2> HIDE DEF F
  <2>1. Steps(State, Start, F, n) # {}
    BY <1>5, <1>7, Iteration
  <2>2. PICK g \in [0..n -> State] : g[0] = Start /\ \A i \in 1..n : g[i] = F[i][g[i - 1]]
    BY <2>1 DEF Steps
  <2>3. \A i \in 1..n : i - 1 \in 0..n
    BY <1>1
  <2>4. \A i \in 1..n : g[i] = AskOne(g[i - 1], p, closes, hs[i])
    BY <1>6, <2>2, <2>3
  <2>5. \A i \in 0..n : i = 0 \/ i \in 1..n
    BY <1>1
  <2>6. g = [i \in 0..n |-> g[i]]
    BY <2>2
  <2>7. g = Body(g)
    BY <2>2, <2>4, <2>5, <2>6
  <2> QED
    BY <2>7
<1>9. after = Body(after)
  <2> HIDE DEF Body
  <2> QED
    BY <1>8
<1>10. Asked(p, kind, hs) = after[n]
  BY <1>1, <1>2 DEF Asked, AskOne
<1> HIDE DEF after
<1>11. /\ after[0] = Start
       /\ \A i \in 1..n : after[i] = AskOne(after[i - 1], p, closes, hs[i])
       /\ after = [i \in 0..n |-> after[i]]
  <2>1. 0 \in 0..n /\ \A i \in 1..n : i \in 0..n /\ i # 0
    BY <1>1
  <2> QED
    BY <1>9, <2>1
<1>12. \A i \in 0..n : after[i] \in State
  <2> DEFINE T == {i \in 0..n : after[i] \in State}
  <2>1. 0 \in T
    BY <1>1, <1>7, <1>11
  <2>2. ASSUME NEW i \in 1..n, i - 1 \in T
        PROVE  i \in T
    <3>1. i \in 0..n /\ after[i - 1] \in State
      BY <1>1, <2>2
    <3> QED
      BY <1>4, <1>11, <3>1
  <2> HIDE DEF T
  <2>3. 0..n \subseteq T
    BY <2>1, <2>2, UpTo
  <2> QED
    BY <2>3 DEF T
<1>13. after \in [0..n -> State]
  BY <1>11, <1>12
<1>14. AskCourse(after, p, kind, hs)
  BY <1>1, <1>2, <1>11, <1>13 DEF AskCourse
<1> QED
  BY <1>1, <1>10, <1>14

LEMMA AskedSound ==
    ASSUME TablesInv, NEW p \in Processes, NEW kind, NEW hs \in Seq(Handle), Len(hs) > 0
    PROVE  LET a == Asked(p, kind, hs) IN
           /\ a \in State /\ Len(a.found) = Len(hs)
           /\ \A q \in Processes, f \in Handle :
                 IsValid(handle_table[q], f) /\ (~Closes(kind, hs) \/ q # p \/ f # hs[1]) =>
                    GetGeneric(a.tables[q], f) = GetGeneric(handle_table[q], f)
<1> DEFINE a == Asked(p, kind, hs)
<1>1. PICK n \in Nat : n = Len(hs) /\ n > 0
  BY LenProperties
<1>2. PICK closes \in BOOLEAN : closes = Closes(kind, hs)
  BY DEF Closes
<1>3. PICK after \in [0..n -> State] :
        /\ after[0] = Start
        /\ \A i \in 1..n : after[i] = AskOne(after[i - 1], p, closes, hs[i])
        /\ a = after[n]
  <2>1. PICK g : AskCourse(g, p, kind, hs) /\ a = g[Len(hs)]
    BY AskSteps
  <2> HIDE DEF a
  <2> QED
    BY <1>1, <1>2, <2>1 DEF AskCourse
<1> HIDE DEF a
<1>4. a \in State
  BY <1>1, <1>3
<1>5. handle_table \in SoundTables
  BY DEF TablesInv, SoundTables
<1>6. closes => n = 1
  BY <1>1, <1>2 DEF Closes
<1> DEFINE Sound(s, i) == /\ Len(s.found) = i
                          /\ closes /\ i = 0 => s.tables = handle_table
                          /\ \A q \in Processes, f \in Handle :
                                IsValid(handle_table[q], f) /\ (~closes \/ q # p \/ f # hs[1]) =>
                                   GetGeneric(s.tables[q], f) = GetGeneric(handle_table[q], f)
           T == {i \in 0..n : Sound(after[i], i)}
<1>7. 0 \in T
  <2>1. Start.tables = handle_table /\ Start.found = <<>>
    BY StartState
  <2>2. Sound(Start, 0)
    BY <2>1, EmptySeq
  <2> HIDE DEF Sound
  <2> QED
    BY <1>1, <1>3, <2>2
<1>8. ASSUME NEW i \in 1..n, i - 1 \in T
      PROVE  i \in T
  <2>1. PICK s \in State : s = after[i - 1]
    BY <1>3, <1>8
  <2>2. Sound(s, i - 1)
    BY <1>8, <2>1
  <2>3. PICK h \in Handle : h = hs[i]
    BY <1>1, ElementOfSeq
  <2>4. PICK b : b = AskOne(s, p, closes, h)
    OBVIOUS
  <2>5. b = after[i]
    BY <1>3, <2>1, <2>3, <2>4
  <2>6. /\ b \in State
        /\ Len(b.found) = Len(s.found) + 1
        /\ \A q \in Processes, f \in Handle :
              IsValid(s.tables[q], f) /\ (~closes \/ q # p \/ f # h) =>
                 GetGeneric(b.tables[q], f) = GetGeneric(s.tables[q], f)
    BY <2>4, OneAsked
  <2>7. Len(b.found) = i /\ i # 0 /\ i \in 0..n
    BY <1>1, <2>2, <2>6
  <2>8. ASSUME NEW q \in Processes, NEW f \in Handle, IsValid(handle_table[q], f),
               ~closes \/ q # p \/ f # hs[1]
        PROVE  GetGeneric(b.tables[q], f) = GetGeneric(handle_table[q], f)
    <3>1. ~closes \/ q # p \/ f # h
      <4>1. closes => i = 1
        BY <1>1, <1>6
      <4> QED
        BY <2>3, <2>8, <4>1
    <3>2. GetGeneric(s.tables[q], f) = GetGeneric(handle_table[q], f)
      BY <2>2, <2>8
    <3>3. IsValid(s.tables[q], f)
      <4>1. handle_table[q] \in Table
        BY <1>5, SoundTable
      <4>2. GetGeneric(handle_table[q], f) # NullObject
        BY <2>8, <4>1, NamesObject
      <4> QED
        BY <3>2, <4>2 DEF GetGeneric
    <3> QED
      BY <2>6, <3>1, <3>2, <3>3
  <2>9. Sound(b, i)
    BY <2>7, <2>8
  <2> HIDE DEF Sound
  <2> QED
    BY <2>5, <2>7, <2>9
<1> HIDE DEF T
<1>9. 0..n \subseteq T
  BY <1>7, <1>8, UpTo
<1>10. n \in 0..n
  BY <1>1
<1>11. Sound(a, n)
  BY <1>3, <1>9, <1>10 DEF T
<1> QED
  BY <1>1, <1>2, <1>4, <1>11 DEF a

(***************************************************************************)
(* The reply of a service: each object gets a handle.                      *)
(***************************************************************************)
Answered(p, objects) ==
    LET after[i \in 0..Len(objects)] == IF i = 0 THEN Start ELSE Give(after[i - 1], p, objects[i])
    IN after[Len(objects)]

LEMMA ServiceAnswersAnswers ==
    ASSUME NEW p, NEW objects, ServiceAnswers(p, objects)
    PROVE  LET a == Answered(p, objects) IN
           a.fits /\ handle_table' = a.tables /\ context' = <<>> /\ observed' = {}
BY DEF ServiceAnswers, Answered

LEMMA AnsweredSound ==
    ASSUME TablesInv, NEW p \in Processes, NEW objects \in Seq(KernelObjects \cup {NullObject})
    PROVE  /\ Answered(p, objects) \in State
           /\ KeepsAll(handle_table, Answered(p, objects).tables)
<1>1. PICK n \in Nat : n = Len(objects)
  BY LenProperties
<1>2. \A i \in 1..n : objects[i] \in KernelObjects \cup {NullObject}
  BY <1>1, ElementOfSeq
<1> DEFINE F == [i \in 1..n |-> [a \in State |-> Give(a, p, objects[i])]]
           Body(g) == [i \in 0..n |-> IF i = 0 THEN Start ELSE Give(g[i - 1], p, objects[i])]
           after == CHOOSE g : g = Body(g)
<1>4. \A i \in 1..n, a \in State :
         Give(a, p, objects[i]) \in State /\ KeepsAll(a.tables, Give(a, p, objects[i]).tables)
  BY <1>2, GiveSound
<1>5. F \in [1..n -> [State -> State]]
  BY <1>4
<1>6. \A i \in 1..n, a \in State : F[i][a] = Give(a, p, objects[i])
  OBVIOUS
<1>7. Start \in State /\ KeepsAll(handle_table, Start.tables)
  BY StartState DEF KeepsAll, Keeps
<1>8. \E g : g = Body(g)
  <2> HIDE DEF F
  <2>1. Steps(State, Start, F, n) # {}
    BY <1>5, <1>7, Iteration
  <2>2. PICK g \in [0..n -> State] : g[0] = Start /\ \A i \in 1..n : g[i] = F[i][g[i - 1]]
    BY <2>1 DEF Steps
  <2>3. \A i \in 1..n : i - 1 \in 0..n
    BY <1>1
  <2>4. \A i \in 1..n : g[i] = Give(g[i - 1], p, objects[i])
    BY <1>6, <2>2, <2>3
  <2>5. \A i \in 0..n : i = 0 \/ i \in 1..n
    BY <1>1
  <2>6. g = [i \in 0..n |-> g[i]]
    BY <2>2
  <2>7. g = Body(g)
    BY <2>2, <2>4, <2>5, <2>6
  <2> QED
    BY <2>7
<1>9. after = Body(after)
  <2> HIDE DEF Body
  <2> QED
    BY <1>8
<1>10. Answered(p, objects) = after[n]
  BY <1>1 DEF Answered
<1> HIDE DEF after
<1>11. /\ after[0] = Start
       /\ \A i \in 1..n : after[i] = Give(after[i - 1], p, objects[i])
  <2>1. 0 \in 0..n /\ \A i \in 1..n : i \in 0..n /\ i # 0
    BY <1>1
  <2> QED
    BY <1>9, <2>1
<1> DEFINE T == {i \in 0..n : after[i] \in State /\ KeepsAll(handle_table, after[i].tables)}
<1>12. 0 \in T
  BY <1>1, <1>7, <1>11
<1>13. ASSUME NEW i \in 1..n, i - 1 \in T
       PROVE  i \in T
  <2>1. PICK a \in State : a = after[i - 1] /\ KeepsAll(handle_table, a.tables)
    BY <1>13
  <2>2. PICK b \in State : b = after[i] /\ KeepsAll(a.tables, b.tables)
    BY <1>4, <1>11, <2>1
  <2>3. handle_table \in SoundTables /\ a.tables \in SoundTables
    BY DEF TablesInv, SoundTables, State
  <2>4. KeepsAll(handle_table, b.tables)
    BY <2>1, <2>2, <2>3, KeepsAllTransitive
  <2>5. i \in 0..n
    BY <1>1
  <2> QED
    BY <2>2, <2>4, <2>5
<1> HIDE DEF T
<1>14. 0..n \subseteq T
  BY <1>12, <1>13, UpTo
<1>15. n \in 0..n
  BY <1>1
<1>16. after[n] \in State /\ KeepsAll(handle_table, after[n].tables)
  BY <1>14, <1>15 DEF T
<1> QED
  BY <1>10, <1>16

(***************************************************************************)
(* Every step keeps the invariant and the handles.                         *)
(***************************************************************************)
StableStep ==
    \A p \in Processes, h \in Handle :
       IsValid(handle_table[p], h) =>
          \/ GetGeneric(handle_table'[p], h) = GetGeneric(handle_table[p], h)
          \/ GivenUp(p, h)

GoodStep == TablesInv' /\ NothingLostInTransfer' /\ StableStep

LEMMA TablesOfProcesses ==
    ASSUME TablesInv
    PROVE  handle_table \in SoundTables
BY DEF TablesInv, SoundTables

LEMMA TablesNow ==
    ASSUME NEW tables \in SoundTables, handle_table' = tables,
           context' \in Seq(KernelObjects \cup {NullObject}), observed' = {}
    PROVE  TablesInv' /\ NothingLostInTransfer'
BY DEF TablesInv, SoundTables, NothingLostInTransfer

(* Create in the table of one process.                                     *)
LEMMA CreatedStep ==
    ASSUME TablesInv, NEW p \in Processes, NEW object \in KernelObjects, ~Full(handle_table[p]),
           handle_table' = [handle_table EXCEPT ![p] = Created(@, object)],
           observed' = {}, UNCHANGED context
    PROVE  GoodStep
<1>1. handle_table \in SoundTables /\ context' \in Seq(KernelObjects \cup {NullObject})
  BY TablesOfProcesses DEF TablesInv
<1>2. PICK t : t = handle_table[p]
  OBVIOUS
<1>3. TableInv(t) /\ ~Full(t)
  BY <1>1, <1>2, SoundTable
<1>4. PICK u : u = Created(t, object)
  OBVIOUS
<1>5. TableInv(u) /\ Keeps(t, u)
  BY <1>3, <1>4, CreatedInv, CreatedKeeps
<1>6. PICK others \in SoundTables :
        /\ others = [handle_table EXCEPT ![p] = u]
        /\ others[p] = u
        /\ \A q \in Processes : q # p => others[q] = handle_table[q]
  BY <1>1, <1>5, TableChanged
<1>7. handle_table' = others
  BY <1>2, <1>4, <1>6
<1>8. StableStep
  BY <1>2, <1>5, <1>6, <1>7 DEF StableStep, Keeps
<1> QED
  BY <1>1, <1>7, <1>8, TablesNow DEF GoodStep

LEMMA CreateObjectStep ==
    ASSUME TablesInv, NEW p \in Processes, CreateObject(p)
    PROVE  GoodStep
BY CreatedStep DEF CreateObject

LEMMA DuplicateHandleStep ==
    ASSUME TablesInv, NEW p \in Processes, NEW h \in Handle, DuplicateHandle(p, h)
    PROVE  GoodStep
<1>1. PICK object : object = GetGeneric(handle_table[p], h)
  OBVIOUS
<1>2. object \in KernelObjects
  <2>1. handle_table[p] \in Table
    BY TablesOfProcesses, SoundTable
  <2>2. object # NullObject
    BY <1>1 DEF DuplicateHandle
  <2> QED
    BY <1>1, <2>1, <2>2, NamesObject
<1> QED
  BY <1>1, <1>2, CreatedStep DEF DuplicateHandle

LEMMA CloseHandleStep ==
    ASSUME TablesInv, NEW p \in Processes, NEW h \in Handle, CloseHandle(p, h)
    PROVE  GoodStep
<1>1. handle_table \in SoundTables /\ context' \in Seq(KernelObjects \cup {NullObject}) /\ observed' = {}
  BY TablesOfProcesses DEF TablesInv, CloseHandle
<1>2. PICK t : t = handle_table[p]
  OBVIOUS
<1>3. TableInv(t) /\ IsValid(t, h)
  BY <1>1, <1>2, SoundTable DEF CloseHandle
<1>4. PICK u : u = Closed(t, h)
  OBVIOUS
<1>5. TableInv(u)
  BY <1>3, <1>4, ClosedInv
<1>6. \A f \in Handle : f # h /\ IsValid(t, f) => GetGeneric(u, f) = GetGeneric(t, f)
  BY <1>3, <1>4, ClosedKeeps
<1>7. PICK others \in SoundTables :
        /\ others = [handle_table EXCEPT ![p] = u]
        /\ others[p] = u
        /\ \A q \in Processes : q # p => others[q] = handle_table[q]
  BY <1>1, <1>5, TableChanged
<1>8. handle_table' = others
  BY <1>2, <1>4, <1>7 DEF CloseHandle
<1>9. StableStep
  <2> SUFFICES ASSUME NEW q \in Processes, NEW f \in Handle, IsValid(handle_table[q], f)
               PROVE  GetGeneric(others[q], f) = GetGeneric(handle_table[q], f) \/ (q = p /\ f = h)
    BY <1>8 DEF StableStep, GivenUp
  <2> QED
    BY <1>2, <1>6, <1>7
<1> QED
  BY <1>1, <1>8, <1>9, TablesNow DEF GoodStep

LEMMA OneHandle ==
    ASSUME NEW kind, NEW hs \in Seq(Handle), Closes(kind, hs)
    PROVE  kind = "MoveHandle" /\ hs = <<hs[1]>>
<1>1. kind = "MoveHandle" /\ Len(hs) = 1
  BY DEF Closes
<1>2. hs = <<hs[1]>>
  <2>1. PICK one : one = <<hs[1]>>
    OBVIOUS
  <2>2. hs[1] \in Handle
    BY <1>1, ElementOfSeq
  <2>3. one \in Seq(Handle) /\ Len(one) = 1 /\ one[1] = hs[1]
    BY <2>1, <2>2
  <2>4. \A i \in 1..Len(hs) : hs[i] = one[i]
    BY <1>1, <2>3
  <2>5. hs = one
    BY <1>1, <2>3, <2>4, SeqEqual
  <2> QED
    BY <2>1, <2>5
<1> QED
  BY <1>1, <1>2

LEMMA PassStep ==
    ASSUME TablesInv, NEW from \in Processes, NEW to \in Processes, NEW kind,
           NEW hs \in Messages(from), Pass(from, to, kind, hs)
    PROVE  GoodStep
<1>1. hs \in Seq(Handle) /\ Len(hs) > 0
  BY MessagesOfHandles
<1>2. PICK a : a = Translate(from, to, kind, hs)
  OBVIOUS
<1>3. /\ a.fits /\ handle_table' = a.tables /\ UNCHANGED context
      /\ observed' = IF Lost(from, to, hs, a) THEN {"lost"} ELSE {}
  BY <1>2 DEF Pass
<1>4. /\ a \in State
      /\ \A q \in Processes, f \in Handle :
            IsValid(handle_table[q], f) /\ (~Closes(kind, hs) \/ q # from \/ f # hs[1]) =>
               GetGeneric(a.tables[q], f) = GetGeneric(handle_table[q], f)
      /\ Arrived(a, Len(hs), from, to, hs)
  BY <1>1, <1>2, Translated
<1>5. ~Lost(from, to, hs, a)
  BY <1>3, <1>4 DEF Lost, Arrived
<1>6. observed' = {} /\ context' \in Seq(KernelObjects \cup {NullObject}) /\ a.tables \in SoundTables
  BY <1>3, <1>4, <1>5 DEF TablesInv, State
<1>7. Closes(kind, hs) => GivenUp(from, hs[1])
  BY <1>1, OneHandle DEF GivenUp
<1>8. StableStep
  <2> SUFFICES ASSUME NEW q \in Processes, NEW f \in Handle, IsValid(handle_table[q], f)
               PROVE  GetGeneric(a.tables[q], f) = GetGeneric(handle_table[q], f) \/ GivenUp(q, f)
    BY <1>3 DEF StableStep
  <2>1. CASE ~Closes(kind, hs) \/ q # from \/ f # hs[1]
    BY <1>4, <2>1
  <2>2. CASE Closes(kind, hs) /\ q = from /\ f = hs[1]
    BY <1>7, <2>2
  <2> QED
    BY <2>1, <2>2
<1> QED
  BY <1>3, <1>6, <1>8, TablesNow DEF GoodStep

LEMMA AskServiceStep ==
    ASSUME TablesInv, NEW p \in Processes, NEW kind, NEW hs \in Messages(p), AskService(p, kind, hs)
    PROVE  GoodStep
<1>1. hs \in Seq(Handle) /\ Len(hs) > 0
  BY MessagesOfHandles
<1>2. PICK a : a = Asked(p, kind, hs)
  OBVIOUS
<1>3. handle_table' = a.tables /\ context' = a.found /\ observed' = {}
  BY <1>2, AskServiceAsks
<1>4. /\ a \in State /\ Len(a.found) = Len(hs)
      /\ \A q \in Processes, f \in Handle :
            IsValid(handle_table[q], f) /\ (~Closes(kind, hs) \/ q # p \/ f # hs[1]) =>
               GetGeneric(a.tables[q], f) = GetGeneric(handle_table[q], f)
  BY <1>1, <1>2, AskedSound
<1>5. a.tables \in SoundTables /\ a.found \in Seq(KernelObjects \cup {NullObject})
  BY <1>4 DEF State
<1>6. context' \in Seq(KernelObjects \cup {NullObject})
  BY <1>3, <1>5
<1>7. Closes(kind, hs) => GivenUp(p, hs[1])
  BY <1>1, OneHandle DEF GivenUp
<1>8. StableStep
  <2> SUFFICES ASSUME NEW q \in Processes, NEW f \in Handle, IsValid(handle_table[q], f)
               PROVE  GetGeneric(a.tables[q], f) = GetGeneric(handle_table[q], f) \/ GivenUp(q, f)
    BY <1>3 DEF StableStep
  <2>1. CASE ~Closes(kind, hs) \/ q # p \/ f # hs[1]
    BY <1>4, <2>1
  <2>2. CASE Closes(kind, hs) /\ q = p /\ f = hs[1]
    BY <1>7, <2>2
  <2> QED
    BY <2>1, <2>2
<1> QED
  BY <1>3, <1>5, <1>6, <1>8, TablesNow DEF GoodStep

LEMMA ServiceAnswersStep ==
    ASSUME TablesInv, NEW p \in Processes, NEW objects \in {<<>>, context}, ServiceAnswers(p, objects)
    PROVE  GoodStep
<1>1. objects \in Seq(KernelObjects \cup {NullObject}) /\ <<>> \in Seq(KernelObjects \cup {NullObject})
  BY EmptySeq DEF TablesInv
<1>2. PICK a : a = Answered(p, objects)
  OBVIOUS
<1>3. handle_table' = a.tables /\ context' = <<>> /\ observed' = {}
  BY <1>2, ServiceAnswersAnswers
<1>4. a.tables \in SoundTables /\ KeepsAll(handle_table, a.tables)
  BY <1>1, <1>2, AnsweredSound DEF State
<1>5. StableStep
  BY <1>3, <1>4 DEF StableStep, KeepsAll, Keeps
<1> QED
  BY <1>1, <1>3, <1>4, <1>5, TablesNow DEF GoodStep

LEMMA NextStep ==
    ASSUME TablesInv, Next
    PROVE  GoodStep
<1>1. PICK p \in Processes :
        \/ CreateObject(p)
        \/ \E h \in Known(p) : DuplicateHandle(p, h) \/ CloseHandle(p, h)
        \/ \E kind \in Descriptors, hs \in Messages(p) :
              \/ \E q \in Processes : Pass(p, q, kind, hs)
              \/ AskService(p, kind, hs)
        \/ \E objects \in {<<>>, context} : ServiceAnswers(p, objects)
  BY DEF Next
<1>2. CASE CreateObject(p)
  BY <1>2, CreateObjectStep
<1>3. CASE \E h \in Known(p) : DuplicateHandle(p, h) \/ CloseHandle(p, h)
  <2>1. Known(p) \subseteq Handle
    BY KnownHandles
  <2>2. PICK h \in Handle : DuplicateHandle(p, h) \/ CloseHandle(p, h)
    BY <1>3, <2>1
  <2> QED
    BY <2>2, DuplicateHandleStep, CloseHandleStep
<1>4. CASE \E kind \in Descriptors, hs \in Messages(p) :
              \/ \E q \in Processes : Pass(p, q, kind, hs)
              \/ AskService(p, kind, hs)
  <2>1. PICK kind \in Descriptors, hs \in Messages(p) :
          \/ \E q \in Processes : Pass(p, q, kind, hs)
          \/ AskService(p, kind, hs)
    BY <1>4
  <2>2. CASE \E q \in Processes : Pass(p, q, kind, hs)
    BY <2>2, PassStep
  <2>3. CASE AskService(p, kind, hs)
    BY <2>3, AskServiceStep
  <2> QED
    BY <2>1, <2>2, <2>3
<1>5. CASE \E objects \in {<<>>, context} : ServiceAnswers(p, objects)
  BY <1>5, ServiceAnswersStep
<1> QED
  BY <1>1, <1>2, <1>3, <1>4, <1>5

(***************************************************************************)
(* The theorems.                                                           *)
(***************************************************************************)
(* The tables stay sound and chained, generations are issued one after the *)
(* other: what Create and Close leave behind (handle_table.cpp:26-74).     *)
THEOREM HandleInvariant == Spec => []TablesInv
<1>1. Init => TablesInv
  <2> SUFFICES ASSUME Init
               PROVE  TablesInv
    OBVIOUS
  <2>1. handle_table = [p \in Processes |-> EmptyTable] /\ context = <<>> /\ observed = {}
    BY DEF Init
  <2>2. EmptyTable \in Table
    BY EmptyTableInv DEF TableInv
  <2>3. <<>> \in Seq(KernelObjects \cup {NullObject})
    BY EmptySeq
  <2> QED
    BY <2>1, <2>2, <2>3, EmptyTableInv DEF TablesInv
<1>2. TablesInv /\ [Next]_vars => TablesInv'
  <2>1. TablesInv /\ Next => TablesInv'
    BY NextStep DEF GoodStep
  <2>2. TablesInv /\ UNCHANGED vars => TablesInv'
    BY DEF TablesInv, vars
  <2> QED
    BY <2>1, <2>2
<1> QED
  BY <1>1, <1>2, PTL DEF Spec

(* No slot is lost or listed twice, and no handle that was given up comes  *)
(* alive before every other generation was used (handle_table.h:33), for   *)
(* any number of processes, slots, generations and objects.                *)
THEOREM TablesStaySound == Spec => []TablesSound
<1>1. TablesInv => TablesSound
  <2> SUFFICES ASSUME TablesInv
               PROVE  TablesSound
    OBVIOUS
  <2>1. TypeOK
    BY DEF TypeOK, TablesInv
  <2>2. FreeListExact
    <3> SUFFICES ASSUME NEW p \in Processes
                 PROVE  LET t == handle_table[p]
                            free == FreeList(t) IN
                        /\ {free[i] : i \in 1..Len(free)} = {i \in Slots : t.objects[i] = NullObject}
                        /\ \A i, j \in 1..Len(free) : i # j => free[i] # free[j]
      BY DEF FreeListExact
    <3>1. TableInv(handle_table[p])
      BY DEF TablesInv
    <3> QED
      BY <3>1, FreeListSound
  <2>3. StaleHandlesInvalid
    BY DEF StaleHandlesInvalid, TablesInv, TableInv, StaleInvalid
  <2> QED
    BY <2>1, <2>2, <2>3 DEF TablesSound
<1> QED
  BY <1>1, HandleInvariant, PTL

(* Whatever handles a message names, copied or moved, between processes or *)
(* within one, the receiver gets each of the objects (ipc.cpp:71-97).      *)
THEOREM NoObjectLost == Spec => []NothingLostInTransfer
<1>1. Init => NothingLostInTransfer
  BY DEF Init, NothingLostInTransfer
<1>2. TablesInv /\ NothingLostInTransfer /\ [Next]_vars => NothingLostInTransfer'
  <2>1. TablesInv /\ Next => NothingLostInTransfer'
    BY NextStep DEF GoodStep
  <2>2. NothingLostInTransfer /\ UNCHANGED vars => NothingLostInTransfer'
    BY DEF NothingLostInTransfer, vars
  <2> QED
    BY <2>1, <2>2
<1> QED
  BY <1>1, <1>2, HandleInvariant, PTL DEF Spec

(* No step makes a handle name another object, and none takes a handle     *)
(* away that its owner neither closed nor moved (handle_table.h:24-45).    *)
THEOREM HandlesStayStable == Spec => HandlesStable
<1>1. TablesInv /\ [Next]_vars =>
        [\A p \in Processes, h \in Handle :
            IsValid(handle_table[p], h) =>
                \/ GetGeneric(handle_table'[p], h) = GetGeneric(handle_table[p], h)
                \/ GivenUp(p, h)]_vars
  <2>1. TablesInv /\ Next => StableStep
    BY NextStep DEF GoodStep
  <2> QED
    BY <2>1 DEF StableStep
<1> QED
  BY <1>1, HandleInvariant, PTL DEF Spec, HandlesStable
=============================================================================
